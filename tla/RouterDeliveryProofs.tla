------------------------ MODULE RouterDeliveryProofs -------------------------
(***************************************************************************)
(* Proofs about the router at the grain of its mutex and of single writes, *)
(* for any number of connections, users, rooms and messages: what is       *)
(* proved of MessageRouter holds while calls block, frames are torn by     *)
(* replies only, deliveries have one order, and BroadcastRoom keeps the    *)
(* promise of RoomBroadcast.                                               *)
(***************************************************************************)
EXTENDS RouterDelivery, MessageRouterProofs, SequenceTheorems, FunctionTheorems,
        FiniteSetTheorems

\* A connection's handler is in a call only at "call" and "write"; what a
\* BroadcastRoom carries is in nobody else's hands.
CallInv ==
    /\ \A c \in Conns : pc[c] \in {"new", "loop", "gone"} => call[c] = Replying
    /\ \A c \in Conns : call[c].text \in Messages <=> call[c].kind = "BroadcastRoom"
    /\ \A c \in Conns : call[c].text \notin unsent
    /\ \A c, d \in Conns :
        c # d /\ call[c].text \in Messages => call[c].text # call[d].text

\* Whoever has the mutex is writing for the router; whoever else is writing
\* writes a reply to its own client.
LockInv ==
    /\ mu # NoConn => pc[mu] = "write" /\ call[mu].kind \in Writing
    /\ \A c \in Conns : pc[c] = "write" /\ mu # c =>
        /\ call[c].kind = "reply"
        /\ \A f \in todo[c] : f.to = c
    /\ \A c \in Conns : half[c] # NoConn => pc[c] = "write" /\ (mu = c \/ half[c] = c)
    /\ \A c \in Conns : done[c] # {} => mu = c /\ call[c].kind = "BroadcastRoom"

\* The broadcast under way: the members are those the call has found, each of
\* them is done, in hand, still to come or dead, and nobody is two of the first
\* three.
BroadcastInv ==
    mu # NoConn /\ call[mu].kind = "BroadcastRoom" =>
        LET to == Recipients(call[mu].room)
        IN  /\ call[mu].room \in rooms
            /\ \A d \in to \ dead :
                d \in done[mu] \/ d = half[mu] \/ \E f \in todo[mu] : f.to = d
            /\ done[mu] \subseteq to
            /\ half[mu] # NoConn => half[mu] \in to \ done[mu]
            /\ \A f \in todo[mu] :
                /\ f.to \in to \ done[mu] /\ f.to # half[mu]
                /\ f.line = DefaultRoom

\* What is received has been said, once to each; what is still being said is
\* the last that those who have it have received.
OrderInv ==
    /\ \A d \in Conns : \A i \in 1 .. Len(received[d]) : received[d][i] \notin unsent
    /\ \A c, d \in Conns : \A i \in 1 .. Len(received[d]) :
        received[d][i] = call[c].text =>
            mu = c /\ d \in done[c] /\ i = Len(received[d])
    /\ \A d \in Conns : \A i, j \in 1 .. Len(received[d]) :
        i # j => received[d][i] # received[d][j]
    /\ SameOrder

\* Those who are done have it.
DoneInv ==
    \A c \in Conns : \A d \in done[c] :
        received[d] # <<>> /\ received[d][Len(received[d])] = call[c].text

DInv == /\ DeliveryTypeOK /\ CallInv /\ LockInv /\ BroadcastInv /\ OrderInv
        /\ DoneInv /\ NoGhostRooms /\ MembersAreRoutable

LEMMA DeliveryInitInv == DeliveryInit => DInv
  <1> SUFFICES ASSUME DeliveryInit PROVE DInv
    OBVIOUS
  <1> USE NoConnAssumption, DefaultRoomAssumption, MessagesAssumption DEF DeliveryInit
  <1>1. TypeOK /\ NoGhostRooms /\ MembersAreRoutable
    BY InitInv DEF IInv
  <1>2. DeliveryTypeOK
    BY <1>1 DEF DeliveryTypeOK, Calls, Frames, Replying, Call
  <1>3. CallInv
    BY DEF CallInv, Replying, Call
  <1>4. LockInv /\ BroadcastInv /\ DoneInv
    BY DEF LockInv, BroadcastInv, DoneInv
  <1>5. \A d \in Conns : Len(received[d]) = 0
    OBVIOUS
  <1>6. OrderInv
    BY <1>5 DEF OrderInv, SameOrder
  <1> QED
    BY <1>1, <1>2, <1>3, <1>4, <1>6 DEF DInv
------------------------------------------------------------------------------
\* The router's tables change only as MessageRouter says, under the mutex.
LEMMA TablesStep ==
    ASSUME DeliveryTypeOK, NoGhostRooms, MembersAreRoutable,
           [DeliveryNext]_deliveryVars
    PROVE  /\ [Next]_vars
           /\ TypeOK' /\ NoGhostRooms' /\ MembersAreRoutable'
           /\ mu # NoConn => UNCHANGED vars
  <1> USE OwnerAssumption, NoConnAssumption
      DEF DeliveryTypeOK
  <1>1. [Next]_vars /\ (mu # NoConn => UNCHANGED vars)
    <2>1. ASSUME NEW c \in Conns, DoJoin(c)
          PROVE  [Next]_vars /\ mu = NoConn
      <3>1. call[c].room \in Rooms /\ Owner[c] \in Users
        BY DEF Calls
      <3> QED
        BY <2>1, <3>1 DEF DoJoin, Enters, Next
    <2>2. ASSUME NEW c \in Conns, DoLeave(c)
          PROVE  [Next]_vars /\ mu = NoConn
      <3>1. call[c].room \in Rooms /\ Owner[c] \in Users
        BY DEF Calls
      <3> QED
        BY <2>2, <3>1 DEF DoLeave, Enters, Next
    <2>3. ASSUME NEW c \in Conns, DoDisconnect(c)
          PROVE  [Next]_vars /\ mu = NoConn
      <3>1. Owner[c] \in Users
        OBVIOUS
      <3> QED
        BY <2>3, <3>1 DEF DoDisconnect, Enters, Next
    <2>4. ASSUME NEW c \in Conns, Lock(c) \/ Refuse(c) \/ Advance(c)
          PROVE  UNCHANGED vars
      BY <2>4 DEF Lock, Refuse, Advance, Enter, ReadError, Begin, WriteHeader,
                  HeaderFails, WriteBody, BodyFails, Finish
    <2>5. ASSUME NEW c \in Conns,
                 (\E k \in Commands : Read(c, k)) \/ Reply(c) \/ Stall(c) \/ Expire(c)
          PROVE  UNCHANGED vars
      BY <2>5 DEF Read, Reply, Begin, Stall, Expire
    <2>6. CASE UNCHANGED deliveryVars
      BY <2>6 DEF deliveryVars
    <2> QED
      BY <2>1, <2>2, <2>3, <2>4, <2>5, <2>6 DEF DeliveryNext, Acquire
  <1> QED
    BY <1>1, NextInv DEF IInv
------------------------------------------------------------------------------
LEMMA FrameFacts ==
    /\ \A f \in Frames : f.to \in Conns
    /\ \A f, g \in Frames : f.to = g.to /\ f.line = g.line => f = g
    /\ \A d, r : /\ [to |-> d, line |-> r].to = d
                 /\ [to |-> d, line |-> r].line = r
  BY DEF Frames

LEMMA TodoType ==
    ASSUME NEW t \in [Conns -> SUBSET Frames], NEW c \in Conns, NEW T \in SUBSET Frames
    PROVE  [t EXCEPT ![c] = T] \in [Conns -> SUBSET Frames]
  OBVIOUS

\* Everything but the tables keeps its type.
LEMMA TypeStep ==
    ASSUME DeliveryTypeOK, TypeOK', [DeliveryNext]_deliveryVars
    PROVE  DeliveryTypeOK'
  <1> USE OwnerAssumption, NoConnAssumption, DefaultRoomAssumption
      DEF DeliveryTypeOK
  <1>0. /\ Replying \in Calls /\ Disconnecting \in Calls /\ Joining(DefaultRoom) \in Calls
        /\ \A k \in Commands : k \in Calls
        /\ \A c \in Conns : [to |-> c, line |-> DefaultRoom] \in Frames
    BY DEF Commands, Calls, Frames, Replying, Disconnecting, Joining, Leaving,
           Printing, Saying, Call
  <1>1. ASSUME NEW c \in Conns, NEW k \in Calls, Begin(c, k)
        PROVE  /\ call' \in [Conns -> Calls] /\ unsent' \in SUBSET Messages
               /\ UNCHANGED <<mu, half, done, received, stalled, dead>>
    BY <1>1 DEF Begin
  <1>2. ASSUME NEW c \in Conns, NEW k \in Calls, Begin(c, k),
               \/ pc' = [pc EXCEPT ![c] = "call"]
               \/ pc' = [pc EXCEPT ![c] = "write"],
               \/ UNCHANGED todo
               \/ todo' = [todo EXCEPT ![c] = {[to |-> c, line |-> DefaultRoom]}]
        PROVE  DeliveryTypeOK'
    <2>1. pc' \in [Conns -> {"new", "loop", "call", "write", "gone"}]
      BY <1>2
    <2>2. todo' \in [Conns -> SUBSET Frames]
      <3>1. {[to |-> c, line |-> DefaultRoom]} \in SUBSET Frames
        BY <1>0
      <3>2. CASE UNCHANGED todo
        BY <3>2
      <3>3. CASE todo' = [todo EXCEPT ![c] = {[to |-> c, line |-> DefaultRoom]}]
        BY <3>1, <3>3, TodoType
      <3> QED
        BY <1>2, <3>2, <3>3
    <2> QED
      BY <1>1, <1>2, <2>1, <2>2
  <1>3. ASSUME NEW c \in Conns,
               Enter(c) \/ (\E k \in Commands : Read(c, k)) \/ Reply(c) \/ ReadError(c)
        PROVE  DeliveryTypeOK'
    <2>1. CASE Enter(c)
      BY <1>0, <1>2, <2>1 DEF Enter
    <2>2. ASSUME NEW k \in Commands, Read(c, k)
          PROVE  DeliveryTypeOK'
      BY <1>0, <1>2, <2>2 DEF Read
    <2>3. CASE Reply(c)
      BY <1>0, <1>2, <2>3 DEF Reply
    <2>4. CASE ReadError(c)
      BY <1>0, <1>2, <2>4 DEF ReadError
    <2> QED
      BY <1>3, <2>1, <2>2, <2>3, <2>4
  <1>4. ASSUME NEW c \in Conns, DoJoin(c) \/ DoLeave(c) \/ DoDisconnect(c)
        PROVE  DeliveryTypeOK'
    <2>1. PICK label \in {"loop", "gone"} : Returns(c, label)
      BY <1>4 DEF DoJoin, DoLeave, DoDisconnect
    <2> QED
      BY <1>0, <2>1 DEF Returns
  <1>5. ASSUME NEW c \in Conns, Lock(c) \/ Refuse(c)
        PROVE  DeliveryTypeOK'
    <2>1. FramesOf(c) \in SUBSET Frames
      <3>1. Recipients(call[c].room) \subseteq Conns
        BY DEF Recipients, TypeOK, Calls
      <3>2. rooms \subseteq Rooms
        BY DEF TypeOK
      <3> QED
        BY <3>1, <3>2 DEF FramesOf, Frames
    <2>2. CASE Lock(c)
      <3>1. todo' \in [Conns -> SUBSET Frames]
        BY <2>1, <2>2 DEF Lock
      <3>2. pc' \in [Conns -> {"new", "loop", "call", "write", "gone"}] /\ mu' \in Conns
        BY <2>2 DEF Lock
      <3> QED
        BY <2>2, <3>1, <3>2 DEF Lock
    <2>3. CASE Refuse(c)
      <3>1. todo' \in [Conns -> SUBSET Frames]
        BY <1>0, <2>3 DEF Refuse
      <3>2. pc' \in [Conns -> {"new", "loop", "call", "write", "gone"}]
        BY <2>3 DEF Refuse
      <3>3. call' \in [Conns -> Calls]
        BY <1>0, <2>3 DEF Refuse
      <3> QED
        BY <2>3, <3>1, <3>2, <3>3 DEF Refuse
    <2> QED
      BY <1>5, <2>2, <2>3
  <1>6. ASSUME NEW c \in Conns, NEW f \in todo[c], WriteHeader(c, f) \/ HeaderFails(c, f)
        PROVE  DeliveryTypeOK'
    <2>1. todo' \in [Conns -> SUBSET Frames]
      <3>1. todo[c] \ {f} \in SUBSET Frames
        OBVIOUS
      <3>2. todo' = [todo EXCEPT ![c] = todo[c] \ {f}]
        BY <1>6 DEF WriteHeader, HeaderFails
      <3> QED
        BY <3>1, <3>2, TodoType
    <2>2. half' \in [Conns -> Conns \cup {NoConn}]
      <3>1. f.to \in Conns
        BY <1>6 DEF Frames
      <3> QED
        BY <1>6, <3>1 DEF WriteHeader, HeaderFails
    <2> QED
      BY <1>6, <2>1, <2>2 DEF WriteHeader, HeaderFails
  <1>7. ASSUME NEW c \in Conns,
               WriteBody(c) \/ BodyFails(c) \/ Finish(c) \/ Stall(c) \/ Expire(c)
        PROVE  DeliveryTypeOK'
    <2>1. CASE WriteBody(c)
      <3>1. half[c] \in Conns
        BY <2>1 DEF WriteBody
      <3>2. half' \in [Conns -> Conns \cup {NoConn}]
        BY <2>1 DEF WriteBody
      <3>3. received' \in [Conns -> Seq(Messages)] /\ done' \in [Conns -> SUBSET Conns]
        <4>1. CASE call[c].text \in Messages
          <5>1. Append(received[half[c]], call[c].text) \in Seq(Messages)
            BY <3>1, <4>1
          <5>2. received' = [received EXCEPT ![half[c]]
                                = Append(received[half[c]], call[c].text)]
            BY <2>1, <4>1 DEF WriteBody
          <5>3. done' = [done EXCEPT ![c] = done[c] \cup {half[c]}]
            BY <2>1, <4>1 DEF WriteBody
          <5>4. received' \in [Conns -> Seq(Messages)]
            BY <3>1, <5>1, <5>2
          <5>5. done' \in [Conns -> SUBSET Conns]
            BY <3>1, <5>3
          <5> QED
            BY <5>4, <5>5
        <4>2. CASE call[c].text \notin Messages
          BY <2>1, <4>2 DEF WriteBody
        <4> QED
          BY <4>1, <4>2
      <3> QED
        BY <2>1, <3>2, <3>3 DEF WriteBody
    <2>2. CASE BodyFails(c)
      BY <2>2 DEF BodyFails
    <2>3. CASE Finish(c)
      BY <1>0, <2>3 DEF Finish
    <2>4. CASE Stall(c) \/ Expire(c)
      BY <2>4 DEF Stall, Expire, handlerVars
    <2> QED
      BY <1>7, <2>1, <2>2, <2>3, <2>4
  <1>8. CASE UNCHANGED deliveryVars
    BY <1>8 DEF deliveryVars, handlerVars
  <1> QED
    BY <1>3, <1>4, <1>5, <1>6, <1>7, <1>8 DEF DeliveryNext, Acquire, Advance
------------------------------------------------------------------------------
LEMMA CallStep ==
    ASSUME DInv, [DeliveryNext]_deliveryVars
    PROVE  CallInv'
  <1> USE MessagesAssumption DEF DInv, DeliveryTypeOK, CallInv
  <1>0. /\ Replying.text = NoMessage /\ Replying.kind = "reply"
        /\ \A k \in Commands \cup {Disconnecting, Joining(DefaultRoom)} :
             /\ k.text \in Messages <=> k.kind = "BroadcastRoom"
             /\ k.text \in unsent \cup {NoMessage}
    BY DEF Commands, Replying, Disconnecting, Joining, Leaving, Printing, Saying, Call
  <1>1. ASSUME NEW c \in Conns, NEW k, Begin(c, k), k.text \in unsent \cup {NoMessage},
               k.text \in Messages <=> k.kind = "BroadcastRoom",
               pc[c] \in {"new", "loop"},
               pc' = [pc EXCEPT ![c] = "call"] \/ pc' = [pc EXCEPT ![c] = "write"]
        PROVE  CallInv'
    BY <1>0, <1>1 DEF Begin
  <1>2. ASSUME NEW c \in Conns,
               Enter(c) \/ (\E k \in Commands : Read(c, k)) \/ Reply(c) \/ ReadError(c)
        PROVE  CallInv'
    BY <1>0, <1>1, <1>2 DEF Enter, Read, Reply, ReadError
  <1>3. ASSUME NEW c \in Conns, DoJoin(c) \/ DoLeave(c) \/ DoDisconnect(c)
        PROVE  CallInv'
    <2>1. PICK label \in {"loop", "gone"} : Returns(c, label)
      BY <1>3 DEF DoJoin, DoLeave, DoDisconnect
    <2>2. /\ call' = [call EXCEPT ![c] = Replying]
          /\ pc' = [pc EXCEPT ![c] = label]
          /\ unsent' = unsent
      BY <2>1 DEF Returns
    <2>3. /\ call'[c] = Replying /\ pc'[c] = label
          /\ \A d \in Conns \ {c} : call'[d] = call[d] /\ pc'[d] = pc[d]
      BY <2>2
    <2> QED
      BY <1>0, <2>2, <2>3
  <1>4. ASSUME NEW c \in Conns, Lock(c) \/ Refuse(c)
        PROVE  CallInv'
    <2>1. CASE Lock(c)
      BY <2>1 DEF Lock
    <2>2. CASE Refuse(c)
      BY <1>0, <2>2 DEF Refuse
    <2> QED
      BY <1>4, <2>1, <2>2
  <1>5. ASSUME NEW c \in Conns, NEW f \in todo[c], WriteHeader(c, f) \/ HeaderFails(c, f)
        PROVE  CallInv'
    BY <1>5 DEF WriteHeader, HeaderFails
  <1>6. ASSUME NEW c \in Conns, WriteBody(c) \/ BodyFails(c) \/ Stall(c) \/ Expire(c)
        PROVE  CallInv'
    BY <1>6 DEF WriteBody, BodyFails, Stall, Expire, handlerVars
  <1>7. ASSUME NEW c \in Conns, Finish(c)
        PROVE  CallInv'
    BY <1>0, <1>7 DEF Finish
  <1>8. CASE UNCHANGED deliveryVars
    BY <1>8 DEF deliveryVars, handlerVars
  <1> QED
    BY <1>2, <1>3, <1>4, <1>5, <1>6, <1>7, <1>8 DEF DeliveryNext, Acquire, Advance

LEMMA LockStep ==
    ASSUME DInv, [DeliveryNext]_deliveryVars
    PROVE  LockInv'
  <1> USE NoConnAssumption DEF DInv, DeliveryTypeOK, LockInv
  <1>1. ASSUME NEW c \in Conns,
               Enter(c) \/ (\E k \in Commands : Read(c, k)) \/ ReadError(c)
        PROVE  LockInv'
    <2>1. /\ pc[c] \in {"new", "loop"} /\ pc' = [pc EXCEPT ![c] = "call"]
          /\ UNCHANGED <<mu, todo, half, done>>
          /\ \A d \in Conns \ {c} : call'[d] = call[d]
      BY <1>1 DEF Enter, Read, ReadError, Begin
    <2>2. mu # c /\ half[c] = NoConn /\ done[c] = {}
      BY <2>1
    <2> QED
      BY <2>1, <2>2
  <1>2. ASSUME NEW c \in Conns, Reply(c)
        PROVE  LockInv'
    BY <1>2 DEF Reply, Begin, Replying, Call
  <1>3. ASSUME NEW c \in Conns, DoJoin(c) \/ DoLeave(c) \/ DoDisconnect(c)
        PROVE  LockInv'
    <2>1. PICK label \in {"loop", "gone"} : Returns(c, label)
      BY <1>3 DEF DoJoin, DoLeave, DoDisconnect
    <2>2. mu = NoConn /\ pc[c] = "call"
      BY <1>3 DEF DoJoin, DoLeave, DoDisconnect, Enters
    <2> QED
      BY <2>1, <2>2 DEF Returns
  <1>4. ASSUME NEW c \in Conns, Lock(c)
        PROVE  LockInv'
    BY <1>4 DEF Lock, Enters
  <1>5. ASSUME NEW c \in Conns, Refuse(c)
        PROVE  LockInv'
    BY <1>5 DEF Refuse, Enters, Replying, Call
  <1>6. ASSUME NEW c \in Conns, NEW f \in todo[c], WriteHeader(c, f) \/ HeaderFails(c, f)
        PROVE  LockInv'
    <2>1. CASE WriteHeader(c, f)
      BY <2>1 DEF WriteHeader
    <2>2. CASE HeaderFails(c, f)
      BY <2>2 DEF HeaderFails
    <2> QED
      BY <1>6, <2>1, <2>2
  <1>7. ASSUME NEW c \in Conns, WriteBody(c)
        PROVE  LockInv'
    BY <1>7, MessagesAssumption DEF WriteBody, CallInv
  <1>8. ASSUME NEW c \in Conns, BodyFails(c) \/ Stall(c) \/ Expire(c)
        PROVE  LockInv'
    BY <1>8 DEF BodyFails, Stall, Expire, handlerVars
  <1>9. ASSUME NEW c \in Conns, Finish(c)
        PROVE  LockInv'
    BY <1>9 DEF Finish
  <1>10. CASE UNCHANGED deliveryVars
    BY <1>10 DEF deliveryVars, handlerVars
  <1> QED
    BY <1>1, <1>2, <1>3, <1>4, <1>5, <1>6, <1>7, <1>8, <1>9, <1>10
       DEF DeliveryNext, Acquire, Advance
------------------------------------------------------------------------------
\* Nothing of the broadcast under way changes but that connections die.
LEMMA BroadcastFrame ==
    ASSUME BroadcastInv, UNCHANGED mu,
           mu # NoConn =>
               /\ UNCHANGED vars /\ call'[mu] = call[mu] /\ todo'[mu] = todo[mu]
               /\ half'[mu] = half[mu] /\ done'[mu] = done[mu]
               /\ dead \subseteq dead'
    PROVE  BroadcastInv'
  BY DEF BroadcastInv, Recipients, vars

\* A write of the holder goes to a member that is not done.
LEMMA Writer ==
    ASSUME DInv, NEW c \in Conns, half[c] # NoConn, call[c].text \in Messages
    PROVE  /\ mu = c /\ call[c].kind = "BroadcastRoom" /\ half[c] \in Conns
           /\ half[c] \notin done[c]
  <1>1. call[c].kind = "BroadcastRoom" /\ mu = c
    BY DEF DInv, CallInv, LockInv
  <1>2. half[c] \in Conns
    BY DEF DInv, DeliveryTypeOK
  <1> QED
    BY <1>1, <1>2, NoConnAssumption DEF DInv, BroadcastInv

LEMMA BroadcastStep ==
    ASSUME DInv, [DeliveryNext]_deliveryVars
    PROVE  BroadcastInv'
  <1> USE NoConnAssumption DEF DInv, DeliveryTypeOK
  <1>0. mu # NoConn => UNCHANGED vars
    BY TablesStep
  <1>1. ASSUME NEW c \in Conns,
               Enter(c) \/ (\E k \in Commands : Read(c, k)) \/ Reply(c) \/ ReadError(c)
        PROVE  BroadcastInv'
    <2>1. c # mu /\ UNCHANGED <<mu, half, done, dead>>
      BY <1>1 DEF LockInv, Enter, Read, Reply, ReadError, Begin
    <2>2. \A d \in Conns \ {c} : call'[d] = call[d] /\ todo'[d] = todo[d]
      BY <1>1 DEF Enter, Read, Reply, ReadError, Begin
    <2> QED
      BY <1>0, <2>1, <2>2, BroadcastFrame
  <1>2. ASSUME NEW c \in Conns, DoJoin(c) \/ DoLeave(c) \/ DoDisconnect(c) \/ Refuse(c)
        PROVE  BroadcastInv'
    <2>1. mu = NoConn /\ UNCHANGED mu
      BY <1>2 DEF DoJoin, DoLeave, DoDisconnect, Refuse, Enters, Returns
    <2> QED
      BY <2>1 DEF BroadcastInv
  <1>3. ASSUME NEW c \in Conns, Lock(c)
        PROVE  BroadcastInv'
    <2>1. /\ mu' = c /\ UNCHANGED <<vars, call, half, done, dead>>
          /\ todo'[c] = FramesOf(c) /\ ~Unknown(c)
          /\ half[c] = NoConn /\ done[c] = {}
      BY <1>3 DEF Lock, Enters, LockInv
    <2> SUFFICES ASSUME call[c].kind = "BroadcastRoom"
                 PROVE  BroadcastInv'
      BY <2>1 DEF BroadcastInv
    <2>2. call[c].room \in rooms
      BY <2>1 DEF Unknown
    <2>3. todo'[c] = {[to |-> d, line |-> DefaultRoom] : d \in Recipients(call[c].room)}
      BY <2>1 DEF FramesOf
    <2>4. /\ \A d \in Recipients(call[c].room) : \E f \in todo'[c] : f.to = d
          /\ \A f \in todo'[c] : f.to \in Recipients(call[c].room) /\ f.line = DefaultRoom
      <3>1. ASSUME NEW d \in Recipients(call[c].room)
            PROVE  \E f \in todo'[c] : f.to = d
        <4>1. [to |-> d, line |-> DefaultRoom] \in todo'[c]
          BY <2>3
        <4> QED
          BY Zenon, <4>1, FrameFacts
      <3>2. ASSUME NEW f \in todo'[c]
            PROVE  f.to \in Recipients(call[c].room) /\ f.line = DefaultRoom
        <4>1. PICK d \in Recipients(call[c].room) : f = [to |-> d, line |-> DefaultRoom]
          BY <2>3
        <4> QED
          BY Zenon, <4>1, FrameFacts
      <3> QED
        BY <3>1, <3>2
    <2>5. NoConn \notin Recipients(call[c].room)
      BY DEF Recipients
    <2>6. Recipients(call[c].room)' = Recipients(call[c].room)
      BY <2>1 DEF Recipients, vars
    <2>7. rooms' = rooms /\ call' = call /\ half' = half /\ done' = done
      BY <2>1 DEF vars
    <2> QED
      BY <2>1, <2>2, <2>4, <2>5, <2>6, <2>7 DEF BroadcastInv
  <1>4. ASSUME NEW c \in Conns, NEW f \in todo[c], WriteHeader(c, f)
        PROVE  BroadcastInv'
    <2>1. CASE mu # c
      BY <1>0, <1>4, <2>1, BroadcastFrame DEF WriteHeader
    <2>2. CASE mu = c
      <3>1. /\ todo'[c] = todo[c] \ {f} /\ half'[c] = f.to /\ half[c] = NoConn
            /\ UNCHANGED <<vars, mu, call, done, dead>>
        BY <1>4 DEF WriteHeader
      <3>2. \A g \in todo[c] : g # f /\ g.line = f.line => g.to # f.to
        BY FrameFacts
      <3>3. Recipients(call[c].room)' = Recipients(call[c].room) /\ rooms' = rooms
        BY <3>1 DEF Recipients, vars
      <3>4. ASSUME call[c].kind = "BroadcastRoom"
            PROVE  BroadcastInv'
        <4> DEFINE to == Recipients(call[c].room)
        <4>1. /\ call[c].room \in rooms
              /\ \A d \in to \ dead :
                  d \in done[c] \/ d = half[c] \/ \E g \in todo[c] : g.to = d
              /\ done[c] \subseteq to
              /\ \A g \in todo[c] : g.to \in to \ done[c] /\ g.line = DefaultRoom
          BY <2>2, <3>4 DEF BroadcastInv
        <4>2. f.to # NoConn /\ f.to \in to \ done[c]
          BY <4>1, FrameFacts
        <4> HIDE DEF to
        <4>3. \A d \in to \ dead :
                d \in done[c] \/ d = f.to \/ \E g \in todo'[c] : g.to = d
          <5>1. \A d \in to \ dead : d # NoConn
            BY DEF to, Recipients
          <5> QED
            BY <3>1, <4>1, <5>1
        <4>4. \A g \in todo'[c] : /\ g.to \in to \ done[c] /\ g.to # f.to
                                 /\ g.line = DefaultRoom
          BY <3>1, <3>2, <4>1
        <4> QED
          BY <2>2, <3>1, <3>3, <4>1, <4>2, <4>3, <4>4 DEF BroadcastInv, to
      <3> QED
        BY <2>2, <3>1, <3>4 DEF BroadcastInv
    <2> QED
      BY <2>1, <2>2
  <1>5. ASSUME NEW c \in Conns, NEW f \in todo[c], HeaderFails(c, f)
        PROVE  BroadcastInv'
    <2>1. CASE mu # c
      BY <1>0, <1>5, <2>1, BroadcastFrame DEF HeaderFails
    <2>2. CASE mu = c
      <3>1. /\ todo'[c] = todo[c] \ {f} /\ f.to \in dead
            /\ UNCHANGED <<vars, mu, call, half, done, dead>>
        BY <1>5 DEF HeaderFails
      <3>2. Recipients(call[c].room)' = Recipients(call[c].room) /\ rooms' = rooms
        BY <3>1 DEF Recipients, vars
      <3> QED
        BY <2>2, <3>1, <3>2 DEF BroadcastInv
    <2> QED
      BY <2>1, <2>2
  <1>6. ASSUME NEW c \in Conns, WriteBody(c)
        PROVE  BroadcastInv'
    <2>1. CASE mu # c
      <3>1. /\ UNCHANGED <<mu, call, todo, dead>>
            /\ \A d \in Conns \ {c} : half'[d] = half[d] /\ done'[d] = done[d]
        BY <1>6 DEF WriteBody
      <3> QED
        BY <1>0, <2>1, <3>1, BroadcastFrame
    <2>2. CASE mu = c /\ call[c].kind = "BroadcastRoom"
      <3>1. call[c].text \in Messages
        BY <2>2 DEF CallInv
      <3>2. /\ half'[c] = NoConn /\ done'[c] = done[c] \cup {half[c]} /\ half[c] # NoConn
            /\ UNCHANGED <<vars, mu, call, todo, dead>>
        BY <1>6, <3>1 DEF WriteBody
      <3>3. Recipients(call[c].room)' = Recipients(call[c].room) /\ rooms' = rooms
        BY <3>2 DEF Recipients, vars
      <3>4. \A f \in todo[c] : f.to # NoConn
        BY DEF Frames
      <3> QED
        BY <2>2, <3>2, <3>3, <3>4 DEF BroadcastInv
    <2>3. CASE mu = c /\ call[c].kind # "BroadcastRoom"
      BY <1>6, <2>3 DEF WriteBody, BroadcastInv
    <2> QED
      BY <2>1, <2>2, <2>3
  <1>7. ASSUME NEW c \in Conns, BodyFails(c)
        PROVE  BroadcastInv'
    <2>1. CASE mu # c
      BY <1>0, <1>7, <2>1, BroadcastFrame DEF BodyFails
    <2>2. CASE mu = c
      <3>1. /\ half'[c] = NoConn /\ half[c] \in dead
            /\ UNCHANGED <<vars, mu, call, todo, done, dead>>
        BY <1>7 DEF BodyFails
      <3>2. Recipients(call[c].room)' = Recipients(call[c].room) /\ rooms' = rooms
        BY <3>1 DEF Recipients, vars
      <3>3. \A f \in todo[c] : f.to # NoConn
        BY DEF Frames
      <3> QED
        BY <2>2, <3>1, <3>2, <3>3 DEF BroadcastInv
    <2> QED
      BY <2>1, <2>2
  <1>8. ASSUME NEW c \in Conns, Finish(c)
        PROVE  BroadcastInv'
    <2>1. CASE mu # c
      BY <1>0, <1>8, <2>1, BroadcastFrame DEF Finish
    <2>2. CASE mu = c
      BY <1>8, <2>2 DEF Finish, BroadcastInv
    <2> QED
      BY <2>1, <2>2
  <1>9. ASSUME NEW c \in Conns, Stall(c) \/ Expire(c)
        PROVE  BroadcastInv'
    BY <1>0, <1>9, BroadcastFrame DEF Stall, Expire, handlerVars
  <1>10. CASE UNCHANGED deliveryVars
    BY <1>0, <1>10, BroadcastFrame DEF deliveryVars, handlerVars
  <1> QED
    BY <1>1, <1>2, <1>3, <1>4, <1>5, <1>6, <1>7, <1>8, <1>9, <1>10
       DEF DeliveryNext, Acquire, Advance
------------------------------------------------------------------------------
\* What a whole frame does to a connection's messages.
LEMMA Received ==
    ASSUME DInv, NEW c \in Conns, WriteBody(c), call[c].text \in Messages,
           NEW x, x = half[c]
    PROVE  /\ x \in Conns /\ mu = c /\ x \notin done[c]
           /\ Len(received[x]) \in Nat
           /\ Len(received'[x]) = Len(received[x]) + 1
           /\ received'[x][Len(received[x]) + 1] = call[c].text
           /\ \A i \in 1 .. Len(received[x]) : received'[x][i] = received[x][i]
           /\ received'[x] # <<>>
           /\ \A d \in Conns \ {x} : received'[d] = received[d]
           /\ done'[c] = done[c] \cup {x}
           /\ \A d \in Conns \ {c} : done'[d] = done[d]
           /\ UNCHANGED <<mu, call, unsent>>
  <1>1. x \in Conns /\ mu = c /\ x \notin done[c]
    BY Writer DEF WriteBody
  <1>2. received[x] \in Seq(Messages) /\ call[c].text \in Messages
    BY <1>1 DEF DInv, DeliveryTypeOK
  <1>3. received' = [received EXCEPT ![x] = Append(received[x], call[c].text)]
    BY DEF WriteBody
  <1>4. /\ received'[x] = Append(received[x], call[c].text)
        /\ \A d \in Conns \ {x} : received'[d] = received[d]
    BY <1>1, <1>3 DEF DInv, DeliveryTypeOK
  <1>5. /\ done'[c] = done[c] \cup {x}
        /\ \A d \in Conns \ {c} : done'[d] = done[d]
        /\ UNCHANGED <<mu, call, unsent>>
    BY DEF WriteBody, DInv, DeliveryTypeOK
  <1> QED
    BY <1>1, <1>2, <1>4, <1>5

\* Nothing is received, and no more is said than was unsent.
LEMMA OrderFrame ==
    ASSUME OrderInv, UNCHANGED received, unsent' \subseteq unsent,
           \A c, d \in Conns : \A i \in 1 .. Len(received[d]) :
             received[d][i] = call'[c].text =>
                 mu' = c /\ d \in done'[c] /\ i = Len(received[d])
    PROVE  OrderInv'
  BY DEF OrderInv, SameOrder

LEMMA OrderStep ==
    ASSUME DInv, [DeliveryNext]_deliveryVars
    PROVE  OrderInv'
  <1> USE MessagesAssumption
  <1>0. /\ \A d \in Conns : \A i \in 1 .. Len(received[d]) :
             received[d][i] # NoMessage /\ received[d][i] \notin unsent
        /\ \A c, d \in Conns : \A i \in 1 .. Len(received[d]) :
             received[d][i] = call[c].text =>
                 mu = c /\ d \in done[c] /\ i = Len(received[d])
        /\ OrderInv
    BY DEF DInv, DeliveryTypeOK, OrderInv
  <1>1. ASSUME NEW c \in Conns, NEW k \in Commands \cup {Joining(DefaultRoom), Replying, Disconnecting},
               Begin(c, k), pc[c] \in {"new", "loop"}
        PROVE  OrderInv'
    <2>1. k.text = NoMessage \/ k.text \in unsent
      BY DEF Commands, Replying, Disconnecting, Joining, Leaving, Printing, Saying, Call
    <2>2. /\ UNCHANGED <<received, mu, done>> /\ unsent' \subseteq unsent
          /\ call'[c] = k /\ \A d \in Conns \ {c} : call'[d] = call[d]
      BY <1>1 DEF Begin, DInv, DeliveryTypeOK
    <2> QED
      BY <1>0, <2>1, <2>2, OrderFrame
  <1>2. ASSUME NEW c \in Conns,
               Enter(c) \/ (\E k \in Commands : Read(c, k)) \/ Reply(c) \/ ReadError(c)
        PROVE  OrderInv'
    BY <1>1, <1>2 DEF Enter, Read, Reply, ReadError
  <1>3. ASSUME NEW c \in Conns, mu # c,
               UNCHANGED <<received, mu, done, unsent>>,
               call' = [call EXCEPT ![c] = Replying]
        PROVE  OrderInv'
    <2>1. call'[c].text = NoMessage /\ \A d \in Conns \ {c} : call'[d] = call[d]
      BY <1>3 DEF Replying, Call, DInv, DeliveryTypeOK
    <2> QED
      BY <1>0, <1>3, <2>1, OrderFrame
  <1>4. ASSUME NEW c \in Conns, DoJoin(c) \/ DoLeave(c) \/ DoDisconnect(c) \/ Refuse(c)
        PROVE  OrderInv'
    <2>1. mu = NoConn /\ UNCHANGED <<received, mu, done, unsent>>
          /\ call' = [call EXCEPT ![c] = Replying]
      BY <1>4 DEF DoJoin, DoLeave, DoDisconnect, Refuse, Enters, Returns
    <2> QED
      BY <1>3, <2>1, NoConnAssumption
  <1>5. ASSUME NEW c \in Conns, Lock(c)
        PROVE  OrderInv'
    BY <1>0, <1>5, OrderFrame, NoConnAssumption DEF Lock, Enters
  <1>6. ASSUME UNCHANGED <<received, mu, done, unsent, call>>
        PROVE  OrderInv'
    BY <1>0, <1>6, OrderFrame
  <1>7. ASSUME NEW c \in Conns,
               \/ \E f \in todo[c] : WriteHeader(c, f) \/ HeaderFails(c, f)
               \/ BodyFails(c) \/ Stall(c) \/ Expire(c)
        PROVE  OrderInv'
    BY <1>6, <1>7 DEF WriteHeader, HeaderFails, BodyFails, Stall, Expire, handlerVars
  <1>8. ASSUME NEW c \in Conns, WriteBody(c)
        PROVE  OrderInv'
    <2>1. CASE call[c].text \notin Messages
      BY <1>6, <1>8, <2>1 DEF WriteBody
    <2>2. CASE call[c].text \in Messages
      <3> DEFINE m == call[c].text
                 x == half[c]
                 n == Len(received[x])
      <3>1. /\ x \in Conns /\ mu = c /\ x \notin done[c] /\ n \in Nat
            /\ Len(received'[x]) = n + 1 /\ received'[x][n + 1] = m
            /\ \A i \in 1 .. n : received'[x][i] = received[x][i]
            /\ \A d \in Conns \ {x} : received'[d] = received[d]
            /\ done'[c] = done[c] \cup {x}
            /\ \A d \in Conns \ {c} : done'[d] = done[d]
            /\ UNCHANGED <<mu, call, unsent>>
        BY <1>8, <2>2, Received
      <3>2. m \notin unsent /\ \A e \in Conns \ {c} : call[e].text # m
        BY <2>2 DEF DInv, CallInv
      <3>3. /\ \A i \in 1 .. n : received[x][i] # m
            /\ \A d \in Conns : \A i \in 1 .. Len(received[d]) :
                 received[d][i] = m => i = Len(received[d])
        BY <1>0, <3>1
      <3> HIDE DEF m, x, n
      <3>4. \A i \in 1 .. n + 1 : i \in 1 .. n \/ i = n + 1
        BY <3>1
      <3>5. ASSUME NEW d \in Conns, NEW i \in 1 .. Len(received'[d])
            PROVE  received'[d][i] \notin unsent'
        <4>1. CASE d # x
          BY <1>0, <3>1, <3>5, <4>1
        <4>2. CASE d = x
          BY <1>0, <3>1, <3>2, <3>4, <3>5, <4>2 DEF x, n
        <4> QED
          BY <4>1, <4>2
      <3>6. ASSUME NEW e \in Conns, NEW d \in Conns, NEW i \in 1 .. Len(received'[d]),
                   received'[d][i] = call'[e].text
            PROVE  mu' = e /\ d \in done'[e] /\ i = Len(received'[d])
        <4>1. CASE d # x
          BY <1>0, <3>1, <3>6, <4>1
        <4>2. CASE d = x /\ i \in 1 .. n
          <5>1. received[x][i] = call[e].text
            BY <3>1, <3>6, <4>2
          <5>2. mu = e /\ x \in done[e]
            BY <1>0, <3>1, <4>2, <5>1 DEF n
          <5> QED
            BY <3>1, <5>2
        <4>3. CASE d = x /\ i = n + 1
          <5>1. e = c
            BY <3>1, <3>2, <3>6, <4>3
          <5> QED
            BY <3>1, <4>3, <5>1
        <4> QED
          BY <3>1, <3>4, <4>1, <4>2, <4>3
      <3>7. ASSUME NEW d \in Conns, NEW i \in 1 .. Len(received'[d]),
                   NEW j \in 1 .. Len(received'[d]), i # j
            PROVE  received'[d][i] # received'[d][j]
        <4>1. CASE d # x
          BY <1>0, <3>1, <3>7, <4>1 DEF OrderInv
        <4>2. CASE d = x
          <5>1. \A k, l \in 1 .. n : k # l => received[x][k] # received[x][l]
            BY <1>0, <3>1 DEF OrderInv, n
          <5> QED
            BY <3>1, <3>3, <3>4, <3>7, <4>2, <5>1
        <4> QED
          BY <4>1, <4>2
      <3>8. ASSUME NEW a \in Conns, NEW b \in Conns,
                   NEW i \in 1 .. Len(received'[a]), NEW j \in 1 .. Len(received'[a]),
                   NEW k \in 1 .. Len(received'[b]), NEW l \in 1 .. Len(received'[b]),
                   i < j, received'[a][i] = received'[b][k],
                   received'[a][j] = received'[b][l]
            PROVE  k < l
        <4>1. \A d \in Conns : Len(received[d]) \in Nat /\ Len(received'[d]) \in Nat
          BY <3>1 DEF DInv, DeliveryTypeOK
        <4>2. \A d \in Conns : \A p \in 1 .. Len(received'[d]) :
                /\ received'[d][p] = m => p = Len(received'[d])
                /\ received'[d][p] # m =>
                     p \in 1 .. Len(received[d]) /\ received'[d][p] = received[d][p]
          <5> SUFFICES ASSUME NEW d \in Conns, NEW p \in 1 .. Len(received'[d])
                       PROVE  /\ received'[d][p] = m => p = Len(received'[d])
                              /\ received'[d][p] # m =>
                                   /\ p \in 1 .. Len(received[d])
                                   /\ received'[d][p] = received[d][p]
            OBVIOUS
          <5>1. CASE d # x
            BY <3>1, <3>3, <5>1
          <5>2. CASE d = x
            BY <3>1, <3>3, <3>4, <5>2 DEF n
          <5> QED
            BY <5>1, <5>2
        <4>3. received'[a][i] # m
          BY <3>8, <4>1, <4>2
        <4>4. k # Len(received'[b]) \/ received'[b][k] # m
          BY <3>8, <4>3
        <4>5. CASE received'[a][j] = m
          <5>1. l = Len(received'[b]) /\ k # l
            BY <3>8, <4>2, <4>3, <4>5
          <5> QED
            BY <4>1, <5>1
        <4>6. CASE received'[a][j] # m
          <5>1. /\ i \in 1 .. Len(received[a]) /\ j \in 1 .. Len(received[a])
                /\ k \in 1 .. Len(received[b]) /\ l \in 1 .. Len(received[b])
                /\ received[a][i] = received[b][k] /\ received[a][j] = received[b][l]
            BY <3>8, <4>2, <4>3, <4>6
          <5> QED
            BY <1>0, <3>8, <5>1 DEF OrderInv, SameOrder
        <4> QED
          BY <4>5, <4>6
      <3>9. SameOrder'
        BY <3>8 DEF SameOrder
      <3> QED
        BY <3>5, <3>6, <3>7, <3>9 DEF OrderInv
    <2> QED
      BY <2>1, <2>2
  <1>9. ASSUME NEW c \in Conns, Finish(c)
        PROVE  OrderInv'
    <2>1. /\ UNCHANGED <<received, unsent>>
          /\ call'[c].text = NoMessage
          /\ \A d \in Conns \ {c} : call'[d] = call[d] /\ done'[d] = done[d]
          /\ mu # c => mu' = mu
      BY <1>9 DEF Finish, Replying, Call, DInv, DeliveryTypeOK
    <2> QED
      BY <1>0, <2>1, OrderFrame
  <1>10. CASE UNCHANGED deliveryVars
    BY <1>6, <1>10 DEF deliveryVars, handlerVars
  <1> QED
    BY <1>2, <1>4, <1>5, <1>7, <1>8, <1>9, <1>10 DEF DeliveryNext, Acquire, Advance

LEMMA DoneStep ==
    ASSUME DInv, [DeliveryNext]_deliveryVars
    PROVE  DoneInv'
  <1>0. /\ DoneInv /\ \A c \in Conns : mu # c => done[c] = {}
        /\ mu # NoConn => pc[mu] = "write"
    BY DEF DInv, LockInv
  <1>1. ASSUME NEW c \in Conns, done[c] = {}, UNCHANGED <<received, done>>,
               \A d \in Conns \ {c} : call'[d] = call[d]
        PROVE  DoneInv'
    BY <1>0, <1>1 DEF DoneInv
  <1>2. ASSUME NEW c \in Conns,
               Enter(c) \/ (\E k \in Commands : Read(c, k)) \/ Reply(c) \/ ReadError(c)
        PROVE  DoneInv'
    <2>1. pc[c] # "write" /\ UNCHANGED <<received, done>>
          /\ \A d \in Conns \ {c} : call'[d] = call[d]
      BY <1>2 DEF Enter, Read, Reply, ReadError, Begin, DInv, DeliveryTypeOK
    <2> QED
      BY <1>0, <1>1, <2>1, NoConnAssumption
  <1>3. ASSUME NEW c \in Conns, DoJoin(c) \/ DoLeave(c) \/ DoDisconnect(c) \/ Refuse(c)
        PROVE  DoneInv'
    <2>1. mu = NoConn /\ UNCHANGED <<received, done>>
          /\ \A d \in Conns \ {c} : call'[d] = call[d]
      BY <1>3 DEF DoJoin, DoLeave, DoDisconnect, Refuse, Enters, Returns, DInv,
                  DeliveryTypeOK
    <2> QED
      BY <1>0, <1>1, <2>1, NoConnAssumption
  <1>4. ASSUME UNCHANGED <<received, done, call>>
        PROVE  DoneInv'
    BY <1>0, <1>4 DEF DoneInv
  <1>5. ASSUME NEW c \in Conns,
               \/ Lock(c) \/ BodyFails(c) \/ Stall(c) \/ Expire(c)
               \/ \E f \in todo[c] : WriteHeader(c, f) \/ HeaderFails(c, f)
        PROVE  DoneInv'
    BY <1>4, <1>5 DEF Lock, WriteHeader, HeaderFails, BodyFails, Stall, Expire,
                      handlerVars
  <1>6. ASSUME NEW c \in Conns, WriteBody(c)
        PROVE  DoneInv'
    <2>1. CASE call[c].text \notin Messages
      BY <1>4, <1>6, <2>1 DEF WriteBody
    <2>2. CASE call[c].text \in Messages
      <3> DEFINE x == half[c]
      <3>1. /\ x \in Conns /\ mu = c /\ x \notin done[c] /\ Len(received[x]) \in Nat
            /\ Len(received'[x]) = Len(received[x]) + 1
            /\ received'[x][Len(received[x]) + 1] = call[c].text
            /\ received'[x] # <<>>
            /\ \A d \in Conns \ {x} : received'[d] = received[d]
            /\ done'[c] = done[c] \cup {x}
            /\ \A d \in Conns \ {c} : done'[d] = done[d]
            /\ UNCHANGED call
        BY <1>6, <2>2, Received
      <3> HIDE DEF x
      <3>2. \A d \in done[c] : d \in Conns
        BY DEF DInv, DeliveryTypeOK
      <3> QED
        BY <1>0, <3>1, <3>2 DEF DoneInv
    <2> QED
      BY <2>1, <2>2
  <1>7. ASSUME NEW c \in Conns, Finish(c)
        PROVE  DoneInv'
    <2>1. /\ UNCHANGED received /\ done'[c] = {}
          /\ \A d \in Conns \ {c} : call'[d] = call[d] /\ done'[d] = done[d]
      BY <1>7 DEF Finish, DInv, DeliveryTypeOK
    <2> QED
      BY <1>0, <2>1 DEF DoneInv
  <1>8. CASE UNCHANGED deliveryVars
    BY <1>4, <1>8 DEF deliveryVars, handlerVars
  <1> QED
    BY <1>2, <1>3, <1>5, <1>6, <1>7, <1>8 DEF DeliveryNext, Acquire, Advance
------------------------------------------------------------------------------
LEMMA DeliveryNextInv == DInv /\ [DeliveryNext]_deliveryVars => DInv'
  <1> SUFFICES ASSUME DInv, [DeliveryNext]_deliveryVars
               PROVE  DInv'
    OBVIOUS
  <1>1. TypeOK' /\ NoGhostRooms' /\ MembersAreRoutable'
    BY TablesStep DEF DInv
  <1>2. DeliveryTypeOK'
    BY <1>1, TypeStep DEF DInv
  <1>3. CallInv' /\ LockInv' /\ BroadcastInv' /\ OrderInv' /\ DoneInv'
    BY CallStep, LockStep, BroadcastStep, OrderStep, DoneStep
  <1> QED
    BY <1>1, <1>2, <1>3 DEF DInv

LEMMA DeliveryInv == DeliverySpec => []DInv
  BY DeliveryInitInv, DeliveryNextInv, PTL DEF DeliverySpec

\* The variables keep their types: a handler writes to connections only, and
\* connections receive nothing but messages.
THEOREM DeliveryTypes == DeliverySpec => []DeliveryTypeOK
  <1>1. DInv => DeliveryTypeOK
    BY DEF DInv
  <1> QED
    BY <1>1, DeliveryInv, PTL

\* No two connections see two messages in different orders: the mutex is held
\* across all writes of a broadcast (messaging.go:148).
THEOREM OneOrder == DeliverySpec => []SameOrder
  <1>1. DInv => SameOrder
    BY DEF DInv, OrderInv
  <1> QED
    BY <1>1, DeliveryInv, PTL

\* The router never tears the router's frames: of two writers in the middle of
\* a frame to one connection, one is that connection's handler, which replies
\* without the mutex.
THEOREM TornByRepliesOnly == DeliverySpec => []TornOnlyByOwnReply
  <1>1. DInv => TornOnlyByOwnReply
    BY DEF DInv, LockInv, TornOnlyByOwnReply
  <1> QED
    BY <1>1, DeliveryInv, PTL

\* While calls block on slow clients and clients break, the router never keeps
\* a room nobody is in.
THEOREM NoGhostsWhileWriting == DeliverySpec => []NoGhostRooms
  <1>1. DInv => NoGhostRooms
    BY DEF DInv
  <1> QED
    BY <1>1, DeliveryInv, PTL

\* Nor a member it has no connection for.
THEOREM RoutableWhileWriting == DeliverySpec => []MembersAreRoutable
  <1>1. DInv => MembersAreRoutable
    BY DEF DInv
  <1> QED
    BY <1>1, DeliveryInv, PTL
------------------------------------------------------------------------------
(***************************************************************************)
(* Why calls return.                                                       *)
(***************************************************************************)

\* Whoever has the mutex is past waiting for it: no handler waits for another
\* one that waits.
HolderIsWriting == mu # NoConn => pc[mu] = "write"

\* c has one part of a frame, or one frame, less to write, or is through.
Nearer(c) ==
    \/ pc'[c] = "loop"
    \/ half[c] # NoConn /\ half'[c] = NoConn /\ todo'[c] = todo[c]
    \/ \E f \in todo[c] : todo'[c] = todo[c] \ {f}

\* A call that writes gets nearer to its end by each step of its own, and no
\* other handler adds to what it has to write: with a deadline for each client
\* this is why CallsReturn holds.
WritesDescend ==
    [][\A c \in Conns : pc[c] = "write" =>
        /\ Advance(c) => Nearer(c)
        /\ \/ Nearer(c)
           \/ pc'[c] = "write" /\ todo'[c] = todo[c] /\ half'[c] = half[c]]_deliveryVars

LEMMA AdvanceDescends ==
    ASSUME DInv, NEW c \in Conns, Advance(c)
    PROVE  /\ pc[c] = "write" => Nearer(c)
           /\ \A d \in Conns \ {c} :
                pc'[d] = pc[d] /\ todo'[d] = todo[d] /\ half'[d] = half[d]
  <1> USE NoConnAssumption DEF DInv, DeliveryTypeOK, LockInv, Nearer
  <1>1. CASE Enter(c) \/ ReadError(c)
    BY <1>1 DEF Enter, ReadError, Begin
  <1>2. ASSUME NEW f \in todo[c], WriteHeader(c, f)
        PROVE  /\ Nearer(c)
               /\ \A d \in Conns \ {c} :
                    pc'[d] = pc[d] /\ todo'[d] = todo[d] /\ half'[d] = half[d]
    BY <1>2 DEF WriteHeader
  <1>3. ASSUME NEW f \in todo[c], HeaderFails(c, f)
        PROVE  /\ Nearer(c)
               /\ \A d \in Conns \ {c} :
                    pc'[d] = pc[d] /\ todo'[d] = todo[d] /\ half'[d] = half[d]
    BY <1>3 DEF HeaderFails
  <1>4. CASE WriteBody(c)
    BY <1>4 DEF WriteBody
  <1>5. CASE BodyFails(c)
    BY <1>5 DEF BodyFails
  <1>6. CASE Finish(c)
    BY <1>6 DEF Finish
  <1> QED
    BY <1>1, <1>2, <1>3, <1>4, <1>5, <1>6 DEF Advance

\* The steps that begin a call, or do one that writes to nobody.
LEMMA OthersKeepWriters ==
    ASSUME DInv, NEW c \in Conns,
           \/ Acquire(c) \/ Reply(c) \/ Stall(c) \/ Expire(c)
           \/ \E k \in Commands : Read(c, k)
    PROVE  \A d \in Conns : pc[d] = "write" =>
              pc'[d] = "write" /\ todo'[d] = todo[d] /\ half'[d] = half[d]
  <1> USE DEF DInv, DeliveryTypeOK
  <1>1. CASE Lock(c) \/ Refuse(c)
    BY <1>1 DEF Lock, Refuse, Enters
  <1>2. CASE DoJoin(c) \/ DoLeave(c) \/ DoDisconnect(c)
    BY <1>2 DEF DoJoin, DoLeave, DoDisconnect, Enters, Returns
  <1>3. CASE Reply(c) \/ \E k \in Commands : Read(c, k)
    BY <1>3 DEF Reply, Read, Begin
  <1>4. CASE Stall(c) \/ Expire(c)
    BY <1>4 DEF Stall, Expire, handlerVars
  <1> QED
    BY <1>1, <1>2, <1>3, <1>4 DEF Acquire

\* What a call has to write is finite, so its descent comes to an end.
TodoIsFinite ==
    IsFiniteSet(Users) /\ IsFiniteSet(Rooms) => \A c \in Conns : IsFiniteSet(todo[c])

\* What a function takes a finite set to is finite.
LEMMA ImageFinite ==
    ASSUME NEW S, IsFiniteSet(S), NEW f, NEW T, \A y \in T : \E x \in S : f[x] = y
    PROVE  IsFiniteSet(T)
  <1> DEFINE R == {f[x] : x \in S}
             g == [x \in S |-> f[x]]
  <1>1. g \in Surjection(S, R)
    BY DEF Surjection
  <1>2. IsFiniteSet(R)
    <2> HIDE DEF R, g
    <2> QED
      BY <1>1, FS_Surjection
  <1>3. T \in SUBSET R
    OBVIOUS
  <1> HIDE DEF R, g
  <1> QED
    BY <1>2, <1>3, FS_Subset

LEMMA FramesFinite ==
    ASSUME NEW c \in Conns, TypeOK, IsFiniteSet(Users), IsFiniteSet(Rooms)
    PROVE  IsFiniteSet(FramesOf(c))
  <1>1. CASE call[c].kind = "BroadcastRoom"
    <2> DEFINE frame == [u \in Users |->
                           [to |-> members[call[c].room][u], line |-> DefaultRoom]]
    <2>1. \A f \in FramesOf(c) : \E u \in Users : frame[u] = f
      BY <1>1 DEF FramesOf, Recipients
    <2> HIDE DEF frame
    <2> QED
      BY <2>1, ImageFinite
  <1>2. CASE call[c].kind # "BroadcastRoom"
    <2> DEFINE frame == [r \in Rooms |-> [to |-> c, line |-> r]]
    <2>1. \A f \in FramesOf(c) : \E r \in Rooms : frame[r] = f
      BY <1>2, DefaultRoomAssumption DEF FramesOf, TypeOK
    <2> HIDE DEF frame
    <2> QED
      BY <2>1, ImageFinite
  <1> QED
    BY <1>1, <1>2

LEMMA FiniteStep ==
    ASSUME DInv, TodoIsFinite, [DeliveryNext]_deliveryVars
    PROVE  TodoIsFinite'
  <1> SUFFICES ASSUME IsFiniteSet(Users), IsFiniteSet(Rooms), NEW d \in Conns
               PROVE  IsFiniteSet(todo'[d])
    BY DEF TodoIsFinite
  <1> USE FS_Singleton, FS_Subset DEF DInv, DeliveryTypeOK, TodoIsFinite
  <1>1. ASSUME NEW c \in Conns, Lock(c)
        PROVE  IsFiniteSet(todo'[d])
    BY <1>1, FramesFinite DEF Lock
  <1>2. ASSUME NEW c \in Conns, Refuse(c)
        PROVE  IsFiniteSet(todo'[d])
    BY <1>2 DEF Refuse
  <1>3. ASSUME NEW c \in Conns, Reply(c)
        PROVE  IsFiniteSet(todo'[d])
    BY <1>3 DEF Reply
  <1>4. ASSUME NEW c \in Conns, NEW f \in todo[c], WriteHeader(c, f) \/ HeaderFails(c, f)
        PROVE  IsFiniteSet(todo'[d])
    <2>1. todo' = [todo EXCEPT ![c] = todo[c] \ {f}]
      BY <1>4 DEF WriteHeader, HeaderFails
    <2>2. todo'[d] \in SUBSET todo[d]
      BY <2>1
    <2> QED
      BY <2>2, FS_Subset
  <1>5. CASE UNCHANGED todo
    BY <1>5
  <1>6. ASSUME NEW c \in Conns,
               \/ DoJoin(c) \/ DoLeave(c) \/ DoDisconnect(c) \/ Enter(c) \/ ReadError(c)
               \/ \E k \in Commands : Read(c, k)
               \/ WriteBody(c) \/ BodyFails(c) \/ Finish(c) \/ Stall(c) \/ Expire(c)
        PROVE  UNCHANGED todo
    BY <1>6 DEF DoJoin, DoLeave, DoDisconnect, Returns, Enter, ReadError, Read,
       WriteBody, BodyFails, Finish, Stall, Expire, handlerVars
  <1> QED
    BY <1>1, <1>2, <1>3, <1>4, <1>5, <1>6
    DEF DeliveryNext, Acquire, Advance, deliveryVars, handlerVars

\* Nobody who has the mutex waits for it, every write gets somewhere, and there
\* are finitely many for as long as users and rooms are.
THEOREM WritesRunOut ==
    DeliverySpec => []HolderIsWriting /\ []TodoIsFinite /\ WritesDescend
  <1>1. DInv => HolderIsWriting
    BY DEF DInv, LockInv, HolderIsWriting
  <1>2. ASSUME DInv, [DeliveryNext]_deliveryVars, NEW c \in Conns, pc[c] = "write"
        PROVE  /\ Advance(c) => Nearer(c)
               /\ \/ Nearer(c)
                  \/ pc'[c] = "write" /\ todo'[c] = todo[c] /\ half'[c] = half[c]
    <2>1. Advance(c) => Nearer(c)
      BY <1>2, AdvanceDescends
    <2>2. CASE UNCHANGED deliveryVars
      BY <1>2, <2>1, <2>2 DEF deliveryVars, handlerVars
    <2> QED
      BY <1>2, <2>1, <2>2, AdvanceDescends, OthersKeepWriters DEF DeliveryNext
  <1> DEFINE Descent ==
        \A c \in Conns : pc[c] = "write" =>
            /\ Advance(c) => Nearer(c)
            /\ \/ Nearer(c)
               \/ pc'[c] = "write" /\ todo'[c] = todo[c] /\ half'[c] = half[c]
  <1>3. DInv /\ [DeliveryNext]_deliveryVars => [Descent]_deliveryVars
    <2>1. DInv /\ [DeliveryNext]_deliveryVars => Descent
      BY <1>2
    <2> QED
      BY <2>1
  <1>4. DeliveryInit => TodoIsFinite
    BY FS_EmptySet DEF DeliveryInit, TodoIsFinite
  <1> QED
    BY <1>1, <1>3, <1>4, FiniteStep, DeliveryInv, PTL DEF DeliverySpec, WritesDescend
------------------------------------------------------------------------------
(***************************************************************************)
(* Whom a handler can be blocked on.                                       *)
(***************************************************************************)

\* The handler has entered and has not yet disconnected: its connection is open
\* and has a deadline.
Running == {"loop", "call", "write"}

\* A route leads to the connection of its own user's running handler.
RoutesRun ==
    \A r \in Rooms, u \in Users : members[r][u] # NoConn =>
        Owner[members[r][u]] = u /\ pc[members[r][u]] \in Running

\* Nobody writes, or is going to write, to a connection that nobody handles
\* yet or any more: the deferred Disconnect waits for the mutex, and takes all
\* routes with it.  So a write that blocks is a write to a client whose
\* deadline has yet to come.
WritesToRunning ==
    \A c \in Conns :
        /\ todo[c] # {} => pc[c] = "write"
        /\ \A f \in todo[c] : pc[f.to] \in Running
        /\ half[c] # NoConn => pc[half[c]] \in Running

TargetsInv == RoutesRun /\ WritesToRunning

LEMMA TargetsInit == DeliveryInit => TargetsInv
  BY DEF DeliveryInit, Init, NoMembers, TargetsInv, RoutesRun, WritesToRunning

\* A step that touches no table and ends no handler.
LEMMA RoutesFrame ==
    ASSUME DInv, RoutesRun, UNCHANGED vars,
           \A d \in Conns : pc[d] \in Running => pc'[d] \in Running
    PROVE  RoutesRun'
  <1>1. \A r \in Rooms, u \in Users : members[r][u] \in Conns \cup {NoConn}
    BY DEF DInv, DeliveryTypeOK, TypeOK
  <1>2. members' = members
    BY DEF vars
  <1> QED
    BY <1>1, <1>2 DEF RoutesRun

\* A step that ends no handler, and gives none a frame to write but to one that
\* runs.
LEMMA WritesFrame ==
    ASSUME DInv, WritesToRunning,
           \A d \in Conns : pc[d] \in Running => pc'[d] \in Running,
           \A d \in Conns :
               /\ todo'[d] # {} => pc'[d] = "write"
               /\ \A f \in todo'[d] : f \in todo[d] \/ pc'[f.to] \in Running
               /\ half'[d] \in {half[d], NoConn} \/ pc'[half'[d]] \in Running
    PROVE  WritesToRunning'
  <1>1. ASSUME NEW d \in Conns, NEW f \in todo'[d]
        PROVE  pc'[f.to] \in Running
    <2>1. CASE f \in todo[d]
      <3>1. f.to \in Conns /\ pc[f.to] \in Running
        BY <2>1 DEF DInv, DeliveryTypeOK, Frames, WritesToRunning
      <3> QED
        BY <3>1
    <2>2. CASE f \notin todo[d]
      BY <1>1, <2>2
    <2> QED
      BY <2>1, <2>2
  <1>2. ASSUME NEW d \in Conns, half'[d] # NoConn
        PROVE  pc'[half'[d]] \in Running
    <2>1. CASE half'[d] = half[d]
      <3>1. half[d] \in Conns /\ pc[half[d]] \in Running
        BY <1>2, <2>1 DEF DInv, DeliveryTypeOK, WritesToRunning
      <3> QED
        BY <2>1, <3>1
    <2>2. CASE half'[d] # half[d]
      BY <1>2, <2>2
    <2> QED
      BY <2>1, <2>2
  <1> QED
    BY <1>1, <1>2 DEF WritesToRunning

\* With the mutex free, nobody has anything to write but to its own client.
LEMMA OwnWrites ==
    ASSUME DInv, WritesToRunning, mu = NoConn, NEW d \in Conns
    PROVE  /\ \A f \in todo[d] : f.to = d
           /\ half[d] \in {d, NoConn}
  <1>1. todo[d] # {} => pc[d] = "write"
    BY DEF WritesToRunning
  <1> QED
    BY <1>1, NoConnAssumption DEF DInv, LockInv

LEMMA TargetsStep ==
    ASSUME DInv, TargetsInv, [DeliveryNext]_deliveryVars
    PROVE  TargetsInv'
  <1> USE NoConnAssumption
  <1>0. pc \in [Conns -> {"new", "loop", "call", "write", "gone"}]
        /\ half \in [Conns -> Conns \cup {NoConn}] /\ todo \in [Conns -> SUBSET Frames]
    BY DEF DInv, DeliveryTypeOK
  <1>1. ASSUME NEW c \in Conns, NEW label \in Running,
               pc' = [pc EXCEPT ![c] = label]
        PROVE  \A d \in Conns : pc[d] \in Running => pc'[d] \in Running
    BY <1>0, <1>1
  <1>2. ASSUME NEW c \in Conns, pc[c] \in Running
        PROVE  \A f : f \in {[to |-> c, line |-> DefaultRoom]} => pc[f.to] \in Running
    BY <1>2
  <1>3. \A d \in Conns : todo[d] # {} => pc[d] = "write"
    BY DEF TargetsInv, WritesToRunning
  <1>4. ASSUME NEW c \in Conns,
               Enter(c) \/ (\E k \in Commands : Read(c, k)) \/ ReadError(c)
        PROVE  TargetsInv'
    <2>1. /\ pc' = [pc EXCEPT ![c] = "call"] /\ pc[c] # "write"
          /\ UNCHANGED <<vars, todo, half>>
      BY <1>4 DEF Enter, Read, ReadError, Begin
    <2>2. \A d \in Conns : pc[d] \in Running => pc'[d] \in Running
      BY <1>1, <2>1 DEF Running
    <2>3. \A d \in Conns : todo'[d] # {} => pc'[d] = "write"
      BY <1>0, <1>3, <2>1
    <2> QED
      BY <2>1, <2>2, <2>3, RoutesFrame, WritesFrame DEF TargetsInv
  <1>5. ASSUME NEW c \in Conns, pc[c] \in Running,
               pc' = [pc EXCEPT ![c] = "write"],
               NEW T, todo' = [todo EXCEPT ![c] = T],
               \A f \in T : pc[f.to] \in Running /\ f.to \in Conns,
               UNCHANGED <<vars, half>>
        PROVE  TargetsInv'
    <2>1. \A d \in Conns : pc[d] \in Running => pc'[d] \in Running
      BY <1>1, <1>5 DEF Running
    <2>2. /\ todo'[c] = T /\ \A d \in Conns \ {c} : todo'[d] = todo[d]
          /\ pc'[c] = "write" /\ \A d \in Conns \ {c} : pc'[d] = pc[d]
      BY <1>0, <1>5
    <2>3. \A d \in Conns :
              /\ todo'[d] # {} => pc'[d] = "write"
              /\ \A f \in todo'[d] : f \in todo[d] \/ pc'[f.to] \in Running
      BY <1>3, <1>5, <2>1, <2>2
    <2> QED
      BY <1>5, <2>1, <2>3, RoutesFrame, WritesFrame DEF TargetsInv
  <1>6. ASSUME NEW c \in Conns, Reply(c) \/ Refuse(c)
        PROVE  TargetsInv'
    <2> DEFINE T == {[to |-> c, line |-> DefaultRoom]}
    <2>1. /\ pc[c] \in Running /\ pc' = [pc EXCEPT ![c] = "write"]
          /\ todo' = [todo EXCEPT ![c] = T] /\ UNCHANGED <<vars, half>>
      BY <1>6 DEF Reply, Refuse, Begin, Enters, Running
    <2>2. \A f \in T : f.to = c
      OBVIOUS
    <2> HIDE DEF T
    <2> QED
      BY <1>5, <2>1, <2>2
  <1>7. ASSUME NEW c \in Conns, Lock(c)
        PROVE  TargetsInv'
    <2> DEFINE T == FramesOf(c)
    <2>1. /\ pc[c] \in Running /\ pc' = [pc EXCEPT ![c] = "write"]
          /\ todo' = [todo EXCEPT ![c] = T] /\ UNCHANGED <<vars, half>>
      BY <1>7 DEF Lock, Enters, Running
    <2>2. ASSUME NEW d \in Recipients(call[c].room)
          PROVE  d \in Conns /\ pc[d] \in Running
      <3>1. call[c].room \in Rooms
        BY DEF DInv, DeliveryTypeOK, Calls
      <3>2. PICK u \in Users : d = members[call[c].room][u] /\ d # NoConn
        BY <2>2 DEF Recipients
      <3> QED
        BY <3>1, <3>2 DEF DInv, DeliveryTypeOK, TypeOK, TargetsInv, RoutesRun
    <2>3. \A f \in T : f.to = c \/ f.to \in Recipients(call[c].room)
      BY DEF FramesOf
    <2> HIDE DEF T
    <2> QED
      BY <1>5, <2>1, <2>2, <2>3
  <1>8. ASSUME NEW c \in Conns,
               \/ \E f \in todo[c] : WriteHeader(c, f) \/ HeaderFails(c, f)
               \/ WriteBody(c) \/ BodyFails(c) \/ Stall(c) \/ Expire(c)
        PROVE  TargetsInv'
    <2>1. UNCHANGED <<vars, pc>>
      BY <1>8 DEF WriteHeader, HeaderFails, WriteBody, BodyFails, Stall, Expire,
                  handlerVars
    <2>2. \A d \in Conns : todo'[d] \subseteq todo[d]
      BY <1>0, <1>8 DEF WriteHeader, HeaderFails, WriteBody, BodyFails, Stall,
                        Expire, handlerVars
    <2>3. ASSUME NEW d \in Conns
          PROVE  half'[d] \in {half[d], NoConn} \/ pc[half'[d]] \in Running
      <3>1. ASSUME NEW f \in todo[c], WriteHeader(c, f)
            PROVE  half'[d] = half[d] \/ pc[half'[d]] \in Running
        <4>1. pc[f.to] \in Running
          BY <3>1 DEF TargetsInv, WritesToRunning
        <4> QED
          BY <1>0, <3>1, <4>1 DEF WriteHeader
      <3>2. ASSUME NEW f \in todo[c], HeaderFails(c, f)
            PROVE  half'[d] = half[d]
        BY <3>2 DEF HeaderFails
      <3>3. CASE WriteBody(c) \/ BodyFails(c)
        BY <1>0, <3>3 DEF WriteBody, BodyFails
      <3>4. CASE Stall(c) \/ Expire(c)
        BY <3>4 DEF Stall, Expire, handlerVars
      <3> QED
        BY <1>8, <3>1, <3>2, <3>3, <3>4
    <2>4. \A d \in Conns : todo'[d] # {} => pc'[d] = "write"
      BY <1>3, <2>1, <2>2
    <2> QED
      BY <2>1, <2>2, <2>3, <2>4, RoutesFrame, WritesFrame DEF TargetsInv
  <1>9. ASSUME NEW c \in Conns, Finish(c)
        PROVE  TargetsInv'
    <2>1. /\ pc' = [pc EXCEPT ![c] = "loop"] /\ todo[c] = {}
          /\ UNCHANGED <<vars, todo, half>>
      BY <1>9 DEF Finish
    <2>2. \A d \in Conns : pc[d] \in Running => pc'[d] \in Running
      BY <1>1, <2>1 DEF Running
    <2>3. \A d \in Conns : todo'[d] # {} => pc'[d] = "write"
      BY <1>0, <1>3, <2>1
    <2> QED
      BY <2>1, <2>2, <2>3, RoutesFrame, WritesFrame DEF TargetsInv
  <1>10. ASSUME NEW c \in Conns, NEW label, Returns(c, label), pc[c] = "call"
         PROVE  /\ pc'[c] = label /\ \A d \in Conns \ {c} : pc'[d] = pc[d]
                /\ UNCHANGED <<todo, half>>
                /\ \A d \in Conns : todo'[d] # {} => pc'[d] = "write"
    BY <1>0, <1>3, <1>10 DEF Returns
  <1>11. ASSUME NEW c \in Conns, DoJoin(c) \/ DoLeave(c)
         PROVE  TargetsInv'
    <2>1. Returns(c, "loop") /\ pc[c] = "call"
      BY <1>11 DEF DoJoin, DoLeave, Enters
    <2>2. /\ pc'[c] = "loop" /\ \A d \in Conns \ {c} : pc'[d] = pc[d]
          /\ UNCHANGED <<todo, half>>
          /\ \A d \in Conns : todo'[d] # {} => pc'[d] = "write"
      BY <1>10, <2>1
    <2>3. \A d \in Conns : pc[d] \in Running => pc'[d] \in Running
      BY <2>2 DEF Running
    <2>4. WritesToRunning'
      BY <2>2, <2>3, WritesFrame DEF TargetsInv
    <2>5. ASSUME NEW r \in Rooms, NEW u \in Users
          PROVE  \/ members'[r][u] \in {members[r][u], NoConn}
                 \/ members'[r][u] = c /\ Owner[c] = u
      <3>1. members \in [Rooms -> [Users -> Conns \cup {NoConn}]]
        BY DEF DInv, DeliveryTypeOK, TypeOK
      <3>2. CASE DoJoin(c)
        BY <3>1, <3>2 DEF DoJoin, JoinRoom, JoinRoomFails, vars
      <3>3. CASE DoLeave(c)
        BY <3>1, <3>3 DEF DoLeave, LeaveRoom, vars
      <3> QED
        BY <1>11, <3>2, <3>3
    <2>6. \A r \in Rooms, u \in Users : members[r][u] \in Conns \cup {NoConn}
      BY DEF DInv, DeliveryTypeOK, TypeOK
    <2>7. RoutesRun'
      BY <2>2, <2>3, <2>5, <2>6 DEF TargetsInv, RoutesRun, Running
    <2> QED
      BY <2>4, <2>7 DEF TargetsInv
  <1>12. ASSUME NEW c \in Conns, DoDisconnect(c)
         PROVE  TargetsInv'
    <2>1. Returns(c, "gone") /\ pc[c] = "call" /\ mu = NoConn
      BY <1>12 DEF DoDisconnect, Enters
    <2>2. /\ \A d \in Conns \ {c} : pc'[d] = pc[d]
          /\ UNCHANGED <<todo, half>>
          /\ \A d \in Conns : todo'[d] # {} => pc'[d] = "write"
      BY <1>10, <2>1
    <2>3. \A d \in Conns : todo[d] # {} => d # c
      BY <1>3, <2>1
    <2>4. \A d \in Conns : half[d] # NoConn => d # c
      BY <2>1 DEF DInv, LockInv
    <2>5. ASSUME NEW d \in Conns
          PROVE  /\ \A f \in todo'[d] : pc'[f.to] \in Running
                 /\ half'[d] # NoConn => pc'[half'[d]] \in Running
      <3>1. (\A f \in todo[d] : f.to = d) /\ half[d] \in {d, NoConn}
        BY <2>1, OwnWrites DEF TargetsInv
      <3>2. /\ todo[d] # {} => pc[d] \in Running
            /\ half[d] # NoConn => pc[d] \in Running
        BY <3>1 DEF TargetsInv, WritesToRunning
      <3> QED
        BY <2>2, <2>3, <2>4, <3>1, <3>2
    <2>6. WritesToRunning'
      BY <2>2, <2>5 DEF WritesToRunning
    <2>7. ASSUME NEW r \in Rooms, NEW u \in Users
          PROVE  members'[r][u] = IF u = Owner[c] THEN NoConn ELSE members[r][u]
      BY <1>12 DEF DoDisconnect, Disconnect, DInv, DeliveryTypeOK, TypeOK
    <2>8. ASSUME NEW r \in Rooms, NEW u \in Users, members'[r][u] # NoConn
          PROVE  Owner[members'[r][u]] = u /\ pc'[members'[r][u]] \in Running
      <3>1. u # Owner[c] /\ members'[r][u] = members[r][u]
        BY <2>7, <2>8
      <3>2. Owner[members[r][u]] = u /\ pc[members[r][u]] \in Running
        BY <2>8, <3>1 DEF TargetsInv, RoutesRun
      <3>3. members[r][u] \in Conns \ {c}
        BY <2>8, <3>1, <3>2 DEF DInv, DeliveryTypeOK, TypeOK
      <3> QED
        BY <2>2, <3>1, <3>2, <3>3
    <2> QED
      BY <2>6, <2>8 DEF TargetsInv, RoutesRun
  <1>13. CASE UNCHANGED deliveryVars
    <2>1. UNCHANGED <<vars, pc, todo, half>>
      BY <1>13 DEF deliveryVars, handlerVars
    <2> QED
      BY <1>3, <2>1, RoutesFrame, WritesFrame DEF TargetsInv
  <1> QED
    BY <1>4, <1>6, <1>7, <1>8, <1>9, <1>11, <1>12, <1>13
       DEF DeliveryNext, Acquire, Advance

\* Whoever the router writes to has a handler that still runs, up to the end of
\* the write: Disconnect (messaging.go:121) takes the mutex that BroadcastRoom
\* holds while it writes.
THEOREM BlocksOnRunningOnly == DeliverySpec => []WritesToRunning
  <1>1. TargetsInv => WritesToRunning
    BY DEF TargetsInv
  <1> QED
    BY <1>1, TargetsInit, TargetsStep, DeliveryInv, PTL DEF DeliverySpec

\* mr.rooms leads to running handlers of the users themselves.
THEOREM RoutesLeadToHandlers == DeliverySpec => []RoutesRun
  <1>1. TargetsInv => RoutesRun
    BY DEF TargetsInv
  <1> QED
    BY <1>1, TargetsInit, TargetsStep, DeliveryInv, PTL DEF DeliverySpec
------------------------------------------------------------------------------
(***************************************************************************)
(* What is delivered.                                                      *)
(***************************************************************************)

\* A connection gets a message only from the BroadcastRoom that has the mutex,
\* as a member of its room, at the end of what it has, and never twice.
OnlyMembersReceive ==
    [][\A d \in Conns : received'[d] # received[d] =>
        /\ mu # NoConn /\ call[mu].kind = "BroadcastRoom"
        /\ d \in Recipients(call[mu].room)
        /\ received'[d] = Append(received[d], call[mu].text)
        /\ \A i \in 1 .. Len(received[d]) : received[d][i] # call[mu].text]_deliveryVars

\* BroadcastRoom (messaging.go:142) delivers to the members of its room and to
\* nobody else, each message once.
THEOREM DeliversToMembersOnly == DeliverySpec => OnlyMembersReceive
  <1> DEFINE Member(d) ==
        /\ mu # NoConn /\ call[mu].kind = "BroadcastRoom"
        /\ d \in Recipients(call[mu].room)
        /\ received'[d] = Append(received[d], call[mu].text)
        /\ \A i \in 1 .. Len(received[d]) : received[d][i] # call[mu].text
  <1>1. ASSUME DInv, NEW c \in Conns, WriteBody(c), NEW d \in Conns,
               received'[d] # received[d]
        PROVE  Member(d)
    <2>1. call[c].text \in Messages /\ half[c] # NoConn
      BY <1>1 DEF WriteBody
    <2>2. /\ mu = c /\ call[c].kind = "BroadcastRoom" /\ half[c] \in Conns
          /\ half[c] \notin done[c]
      BY <1>1, <2>1, Writer
    <2>3. received' = [received EXCEPT ![half[c]] = Append(received[half[c]], call[c].text)]
      BY <1>1, <2>1 DEF WriteBody
    <2>4. d = half[c] /\ received'[d] = Append(received[d], call[c].text)
      BY <1>1, <2>2, <2>3 DEF DInv, DeliveryTypeOK
    <2>5. d \in Recipients(call[mu].room)
      BY <1>1, <2>1, <2>2, <2>4, NoConnAssumption DEF DInv, BroadcastInv
    <2>6. \A i \in 1 .. Len(received[d]) : received[d][i] # call[c].text
      BY <1>1, <2>2, <2>4 DEF DInv, OrderInv
    <2> QED
      BY <1>1, <2>2, <2>4, <2>5, <2>6, NoConnAssumption
  <1>2. ASSUME DInv, [DeliveryNext]_deliveryVars, NEW d \in Conns,
               received'[d] # received[d]
        PROVE  Member(d)
    <2>1. ASSUME NEW c \in Conns,
                 \/ Acquire(c) \/ Reply(c) \/ Stall(c) \/ Expire(c)
                 \/ \E k \in Commands : Read(c, k)
          PROVE  UNCHANGED received
      BY <2>1 DEF Acquire, DoJoin, DoLeave, DoDisconnect, Returns, Lock, Refuse,
         Read, Reply, Begin, Stall, Expire
    <2>2. ASSUME NEW c \in Conns, Advance(c)
          PROVE  UNCHANGED received \/ WriteBody(c)
      BY <2>2 DEF Advance, Enter, ReadError, Begin, WriteHeader, HeaderFails,
         BodyFails, Finish
    <2>3. CASE UNCHANGED deliveryVars
      BY <1>2, <2>3 DEF deliveryVars
    <2>4. CASE DeliveryNext
      <3>1. PICK c \in Conns :
                 \/ Acquire(c) \/ Advance(c)
                 \/ \E k \in Commands : Read(c, k)
                 \/ Reply(c) \/ Stall(c) \/ Expire(c)
        BY <2>4 DEF DeliveryNext
      <3>2. WriteBody(c)
        <4>1. received' # received
          BY <1>2
        <4> QED
          BY <2>1, <2>2, <3>1, <4>1
      <3> QED
        BY <1>1, <1>2, <3>2
    <2> QED
      BY <1>2, <2>3, <2>4
  <1>3. DInv /\ [DeliveryNext]_deliveryVars =>
          [\A d \in Conns : received'[d] # received[d] => Member(d)]_deliveryVars
    BY <1>2
  <1> QED
    BY <1>3, DeliveryInv, PTL DEF DeliverySpec, OnlyMembersReceive

\* What blocks, tears and fails is writes: as far as its tables go the router
\* is the one of MessageRouter, each method in one step.
THEOREM UsesTables == DeliverySpec => Spec
  <1>1. DInv /\ [DeliveryNext]_deliveryVars => [Next]_vars
    <2>1. DInv => DeliveryTypeOK /\ NoGhostRooms /\ MembersAreRoutable
      BY DEF DInv
    <2> QED
      BY <2>1, TablesStep
  <1>2. DeliveryInit => Init
    BY DEF DeliveryInit
  <1> QED
    BY <1>1, <1>2, DeliveryInv, PTL DEF DeliverySpec, Spec
------------------------------------------------------------------------------
(***************************************************************************)
(* The router keeps the promise of RoomBroadcast.  A broadcast counts when *)
(* its call returns: until then Inbox leaves out what it has written.      *)
(***************************************************************************)

\* The last message of a sequence, taken off and put on again.
LEMMA LastOff ==
    ASSUME NEW S, NEW s \in Seq(S), NEW m \in S
    PROVE  /\ SubSeq(Append(s, m), 1, Len(Append(s, m)) - 1) = s
           /\ s # <<>> /\ s[Len(s)] = m => Append(SubSeq(s, 1, Len(s) - 1), m) = s
  <1>1. SubSeq(Append(s, m), 1, Len(Append(s, m)) - 1) = s
    OBVIOUS
  <1>2. ASSUME s # <<>>, s[Len(s)] = m
        PROVE  Append(SubSeq(s, 1, Len(s) - 1), m) = s
    <2>1. Len(s) \in Nat /\ Len(s) > 0
      BY <1>2
    <2>2. SubSeq(s, 1, Len(s)) = SubSeq(s, 1, Len(s) - 1) \o <<s[Len(s)]>>
      BY <2>1, SubSeqRecursiveSecond
    <2>3. SubSeq(s, 1, Len(s)) = s
      BY SubSeqFull
    <2>4. SubSeq(s, 1, Len(s) - 1) \in Seq(S)
      BY <2>1, SubSeqProperties
    <2> QED
      BY <1>2, <2>2, <2>3, <2>4, AppendIsConcat
  <1> QED
    BY <1>1, <1>2

\* Whoever is not writing for the router changes nothing of Inbox.
LEMMA InboxSame ==
    ASSUME UNCHANGED <<mu, received>>, mu # NoConn => done'[mu] = done[mu]
    PROVE  Inbox' = Inbox
  BY DEF Inbox

\* A handler that turns to another call, or leaves one, answers no message
\* unless it leaves a BroadcastRoom.
LEMMA AnsweredSame ==
    ASSUME DInv, NEW c \in Conns, call[c].text \notin Messages,
           \A d \in Conns \ {c} : call'[d] = call[d],
           unsent' = unsent \ {call'[c].text},
           call'[c].text \in unsent \cup {NoMessage}
    PROVE  Answered' = Answered
  BY MessagesAssumption DEF Answered, DInv, DeliveryTypeOK

LEMMA AnsweredNow ==
    ASSUME DInv, NEW c \in Conns, call[c].text \in Messages,
           call' = [call EXCEPT ![c] = Replying], UNCHANGED unsent
    PROVE  /\ call[c].text \notin Answered
           /\ Answered' = Answered \cup {call[c].text}
  <1>1. /\ call'[c].text = NoMessage
        /\ \A d \in Conns \ {c} : call'[d] = call[d]
    BY DEF DInv, DeliveryTypeOK, Replying, Call
  <1>2. /\ call[c].text \notin unsent
        /\ \A d \in Conns \ {c} : call[d].text # call[c].text
    BY DEF DInv, CallInv
  <1> QED
    BY <1>1, <1>2, MessagesAssumption DEF Answered

\* The steps that RoomBroadcast does not see.
LEMMA Unseen ==
    ASSUME UNCHANGED <<vars, dead>>, Inbox' = Inbox, Answered' = Answered
    PROVE  UNCHANGED <<Promise!tables, Inbox, Answered, dead>>
  BY DEF Promise!tables, vars

LEMMA PromiseInit == DeliveryInit => Promise!BroadcastInit
  <1> SUFFICES ASSUME DeliveryInit PROVE Promise!BroadcastInit
    OBVIOUS
  <1>1. Inbox = [c \in Conns |-> <<>>]
    BY DEF DeliveryInit, Inbox
  <1>2. Answered = {}
    BY DEF DeliveryInit, Answered
  <1>3. dead = {} /\ Init
    BY DEF DeliveryInit
  <1>4. Promise!Init
    BY <1>3 DEF Init, Promise!Init, NoMembers, Promise!NoMembers
  <1> QED
    BY <1>1, <1>2, <1>3, <1>4 DEF Promise!BroadcastInit

LEMMA PromiseStep ==
    ASSUME DInv, [DeliveryNext]_deliveryVars
    PROVE  [Promise!BroadcastNext]_<<Promise!tables, Inbox, Answered, dead>>
  <1> DEFINE Goal == [Promise!BroadcastNext]_<<Promise!tables, Inbox, Answered, dead>>
  <1>0. /\ Replying.text = NoMessage
        /\ \A k \in Commands \cup {Disconnecting, Joining(DefaultRoom), Replying} :
             k.text \in unsent \cup {NoMessage}
    BY DEF Commands, Replying, Disconnecting, Joining, Leaving, Printing, Saying, Call
  <1>1. ASSUME NEW c \in Conns,
               Enter(c) \/ (\E k \in Commands : Read(c, k)) \/ Reply(c) \/ ReadError(c)
        PROVE  Goal
    <2>1. PICK k \in Commands \cup {Disconnecting, Joining(DefaultRoom), Replying} :
                 Begin(c, k)
      BY <1>1 DEF Enter, Read, Reply, ReadError
    <2>2. call[c].text \notin Messages
      BY <1>0, <1>1, MessagesAssumption DEF Enter, Read, Reply, ReadError, DInv, CallInv
    <2>3. /\ call'[c] = k /\ \A d \in Conns \ {c} : call'[d] = call[d]
          /\ unsent' = unsent \ {call'[c].text}
      BY <2>1 DEF Begin, DInv, DeliveryTypeOK
    <2>4. Answered' = Answered
      BY <1>0, <2>2, <2>3, AnsweredSame
    <2>5. Inbox' = Inbox /\ UNCHANGED <<vars, dead>>
      BY <2>1, InboxSame DEF Begin
    <2> QED
      BY <2>4, <2>5, Unseen
  <1>2. ASSUME NEW c \in Conns, call[c].text \notin Messages,
               call' = [call EXCEPT ![c] = Replying], UNCHANGED unsent
        PROVE  Answered' = Answered
    <2>1. /\ call'[c].text = NoMessage /\ \A d \in Conns \ {c} : call'[d] = call[d]
      BY <1>0, <1>2 DEF DInv, DeliveryTypeOK
    <2>2. unsent' = unsent \ {call'[c].text}
      BY <1>2, <2>1, MessagesAssumption DEF DInv, DeliveryTypeOK
    <2> QED
      BY <1>2, <2>1, <2>2, AnsweredSame
  <1>3. ASSUME NEW c \in Conns, DoJoin(c) \/ DoLeave(c) \/ DoDisconnect(c)
        PROVE  Goal
    <2>1. /\ call' = [call EXCEPT ![c] = Replying]
          /\ UNCHANGED <<mu, done, received, dead, unsent>>
          /\ call[c].kind # "BroadcastRoom"
      BY <1>3 DEF DoJoin, DoLeave, DoDisconnect, Returns, Enters
    <2>2. Answered' = Answered
      BY <1>2, <2>1 DEF DInv, CallInv
    <2>3. Inbox' = Inbox
      BY <2>1, InboxSame
    <2>4. Promise!Next \/ UNCHANGED vars
      <3>1. [Next]_vars
        BY TablesStep DEF DInv
      <3> QED
        BY <3>1 DEF Next, Promise!Next, JoinRoom, Promise!JoinRoom, JoinRoomFails,
                    Promise!JoinRoomFails, LeaveRoom, Promise!LeaveRoom,
                    Disconnect, Promise!Disconnect, NoMembers, Promise!NoMembers,
                    vars, Promise!vars
    <2>5. CASE UNCHANGED vars
      BY <2>1, <2>2, <2>3, <2>5, Unseen
    <2>6. CASE Promise!Next
      BY <2>1, <2>2, <2>3, <2>6 DEF Promise!BroadcastNext, Promise!Manage
    <2> QED
      BY <2>4, <2>5, <2>6
  <1>4. ASSUME NEW c \in Conns, Lock(c)
        PROVE  Goal
    <2>1. mu = NoConn /\ mu' = c /\ UNCHANGED <<vars, call, done, received, dead, unsent>>
      BY <1>4 DEF Lock, Enters
    <2>2. done[c] = {}
      BY <2>1, NoConnAssumption DEF DInv, LockInv
    <2>3. Inbox' = Inbox /\ Answered' = Answered
      BY <2>1, <2>2 DEF Inbox, Answered
    <2> QED
      BY <2>1, <2>3, Unseen
  <1>5. ASSUME NEW c \in Conns, Refuse(c)
        PROVE  Goal
    <2>1. /\ call[c].kind = "BroadcastRoom" /\ call[c].room \notin rooms
          /\ call' = [call EXCEPT ![c] = Replying]
          /\ UNCHANGED <<vars, mu, done, received, dead, unsent>>
      BY <1>5 DEF Refuse, Unknown
    <2>2. call[c].text \in Messages /\ call[c].room \in Rooms
      BY <2>1 DEF DInv, CallInv, DeliveryTypeOK, Calls
    <2>3. /\ call[c].text \notin Answered
          /\ Answered' = Answered \cup {call[c].text}
      BY <2>1, <2>2, AnsweredNow
    <2>4. Inbox' = Inbox /\ Inbox = [d \in Conns |-> Inbox[d]]
      BY <2>1, InboxSame DEF Inbox
    <2>5. Promise!Deliver({}, call[c].text)
      <3>1. Inbox' = [d \in Conns |-> IF d \in {} THEN Append(Inbox[d], call[c].text)
                                                  ELSE Inbox[d]]
        BY <2>4
      <3>2. {} \ dead \subseteq {} /\ {} \in SUBSET {}
        OBVIOUS
      <3> QED
        BY <2>1, <2>3, <3>1, <3>2 DEF Promise!Deliver, Promise!tables, vars
    <2>6. Promise!Refuse(call[c].room, call[c].text)
      BY <2>1, <2>5 DEF Promise!Refuse
    <2> QED
      BY <2>2, <2>6 DEF Promise!BroadcastNext
  <1>6. ASSUME NEW c \in Conns,
               \/ \E f \in todo[c] : WriteHeader(c, f) \/ HeaderFails(c, f)
               \/ BodyFails(c) \/ Stall(c)
        PROVE  Goal
    <2>1. UNCHANGED <<vars, mu, call, done, received, dead, unsent>>
      BY <1>6 DEF WriteHeader, HeaderFails, BodyFails, Stall, handlerVars
    <2>2. Inbox' = Inbox /\ Answered' = Answered
      BY <2>1, InboxSame DEF Answered
    <2> QED
      BY <2>1, <2>2, Unseen
  <1>7. ASSUME NEW c \in Conns, WriteBody(c)
        PROVE  Goal
    <2>1. UNCHANGED <<vars, mu, call, dead, unsent>>
      BY <1>7 DEF WriteBody
    <2>2. Answered' = Answered
      BY <2>1 DEF Answered
    <2>3. Inbox' = Inbox
      <3>1. CASE call[c].text \notin Messages
        BY <1>7, <3>1, InboxSame DEF WriteBody
      <3>2. CASE call[c].text \in Messages
        <4> DEFINE x == half[c]
        <4>1. /\ x \in Conns /\ mu = c /\ mu' = c /\ x \notin done[c]
              /\ \A d \in Conns \ {x} : received'[d] = received[d]
              /\ done'[c] = done[c] \cup {x}
          BY <1>7, <3>2, Received
        <4>2. received'[x] = Append(received[x], call[c].text)
          BY <1>7, <3>2, <4>1 DEF WriteBody, DInv, DeliveryTypeOK
        <4>3. received[x] \in Seq(Messages)
          BY <4>1 DEF DInv, DeliveryTypeOK
        <4>4. SubSeq(received'[x], 1, Len(received'[x]) - 1) = received[x]
          BY <3>2, <4>2, <4>3, LastOff
        <4> HIDE DEF x
        <4> QED
          BY <4>1, <4>4, NoConnAssumption DEF Inbox
      <3> QED
        BY <3>1, <3>2
    <2> QED
      BY <2>1, <2>2, <2>3, Unseen
  <1>8. ASSUME NEW c \in Conns, Finish(c)
        PROVE  Goal
    <2>1. /\ pc[c] = "write" /\ todo[c] = {} /\ half[c] = NoConn
          /\ mu' = IF mu = c THEN NoConn ELSE mu
          /\ call' = [call EXCEPT ![c] = Replying]
          /\ done'[c] = {} /\ \A d \in Conns \ {c} : done'[d] = done[d]
          /\ UNCHANGED <<vars, received, dead, unsent>>
      BY <1>8 DEF Finish, DInv, DeliveryTypeOK
    <2>2. CASE call[c].kind # "BroadcastRoom"
      <3>1. Answered' = Answered
        BY <1>2, <2>1, <2>2 DEF DInv, CallInv
      <3>2. done[c] = {}
        BY <2>2 DEF DInv, LockInv
      <3>3. Inbox' = Inbox
        BY <2>1, <3>2 DEF Inbox, DInv, DeliveryTypeOK
      <3> QED
        BY <2>1, <3>1, <3>3, Unseen
    <2>3. CASE call[c].kind = "BroadcastRoom"
      <3> DEFINE r == call[c].room
                 m == call[c].text
                 got == done[c]
      <3>1. mu = c /\ mu' = NoConn
        BY <2>1, <2>3 DEF DInv, LockInv
      <3>2. m \in Messages /\ r \in Rooms
        BY <2>3 DEF DInv, CallInv, DeliveryTypeOK, Calls
      <3>3. m \notin Answered /\ Answered' = Answered \cup {m}
        BY <2>1, <3>2, AnsweredNow
      <3>4. /\ r \in rooms /\ got \subseteq Recipients(r)
            /\ Recipients(r) \ dead \subseteq got
        <4>1. NoConn \notin Recipients(r)
          BY DEF Recipients
        <4> QED
          BY <2>1, <2>3, <3>1, <4>1, NoConnAssumption DEF DInv, BroadcastInv
      <3>5. ASSUME NEW d \in Conns
            PROVE  Inbox'[d] = IF d \in got THEN Append(Inbox[d], m) ELSE Inbox[d]
        <4>1. Inbox'[d] = received[d]
          BY <2>1, <3>1 DEF Inbox
        <4>2. CASE d \in got
          <5>1. Inbox[d] = SubSeq(received[d], 1, Len(received[d]) - 1)
            BY <3>1, <4>2, NoConnAssumption DEF Inbox
          <5>2. received[d] # <<>> /\ received[d][Len(received[d])] = m
            BY <4>2 DEF DInv, DoneInv
          <5>3. received[d] \in Seq(Messages)
            BY DEF DInv, DeliveryTypeOK
          <5>4. Append(SubSeq(received[d], 1, Len(received[d]) - 1), m) = received[d]
            BY <3>2, <5>2, <5>3, LastOff
          <5> QED
            BY <4>1, <4>2, <5>1, <5>4
        <4>3. CASE d \notin got
          BY <3>1, <4>1, <4>3 DEF Inbox
        <4> QED
          BY <4>2, <4>3
      <3>6. Inbox' = [d \in Conns |-> IF d \in got THEN Append(Inbox[d], m) ELSE Inbox[d]]
        <4>1. Inbox' = [d \in Conns |-> Inbox'[d]]
          BY DEF Inbox
        <4> QED
          BY <3>5, <4>1, Zenon
      <3>7. Promise!Recipients(r) = Recipients(r)
        BY DEF Promise!Recipients, Recipients
      <3>8. Promise!Deliver(Recipients(r), m)
        BY <2>1, <3>3, <3>4, <3>6 DEF Promise!Deliver, Promise!tables, vars
      <3>9. Promise!Broadcast(r, m)
        BY <3>4, <3>7, <3>8 DEF Promise!Broadcast
      <3> QED
        BY <3>2, <3>9 DEF Promise!BroadcastNext
    <2> QED
      BY <2>2, <2>3
  <1>9. ASSUME NEW c \in Conns, Expire(c)
        PROVE  Goal
    <2>1. UNCHANGED <<vars, mu, call, done, received, unsent>> /\ dead' = dead \cup {c}
      BY <1>9 DEF Expire, handlerVars
    <2>2. Inbox' = Inbox /\ Answered' = Answered
      BY <2>1, InboxSame DEF Answered
    <2>3. Promise!Break(c)
      BY <2>1, <2>2 DEF Promise!Break, Promise!tables, vars
    <2> QED
      BY <2>3 DEF Promise!BroadcastNext
  <1>10. CASE UNCHANGED deliveryVars
    <2>1. UNCHANGED <<vars, mu, call, done, received, dead, unsent>>
      BY <1>10 DEF deliveryVars, handlerVars
    <2>2. Inbox' = Inbox /\ Answered' = Answered
      BY <2>1, InboxSame DEF Answered
    <2> QED
      BY <2>1, <2>2, Unseen
  <1> QED
    BY <1>1, <1>3, <1>4, <1>5, <1>6, <1>7, <1>8, <1>9, <1>10
       DEF DeliveryNext, Acquire, Advance

\* BroadcastRoom reaches every member but dead connections, in one step as far
\* as anyone can tell, however its writes interleave with replies, stalls and
\* expiring deadlines.
THEOREM KeepsPromise == DeliverySpec => DeliversToAll
  BY PromiseInit, PromiseStep, DeliveryInv, PTL
     DEF DeliverySpec, DeliversToAll, Promise!BroadcastSpec
==============================================================================
