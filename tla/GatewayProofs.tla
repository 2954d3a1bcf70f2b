---------------------------- MODULE GatewayProofs ----------------------------
(***************************************************************************)
(* Proofs about the gateway, for any number of connections, users and      *)
(* rooms and any set of failing parties.                                   *)
(***************************************************************************)
EXTENDS Gateway, TLAPS, FiniteSetTheorems, SequenceTheorems

USE DEF Session, Present, Routed, Looping, Authenticating, Open

\* A handler has a username from its /register or its admission on, the name of
\* an account.
UserBound ==
    \A c \in Conns :
        /\ pc[c] \in {"new", "auth"} => user[c] = NoUser
        /\ pc[c] \in (Session \ {"absent"}) \cup {"registering"} => user[c] \in Users
        /\ user[c] \in Users => user[c] \in accounts

\* UNCHANGED of the groups of variables, one by one.
USE DEF local, router, store, service

(***************************************************************************)
(* Types.                                                                  *)
(***************************************************************************)
TypeInv == TypeOK /\ UserBound

LEMMA TypeInit == Init => TypeInv
  BY ConnsAssumption, UsersAssumption, RoomsAssumption
  DEF Init, TypeInv, TypeOK, UserBound, Labels, Registry!Init, Presence!Init,
      Router!Init, Router!NoMembers, Router!TypeOK, Store!Init, Online!Init

LEMMA AppendType ==
    ASSUME NEW S, NEW s \in Seq(S), NEW e \in S
    PROVE  Append(s, e) \in Seq(S)
  OBVIOUS

LEMMA PublishType ==
    ASSUME TypeInv, NEW c \in Conns, user[c] \in Users,
           NEW b \in BOOLEAN, PublishPresence(c, b)
    PROVE  pending' \in [Users -> Seq(BOOLEAN)] /\ online' = online
  <1>1. Append(pending[user[c]], b) \in Seq(BOOLEAN)
    BY AppendType, Zenon DEF TypeInv, TypeOK
  <1>2. CASE Online!Publish(user[c], b)
    BY <1>1, <1>2, Zenon DEF PublishPresence, Online!Publish, TypeInv, TypeOK
  <1> QED
    BY <1>2 DEF PublishPresence, TypeInv, TypeOK

LEMMA TypeHandlerStep ==
    ASSUME TypeInv, NEW c \in Conns, HandlerStep(c)
    PROVE  TypeInv'
  <1> USE RoomsAssumption, UsersAssumption DEF TypeInv, TypeOK, UserBound, Labels, Router!TypeOK,
          Goto, Pass
  <1>1. CASE AuthReadError(c)
    BY <1>1 DEF AuthReadError
  <1>2. CASE AddPresence(c)
    BY <1>2 DEF AddPresence, Presence!Add
  <1>3. ASSUME NEW from \in Session \ {"absent"},
               NEW to \in Session \ {"absent"}, StoreJoin(c, from, to)
        PROVE  TypeInv'
    <2>1. user[c] \in Users /\ goal[c] \in Rooms
      BY <1>3 DEF StoreJoin
    <2>2. storeRooms' \in SUBSET Rooms /\ storeMembers' \in [Rooms -> SUBSET Users]
      <3>1. storeMembers[goal[c]] \cup {user[c]} \in SUBSET Users
        BY <2>1
      <3>2. CASE Store!JoinRoom(goal[c], user[c])
        BY <2>1, <3>1, <3>2 DEF Store!JoinRoom
      <3> QED
        BY <1>3, <3>2 DEF StoreJoin, Store!JoinRoomFails
    <2> QED
      BY <1>3, <2>2 DEF StoreJoin
  <1>4. ASSUME NEW from \in Session \ {"absent"},
               NEW to \in Session \ {"absent"}, RouterJoin(c, from, to)
        PROVE  TypeInv'
    <2>1. user[c] \in Users /\ goal[c] \in Rooms
      BY <1>4 DEF RouterJoin
    <2>2. Router!TypeOK'
      <3>1. CASE Router!JoinRoom(goal[c], user[c], c)
        BY <2>1, <3>1 DEF Router!JoinRoom
      <3>2. CASE Router!JoinRoomFails(goal[c])
        BY <3>2 DEF Router!JoinRoomFails, Router!vars
      <3> QED
        BY <1>4, <3>1, <3>2 DEF RouterJoin
    <2> QED
      BY <1>4, <2>2 DEF RouterJoin
  <1>5. CASE Announce(c)
    <2>1. pending' \in [Users -> Seq(BOOLEAN)] /\ online' = online
      BY <1>5, PublishType, Zenon DEF Announce
    <2> QED
      BY <1>5, <2>1 DEF Announce
  <1>6. CASE Fetch(c) \/ Persist(c)
    <2>1. CASE Fetch(c)
      BY <2>1 DEF Fetch
    <2>2. CASE Persist(c)
      BY <2>2 DEF Persist
    <2> QED
      BY <1>6, <2>1, <2>2
  <1>7. CASE ReadError(c)
    <2>1. pending' \in [Users -> Seq(BOOLEAN)] /\ online' = online
      BY <1>7, PublishType, Zenon DEF ReadError
    <2> QED
      BY <1>7, <2>1 DEF ReadError
  <1>8. CASE Disconnect(c)
    BY <1>8 DEF Disconnect, Router!Disconnect
  <1>9. CASE RemovePresence(c)
    BY <1>9 DEF RemovePresence, Presence!Remove
  <1>10. CASE Deregister(c)
    BY <1>10 DEF Deregister, Registry!Remove
  <1>11. CASE EnterStore(c) \/ JoinStore(c) \/ LeaveStore(c)
    BY <1>3, <1>11 DEF EnterStore, JoinStore, LeaveStore
  <1>12. CASE EnterRouter(c) \/ JoinRouter(c) \/ LeaveRouter(c)
    BY <1>4, <1>12 DEF EnterRouter, JoinRouter, LeaveRouter
  <1>13. CASE RegisterAnswers(c)
    BY <1>13 DEF RegisterAnswers, Admit, SessionsOf
  <1>14. CASE RegisterLost(c)
    BY <1>14 DEF RegisterLost
  <1> QED
    BY <1>1, <1>2, <1>5, <1>6, <1>7, <1>8, <1>9, <1>10, <1>11, <1>12, <1>13, <1>14
    DEF HandlerStep

LEMMA TypeClientStep ==
    ASSUME TypeInv, NEW c \in Conns, ClientStep(c)
    PROVE  TypeInv'
  <1> USE RoomsAssumption, UsersAssumption DEF TypeInv, TypeOK, UserBound, Labels, Router!TypeOK,
          Goto, Pass
  <1>1. CASE Accept(c)
    BY <1>1 DEF Accept, Registry!Add
  <1>2. CASE HangUp(c)
    BY <1>2 DEF HangUp
  <1>3. ASSUME NEW u \in Users, Login(c, u)
        PROVE  TypeInv'
    BY <1>3 DEF Login, Admit, SessionsOf
  <1>4. ASSUME NEW u \in Users, Register(c, u)
        PROVE  TypeInv'
    BY <1>4 DEF Register
  <1>5. ASSUME NEW to \in {"joinStore", "leaveStore"}, NEW r \in Rooms,
               StoreLeave(c, to, r)
        PROVE  TypeInv'
    <2>1. storeRooms' \in SUBSET Rooms
      BY <1>5 DEF StoreLeave, Store!LeaveRoom
    <2>2. storeMembers' \in [Rooms -> SUBSET Users]
      <3>1. storeMembers[currentRoom[c]] \ {user[c]} \in SUBSET Users
        OBVIOUS
      <3>2. CASE Store!LeaveRoom(currentRoom[c], user[c])
        BY <3>1, <3>2 DEF Store!LeaveRoom
      <3> QED
        BY <1>5, <3>2 DEF StoreLeave
    <2> QED
      BY <1>5, <2>1, <2>2 DEF StoreLeave
  <1>6. CASE Leave(c)
    BY <1>5, <1>6 DEF Leave
  <1>7. ASSUME NEW r \in Rooms, Join(c, r)
        PROVE  TypeInv'
    BY <1>5, <1>7 DEF Join
  <1>8. CASE Send(c)
    BY <1>8 DEF Send
  <1> QED
    BY <1>1, <1>2, <1>3, <1>4, <1>6, <1>7, <1>8 DEF ClientStep

LEMMA PrefixType ==
    ASSUME NEW S, NEW q \in Seq(S), NEW p \in Online!Prefixes(q)
    PROVE  p \in Seq(S)
  BY DEF Online!Prefixes

LEMMA TypeTerminate ==
    ASSUME TypeInv, NEW how \in {"stopped", "panicked"}, Terminate(how)
    PROVE  TypeInv'
  <1>1. pending' \in [Users -> Seq(BOOLEAN)]
    <2>1. \A u \in Users : pending'[u] \in Seq(BOOLEAN)
      BY PrefixType, Zenon DEF Terminate, Online!LoseNewest, TypeInv, TypeOK
    <2> QED
      BY <2>1, Zenon DEF Terminate, Online!LoseNewest
  <1> QED
    BY <1>1, RoomsAssumption, UsersAssumption DEF Terminate, TypeInv, TypeOK, UserBound, Labels,
       Router!TypeOK, Router!NoMembers

LEMMA TailType ==
    ASSUME NEW S, NEW q \in Seq(S), q # <<>>
    PROVE  Tail(q) \in Seq(S)
  OBVIOUS

LEMMA TypeDeliver ==
    ASSUME TypeInv, NEW u \in Users, DeliverPresence(u)
    PROVE  TypeInv'
  <1>1. Tail(pending[u]) \in Seq(BOOLEAN)
    BY TailType, Zenon DEF TypeInv, TypeOK, DeliverPresence, Online!Deliver
  <1>2. pending' \in [Users -> Seq(BOOLEAN)]
    BY <1>1, Zenon DEF TypeInv, TypeOK, DeliverPresence, Online!Deliver
  <1>3. online' \in SUBSET Users
    BY Zenon DEF TypeInv, TypeOK, DeliverPresence, Online!Deliver
  <1> QED
    BY <1>2, <1>3 DEF TypeInv, TypeOK, UserBound, DeliverPresence, gatewayVars,
       Router!TypeOK

LEMMA TypeNext == TypeInv /\ [Next]_vars => TypeInv'
  <1> SUFFICES ASSUME TypeInv, [Next]_vars PROVE TypeInv'
    OBVIOUS
  <1>1. ASSUME NEW c \in Conns, Panic(c) PROVE TypeInv'
    BY <1>1, TypeTerminate DEF Panic
  <1>2. CASE Stop
    BY <1>2, TypeTerminate DEF Stop
  <1>3. CASE Start
    BY <1>3 DEF Start, TypeInv, TypeOK, UserBound, Router!TypeOK
  <1>4. CASE RestartMessaging
    BY <1>4 DEF RestartMessaging, Store!Restart, gatewayVars, TypeInv, TypeOK,
       UserBound, Router!TypeOK
  <1>5. CASE RestartPresence
    <2>1. \A u \in Users : <<>> \in Seq(BOOLEAN)
      OBVIOUS
    <2> QED
      BY <1>5, <2>1 DEF RestartPresence, Online!Restart, gatewayVars, TypeInv,
         TypeOK, UserBound, Router!TypeOK
  <1>6. CASE UNCHANGED vars
    BY <1>6 DEF vars, TypeInv, TypeOK, UserBound, Router!TypeOK
  <1> QED
    BY <1>1, <1>2, <1>3, <1>4, <1>5, <1>6, TypeHandlerStep, TypeClientStep,
       TypeDeliver DEF Next

LEMMA TypeAlways == Spec => []TypeInv
  BY TypeInit, TypeNext, PTL DEF Spec

\* Every table of the gateway, the services and the event queues keeps its
\* type; in particular no store ever holds the name of a handler that has none.
THEOREM TypeCorrect == Spec => []TypeOK
  BY TypeAlways, PTL DEF TypeInv
------------------------------------------------------------------------------
(***************************************************************************)
(* Safety.  A step of one handler moves its own program counter and        *)
(* touches one table.  So each invariant has a lemma for the steps that    *)
(* leave its table alone, and one step per action that does not.           *)
(***************************************************************************)

(***************************************************************************)
(* Frames: what the steps that do not write a table do to the labels.      *)
(***************************************************************************)

\* A connection that is in the router stays there under the same user.
RouterFrame ==
    /\ UNCHANGED router
    /\ \A d \in Conns :
        pc[d] \in Routed => pc'[d] \in Routed /\ user'[d] = user[d]

\* A connection that is in the presence store stays there.
PresenceFrame ==
    /\ UNCHANGED presence
    /\ \A d \in Conns :
        pc[d] \in Present => pc'[d] \in Present /\ user'[d] = user[d]

\* No session with a user begins, and a mark stays as long as its session.
SessionFrame ==
    \A d \in Conns :
        pc'[d] \in Session /\ user'[d] \in Users =>
            /\ pc[d] \in Session
            /\ user'[d] = user[d]
            /\ d \in overlapped <=> d \in overlapped'

\* No session enters the presence store.
EntryFrame ==
    \A d \in Conns :
        pc'[d] \in Present /\ user'[d] \in Users => pc[d] \in Present

\* The handler steps that write neither the router nor the presence store.
QuietStep(c) ==
    \/ RegisterLost(c) \/ AuthReadError(c)
    \/ EnterStore(c) \/ Announce(c) \/ Fetch(c)
    \/ JoinStore(c) \/ LeaveStore(c) \/ Persist(c) \/ ReadError(c)
    \/ Deregister(c)

LEMMA QuietFrames ==
    ASSUME TypeInv, NEW c \in Conns, QuietStep(c)
    PROVE  RouterFrame /\ PresenceFrame /\ SessionFrame /\ EntryFrame
  <1> USE UsersAssumption DEF TypeInv, TypeOK, UserBound, Labels, Goto, Pass,
          RouterFrame, PresenceFrame, SessionFrame, EntryFrame
  <1>1. CASE RegisterLost(c) \/ AuthReadError(c)
    BY <1>1 DEF RegisterLost, AuthReadError
  <1>2. CASE EnterStore(c) \/ JoinStore(c) \/ LeaveStore(c)
    BY <1>2 DEF EnterStore, JoinStore, LeaveStore, StoreJoin
  <1>3. CASE Announce(c) \/ ReadError(c)
    BY <1>3 DEF Announce, ReadError
  <1>4. CASE Fetch(c) \/ Persist(c)
    BY <1>4 DEF Fetch, Persist
  <1>5. CASE Deregister(c)
    BY <1>5 DEF Deregister
  <1> QED
    BY <1>1, <1>2, <1>3, <1>4, <1>5 DEF QuietStep

\* The client's steps, but for the admission of a session.
QuietClientStep(c) ==
    \/ Accept(c) \/ HangUp(c)
    \/ \E u \in Users : Register(c, u)
    \/ \E r \in Rooms : Join(c, r)
    \/ Leave(c) \/ Send(c)

LEMMA QuietClientFrames ==
    ASSUME TypeInv, NEW c \in Conns, QuietClientStep(c)
    PROVE  RouterFrame /\ PresenceFrame /\ SessionFrame /\ EntryFrame
  <1> USE UsersAssumption DEF TypeInv, TypeOK, UserBound, Labels, Goto, Pass,
          RouterFrame, PresenceFrame, SessionFrame, EntryFrame
  <1>1. CASE Accept(c)
    BY <1>1 DEF Accept
  <1>2. CASE HangUp(c)
    BY <1>2 DEF HangUp
  <1>3. ASSUME NEW u \in Users, Register(c, u)
        PROVE  RouterFrame /\ PresenceFrame /\ SessionFrame /\ EntryFrame
    BY <1>3 DEF Register
  <1>4. ASSUME NEW r \in Rooms, NEW to \in {"joinStore", "leaveStore"},
               StoreLeave(c, to, r)
        PROVE  RouterFrame /\ PresenceFrame /\ SessionFrame /\ EntryFrame
    BY <1>4 DEF StoreLeave
  <1>5. CASE Send(c)
    BY <1>5 DEF Send
  <1> QED
    BY <1>1, <1>2, <1>3, <1>4, <1>5, RoomsAssumption
    DEF QuietClientStep, Join, Leave

\* Steps of the processes around the handlers that end none of them.
QuietOtherStep ==
    \/ \E u \in Users : DeliverPresence(u)
    \/ Start \/ RestartMessaging \/ RestartPresence
    \/ UNCHANGED vars

LEMMA QuietOtherFrames ==
    ASSUME QuietOtherStep
    PROVE  /\ RouterFrame /\ PresenceFrame /\ SessionFrame /\ EntryFrame
           /\ UNCHANGED <<pc, local, gone, registry, presence, router, overlapped>>
  BY DEF QuietOtherStep, DeliverPresence, Start, RestartMessaging,
         RestartPresence, gatewayVars, vars, RouterFrame, PresenceFrame,
         SessionFrame, EntryFrame

\* runAuthLoop returns u to the handler of c, after either command.
Admission(c, u) ==
    \/ RegisterAnswers(c) /\ u = user[c]
    \/ Login(c, u)

\* The answer to a /register has a user to admit.
LEMMA AnswerAdmits ==
    ASSUME TypeInv, NEW c \in Conns, RegisterAnswers(c)
    PROVE  user[c] \in Users /\ Admission(c, user[c])
  BY DEF RegisterAnswers, Admit, Goto, TypeInv, UserBound, Admission

\* Every step is quiet or one of the eight kinds the invariants look into.
LEMMA StepKinds ==
    ASSUME TypeInv, [Next]_vars
    PROVE  \/ QuietOtherStep
           \/ Stop \/ \E c \in Conns : Panic(c)
           \/ \E c \in Conns :
                \/ QuietStep(c) \/ QuietClientStep(c)
                \/ AddPresence(c) \/ RemovePresence(c) \/ Disconnect(c)
                \/ EnterRouter(c) \/ JoinRouter(c) \/ LeaveRouter(c)
                \/ \E u \in Users : Admission(c, u)
  <1>1. ASSUME NEW c \in Conns, HandlerStep(c)
        PROVE  \/ QuietStep(c)
               \/ AddPresence(c) \/ RemovePresence(c) \/ Disconnect(c)
               \/ EnterRouter(c) \/ JoinRouter(c) \/ LeaveRouter(c)
               \/ \E u \in Users : Admission(c, u)
    BY <1>1, AnswerAdmits DEF HandlerStep, QuietStep
  <1>2. ASSUME NEW c \in Conns, ClientStep(c)
        PROVE  QuietClientStep(c) \/ \E u \in Users : Admission(c, u)
    BY <1>2 DEF ClientStep, QuietClientStep, Admission
  <1> QED
    BY <1>1, <1>2 DEF Next, QuietOtherStep

\* Joining the router writes neither the presence store nor the marks.
RoutingStep(c) == EnterRouter(c) \/ JoinRouter(c) \/ LeaveRouter(c)

\* What a routing step does, whichever command it belongs to.
LEMMA RoutingEffect ==
    ASSUME TypeInv, NEW c \in Conns, RoutingStep(c)
    PROVE  /\ user[c] \in Users /\ goal[c] \in Rooms
           /\ pc[c] \in {"enterRouter", "joinRouter", "leaveRouter"}
           /\ \E l \in {"announce", "fetch", "loop"} : pc' = [pc EXCEPT ![c] = l]
           /\ \/ Router!JoinRoom(goal[c], user[c], c) /\ stray' = stray \ {c}
              \/ UNCHANGED router /\ stray' = stray \cup {c}
           /\ currentRoom' = [currentRoom EXCEPT ![c] = goal[c]]
           /\ UNCHANGED <<user, goal, registry, presence, store, overlapped>>
           /\ PresenceFrame /\ SessionFrame /\ EntryFrame
  BY DEF RoutingStep, EnterRouter, JoinRouter, LeaveRouter, RouterJoin, Goto,
         Router!JoinRoomFails, Router!vars, TypeInv, TypeOK, UserBound,
         PresenceFrame, SessionFrame, EntryFrame

LEMMA AdmitFrames ==
    ASSUME TypeInv, NEW c \in Conns, NEW u \in Users, Admission(c, u)
    PROVE  RouterFrame /\ PresenceFrame /\ EntryFrame
  BY DEF Admission, RegisterAnswers, Login, Admit, Goto, TypeInv, TypeOK,
         RouterFrame, PresenceFrame, EntryFrame

LEMMA PresenceStepFrames ==
    ASSUME TypeInv, NEW c \in Conns, AddPresence(c) \/ RemovePresence(c)
    PROVE  RouterFrame /\ SessionFrame
  BY DEF AddPresence, RemovePresence, Goto, TypeInv, TypeOK, RouterFrame,
         SessionFrame

LEMMA DisconnectFrames ==
    ASSUME TypeInv, NEW c \in Conns, Disconnect(c)
    PROVE  PresenceFrame /\ SessionFrame /\ EntryFrame
  BY DEF Disconnect, Goto, TypeInv, TypeOK, PresenceFrame, SessionFrame,
         EntryFrame

LEMMA TerminateEffect ==
    ASSUME Stop \/ \E c \in Conns : Panic(c)
    PROVE  /\ \A d \in Conns : pc'[d] \in {"new", "closed"}
           /\ registry' = {}
           /\ presence' = Router!NoMembers
           /\ users' = Router!NoMembers
           /\ members' = [r \in Rooms |-> Router!NoMembers]
           /\ rooms' = {}
  BY DEF Stop, Panic, Terminate
------------------------------------------------------------------------------
(***************************************************************************)
(* The router and the presence store hold live sessions only.              *)
(***************************************************************************)
LEMMA RouterNext ==
    ASSUME TypeInv, RouterHoldsLiveSessions, [Next]_vars
    PROVE  RouterHoldsLiveSessions'
  <1> USE DEF RouterHoldsLiveSessions
  <1>1. CASE RouterFrame
    BY <1>1 DEF RouterFrame
  <1>2. ASSUME NEW c \in Conns, RoutingStep(c)
        PROVE  RouterHoldsLiveSessions'
    <2>0. /\ user[c] \in Users /\ goal[c] \in Rooms
          /\ user' = user
          /\ pc'[c] \in Routed
          /\ \A d \in Conns \ {c} : pc'[d] = pc[d]
      BY <1>2, RoutingEffect DEF TypeInv, TypeOK
    <2>1. CASE Router!JoinRoom(goal[c], user[c], c)
      <3>1. \A u \in Users : users'[u] \in {users[u], c}
                             /\ (users'[u] # users[u] => u = user[c])
        BY <2>0, <2>1 DEF Router!JoinRoom, TypeInv, TypeOK, Router!TypeOK
      <3>2. \A r \in Rooms, u \in Users :
                members'[r][u] \in {members[r][u], c}
                /\ (members'[r][u] # members[r][u] => u = user[c])
        BY <2>0, <2>1 DEF Router!JoinRoom, TypeInv, TypeOK, Router!TypeOK
      <3> QED
        BY <2>0, <3>1, <3>2
    <2>2. CASE UNCHANGED router
      BY <1>2, <2>2, RoutingEffect DEF TypeInv, TypeOK
    <2> QED
      BY <1>2, <2>1, <2>2, RoutingEffect
  <1>3. ASSUME NEW c \in Conns, Disconnect(c)
        PROVE  RouterHoldsLiveSessions'
    BY <1>3, ConnsAssumption DEF Disconnect, Router!Disconnect, Goto, TypeInv, TypeOK,
       UserBound, Router!TypeOK
  <1>4. CASE Stop \/ \E c \in Conns : Panic(c)
    BY <1>4, TerminateEffect, ConnsAssumption DEF Router!NoMembers
  <1> QED
    BY <1>1, <1>2, <1>3, <1>4, StepKinds, QuietFrames, QuietClientFrames,
       QuietOtherFrames, AdmitFrames, PresenceStepFrames DEF RoutingStep

\* BroadcastRoom and SendTo only ever write to the connection of a handler
\* that serves that user and has not been torn down: for any interleaving of
\* handlers, and whatever fails.
THEOREM RouterSafe == Spec => []RouterHoldsLiveSessions
  <1>1. Init => RouterHoldsLiveSessions
    BY ConnsAssumption DEF Init, Router!Init, Router!NoMembers,
       RouterHoldsLiveSessions
  <1> QED
    BY <1>1, RouterNext, TypeAlways, PTL DEF Spec

LEMMA PresenceNext ==
    ASSUME TypeInv, PresenceHoldsLiveSessions, [Next]_vars
    PROVE  PresenceHoldsLiveSessions'
  <1> USE DEF PresenceHoldsLiveSessions
  <1>1. CASE PresenceFrame
    BY <1>1 DEF PresenceFrame
  <1>2. ASSUME NEW c \in Conns, AddPresence(c)
        PROVE  PresenceHoldsLiveSessions'
    BY <1>2 DEF AddPresence, Presence!Add, Goto, TypeInv, TypeOK
  <1>3. ASSUME NEW c \in Conns, RemovePresence(c)
        PROVE  PresenceHoldsLiveSessions'
    BY <1>3, ConnsAssumption DEF RemovePresence, Presence!Remove, Goto, TypeInv,
       TypeOK
  <1>4. CASE Stop \/ \E c \in Conns : Panic(c)
    BY <1>4, TerminateEffect, ConnsAssumption DEF Router!NoMembers
  <1> QED
    BY <1>1, <1>2, <1>3, <1>4, StepKinds, QuietFrames, QuietClientFrames,
       QuietOtherFrames, AdmitFrames, DisconnectFrames, RoutingEffect
    DEF RoutingStep

\* A username the presence store shows has a handler that will remove it.
THEOREM PresenceSafe == Spec => []PresenceHoldsLiveSessions
  <1>1. Init => PresenceHoldsLiveSessions
    BY ConnsAssumption DEF Init, Presence!Init, PresenceHoldsLiveSessions
  <1> QED
    BY <1>1, PresenceNext, TypeAlways, PTL DEF Spec
------------------------------------------------------------------------------
(***************************************************************************)
(* Sessions that have met no other of their user.  The presence store      *)
(* alone does not say who is alone: between runAuthLoop and                *)
(* presenceStore.Add a session is not in it.  OverlapTracked covers that   *)
(* window, and makes LoneSessionIsPresent inductive.                       *)
(***************************************************************************)
LoneInv == TypeInv /\ OverlapTracked /\ LoneSessionIsPresent

LEMMA AdmitEffect ==
    ASSUME TypeInv, NEW c \in Conns, NEW u \in Users, Admission(c, u)
    PROVE  /\ pc[c] \in Authenticating
           /\ pc' = [pc EXCEPT ![c] = "admitted"]
           /\ user' = [user EXCEPT ![c] = u]
           /\ overlapped \subseteq overlapped'
           /\ SessionsOf(u) # {} =>
                overlapped' = overlapped \cup SessionsOf(u) \cup {c}
           /\ SessionsOf(u) = {} => overlapped' = overlapped
           /\ UNCHANGED <<currentRoom, goal, stray, registry, presence, router,
                          store>>
  BY DEF Admission, RegisterAnswers, Login, Admit, Goto

LEMMA OverlapNext ==
    ASSUME TypeInv, OverlapTracked, [Next]_vars
    PROVE  OverlapTracked'
  <1> USE DEF OverlapTracked
  <1>1. CASE SessionFrame
    BY <1>1 DEF SessionFrame
  <1>2. ASSUME NEW c \in Conns, NEW u \in Users, Admission(c, u)
        PROVE  OverlapTracked'
    <2>1. \A d \in Conns \ {c} : pc'[d] = pc[d] /\ user'[d] = user[d]
      BY <1>2, AdmitEffect DEF TypeInv, TypeOK
    <2>2. user'[c] = u
      BY <1>2, AdmitEffect DEF TypeInv, TypeOK
    <2>3. ASSUME NEW d \in Conns \ {c}, pc'[d] \in Session, user'[d] = u
          PROVE  c \in overlapped' /\ d \in overlapped'
      <3>1. d \in SessionsOf(u)
        BY <2>1, <2>3 DEF SessionsOf
      <3> QED
        BY <1>2, <3>1, AdmitEffect
    <2>4. overlapped \subseteq overlapped'
      BY <1>2, AdmitEffect
    <2> QED
      BY <2>1, <2>2, <2>3, <2>4
  <1>3. CASE Stop \/ \E c \in Conns : Panic(c)
    BY <1>3, TerminateEffect
  <1> QED
    BY <1>1, <1>2, <1>3, StepKinds, QuietFrames, QuietClientFrames,
       QuietOtherFrames, PresenceStepFrames, DisconnectFrames, RoutingEffect
    DEF RoutingStep

LEMMA LonePresentNext ==
    ASSUME LoneInv, [Next]_vars
    PROVE  LoneSessionIsPresent'
  <1> USE DEF LoneInv, LoneSessionIsPresent
  <1>1. CASE PresenceFrame /\ SessionFrame /\ EntryFrame
    BY <1>1 DEF PresenceFrame, SessionFrame, EntryFrame
  <1>2. ASSUME NEW c \in Conns, NEW u \in Users, Admission(c, u)
        PROVE  LoneSessionIsPresent'
    <2>1. /\ overlapped \subseteq overlapped' /\ presence' = presence
          /\ pc'[c] = "admitted"
          /\ \A d \in Conns \ {c} : pc'[d] = pc[d] /\ user'[d] = user[d]
      BY <1>2, AdmitEffect DEF TypeInv, TypeOK
    <2> QED
      BY <2>1
  <1>3. ASSUME NEW c \in Conns, AddPresence(c)
        PROVE  LoneSessionIsPresent'
    <2>1. /\ pc[c] = "admitted" /\ user[c] \in Users
          /\ user' = user /\ overlapped' = overlapped
          /\ presence' = [presence EXCEPT ![user[c]] = c]
          /\ \A d \in Conns \ {c} : pc'[d] = pc[d]
      BY <1>3 DEF AddPresence, Presence!Add, Goto, TypeInv, TypeOK, UserBound
    <2>2. ASSUME NEW d \in Conns \ overlapped, d # c, pc[d] \in Present,
                 user[d] \in Users
          PROVE  user[d] # user[c]
      BY <2>1, <2>2 DEF OverlapTracked
    <2> QED
      BY <2>1, <2>2 DEF TypeInv, TypeOK
  <1>4. ASSUME NEW c \in Conns, RemovePresence(c)
        PROVE  LoneSessionIsPresent'
    <2>1. /\ user' = user /\ overlapped' = overlapped
          /\ pc'[c] = "deregister"
          /\ \A d \in Conns \ {c} : pc'[d] = pc[d]
      BY <1>4 DEF RemovePresence, Goto, TypeInv, TypeOK
    <2>2. \A u \in Users : presence[u] # c => presence'[u] = presence[u]
      BY <1>4 DEF RemovePresence, Presence!Remove
    <2> QED
      BY <2>1, <2>2
  <1>5. CASE Stop \/ \E c \in Conns : Panic(c)
    BY <1>5, TerminateEffect
  <1> QED
    BY <1>1, <1>2, <1>3, <1>4, <1>5, StepKinds, QuietFrames, QuietClientFrames,
       QuietOtherFrames, DisconnectFrames, RoutingEffect
    DEF RoutingStep

LEMMA LoneAlways == Spec => []LoneInv
  <1>1. Init => OverlapTracked /\ LoneSessionIsPresent
    BY DEF Init, OverlapTracked, LoneSessionIsPresent
  <1>2. LoneInv /\ [Next]_vars /\ TypeInv' => LoneInv'
    BY OverlapNext, LonePresentNext DEF LoneInv
  <1>3. TypeInv /\ OverlapTracked /\ LoneSessionIsPresent => LoneInv
    BY DEF LoneInv
  <1> QED
    BY <1>1, <1>2, <1>3, TypeAlways, PTL DEF Spec

\* From presenceStore.Add to presenceStore.Remove, a session that has met no
\* other of its user is what the presence store shows.
THEOREM LonePresent == Spec => []LoneSessionIsPresent
  BY LoneAlways, PTL DEF LoneInv

\* Only an admission marks a session.
LEMMA MarksShrink ==
    ASSUME TypeInv, [Next]_vars,
           ~ \E c \in Conns, u \in Users : Admission(c, u)
    PROVE  overlapped' \subseteq overlapped
  <1>1. CASE QuietOtherStep
    BY <1>1, QuietOtherFrames
  <1>2. CASE Stop \/ \E c \in Conns : Panic(c)
    BY <1>2 DEF Stop, Panic, Terminate
  <1>3. ASSUME NEW c \in Conns, QuietStep(c)
        PROVE  overlapped' \subseteq overlapped
    BY <1>3 DEF QuietStep, RegisterLost, AuthReadError, EnterStore, JoinStore,
       LeaveStore, StoreJoin, Announce, Fetch, Persist, Pass, ReadError, Deregister
  <1>4. ASSUME NEW c \in Conns, QuietClientStep(c)
        PROVE  overlapped' \subseteq overlapped
    BY <1>4 DEF QuietClientStep, Accept, HangUp, Register, Join, Leave,
       StoreLeave, Send, Pass
  <1>5. ASSUME NEW c \in Conns,
               AddPresence(c) \/ RemovePresence(c) \/ Disconnect(c)
        PROVE  overlapped' \subseteq overlapped
    BY <1>5 DEF AddPresence, RemovePresence, Disconnect
  <1>6. ASSUME NEW c \in Conns, RoutingStep(c)
        PROVE  overlapped' \subseteq overlapped
    BY <1>6 DEF RoutingStep, EnterRouter, JoinRouter, LeaveRouter, RouterJoin
  <1> QED
    BY <1>1, <1>2, <1>3, <1>4, <1>5, <1>6, StepKinds DEF RoutingStep

\* The check of /login is enough once a session has passed presenceStore.Add: a
\* lone session that has is only ever joined by the handler whose /register made
\* the account, when its answer comes.
THEOREM RaceOnly == Spec => OverlapIsARace
  <1> DEFINE Early(c) ==
        \/ pc[c] \in {"auth", "admitted"}
        \/ \E d \in Conns : /\ user[d] = user[c]
                           /\ pc[d] = "registering" /\ pc'[d] = "admitted"
  <1>1. LoneInv /\ [Next]_vars => [\A c \in overlapped' \ overlapped : Early(c)]_vars
    <2> SUFFICES ASSUME LoneInv, [Next]_vars, NEW d \in overlapped' \ overlapped
                 PROVE  Early(d)
      OBVIOUS
    <2> USE DEF LoneInv, TypeInv, TypeOK
    <2>1. ASSUME NEW c \in Conns, NEW u \in Users, Login(c, u)
          PROVE  Early(d)
      <3>0. Admission(c, u) /\ pc[c] = "auth" /\ presence[u] = NoConn
        BY <2>1 DEF Admission, Login, Admit, Goto, Presence!List
      <3>1. d = c \/ d \in SessionsOf(u)
        BY <3>0, AdmitEffect
      <3>2. CASE d = c
        BY <3>0, <3>2
      <3>3. CASE d \in SessionsOf(u)
        BY <3>0, <3>3, ConnsAssumption DEF SessionsOf, LoneSessionIsPresent
      <3> QED
        BY <3>1, <3>2, <3>3
    <2>2. ASSUME NEW c \in Conns, RegisterAnswers(c)
          PROVE  Early(d)
      <3>1. pc[c] = "registering" /\ pc'[c] = "admitted"
        BY <2>2 DEF RegisterAnswers, Admit, Goto
      <3>2. user[c] \in Users /\ Admission(c, user[c])
        BY <2>2, AnswerAdmits
      <3>3. /\ SessionsOf(user[c]) # {} =>
                  overlapped' = overlapped \cup SessionsOf(user[c]) \cup {c}
            /\ SessionsOf(user[c]) = {} => overlapped' = overlapped
        BY <2>2 DEF RegisterAnswers, Admit
      <3>4. d = c \/ user[d] = user[c]
        BY <3>3 DEF SessionsOf
      <3> QED
        BY <3>1, <3>4
    <2> QED
      BY <2>1, <2>2, MarksShrink DEF Admission
  <1> QED
    BY <1>1, LoneAlways, PTL DEF Spec, OverlapIsARace
------------------------------------------------------------------------------
(***************************************************************************)
(* A lone session is a member of its current room.                         *)
(***************************************************************************)

\* No session enters the router or changes its room, or forgets a failed join.
RoomFrame ==
    \A d \in Conns :
        pc'[d] \in Routed /\ d \notin overlapped' \cup stray' =>
            /\ pc[d] \in Routed /\ d \notin overlapped \cup stray
            /\ user'[d] = user[d] /\ currentRoom'[d] = currentRoom[d]

LEMMA RoomFrames ==
    ASSUME TypeInv, [Next]_vars,
           ~ \E c \in Conns : RoutingStep(c)
    PROVE  RoomFrame
  <1> USE DEF RoomFrame, TypeInv, TypeOK, UserBound, Labels, Goto, Pass
  <1>1. CASE QuietOtherStep
    BY <1>1, QuietOtherFrames
  <1>2. CASE Stop \/ \E c \in Conns : Panic(c)
    BY <1>2, TerminateEffect
  <1>3. ASSUME NEW c \in Conns, QuietStep(c)
        PROVE  RoomFrame
    <2>1. CASE RegisterLost(c) \/ AuthReadError(c)
      BY <2>1 DEF RegisterLost, AuthReadError
    <2>2. CASE EnterStore(c) \/ JoinStore(c) \/ LeaveStore(c)
      BY <2>2 DEF EnterStore, JoinStore, LeaveStore, StoreJoin
    <2>3. CASE Fetch(c) \/ Persist(c) \/ Deregister(c)
      BY <2>3 DEF Fetch, Persist, Deregister
    <2>4. CASE Announce(c) \/ ReadError(c)
      BY <2>4 DEF Announce, ReadError
    <2> QED
      BY <1>3, <2>1, <2>2, <2>3, <2>4 DEF QuietStep
  <1>4. ASSUME NEW c \in Conns, QuietClientStep(c)
        PROVE  RoomFrame
    BY <1>4 DEF QuietClientStep, Accept, HangUp, Register, Join, Leave,
       StoreLeave, Send
  <1>5. ASSUME NEW c \in Conns,
               AddPresence(c) \/ RemovePresence(c) \/ Disconnect(c)
        PROVE  RoomFrame
    BY <1>5 DEF AddPresence, RemovePresence, Disconnect
  <1>6. ASSUME NEW c \in Conns, NEW u \in Users, Admission(c, u)
        PROVE  RoomFrame
    BY <1>6, AdmitEffect
  <1> QED
    BY <1>1, <1>2, <1>3, <1>4, <1>5, <1>6, StepKinds DEF RoutingStep

LEMMA RoutedNext ==
    ASSUME LoneInv, LoneSessionIsRouted, [Next]_vars
    PROVE  LoneSessionIsRouted'
  <1> SUFFICES ASSUME NEW d \in Conns \ (overlapped' \cup stray'),
                      pc'[d] \in Routed
               PROVE  members'[currentRoom'[d]][user'[d]] = d
    BY DEF LoneSessionIsRouted
  <1> USE DEF LoneInv, TypeInv, TypeOK, Router!TypeOK, LoneSessionIsRouted
  <1>1. ASSUME NEW c \in Conns, RoutingStep(c)
        PROVE  members'[currentRoom'[d]][user'[d]] = d
    <2>1. /\ user[c] \in Users /\ goal[c] \in Rooms
          /\ pc[c] \in Session \ {"absent"}
          /\ user' = user /\ overlapped' = overlapped
          /\ currentRoom' = [currentRoom EXCEPT ![c] = goal[c]]
          /\ \/ Router!JoinRoom(goal[c], user[c], c)
             \/ UNCHANGED router /\ c \in stray'
          /\ stray \subseteq stray' \cup {c}
      BY <1>1, RoutingEffect
    <2>2. CASE d = c
      <3>1. Router!JoinRoom(goal[c], user[c], c)
        BY <2>1, <2>2
      <3> QED
        BY <2>1, <2>2, <3>1 DEF Router!JoinRoom
    <2>3. CASE d # c
      <3>0. pc[d] \in Routed
        BY <1>1, <2>3, RoutingEffect
      <3>1. currentRoom'[d] = currentRoom[d] /\ d \notin overlapped \cup stray
        BY <2>1, <2>3
      <3>2. user[d] \in Users /\ user[d] # user[c]
        BY <2>1, <2>3, <3>0, <3>1 DEF UserBound, OverlapTracked
      <3>3. members'[currentRoom[d]][user[d]] = members[currentRoom[d]][user[d]]
        <4>1. CASE Router!JoinRoom(goal[c], user[c], c)
          BY <3>2, <4>1 DEF Router!JoinRoom
        <4>2. CASE UNCHANGED router
          BY <4>2
        <4> QED
          BY <2>1, <4>1, <4>2
      <3> QED
        BY <2>1, <3>0, <3>1, <3>3
    <2> QED
      BY <2>2, <2>3
  <1>2. ASSUME NEW c \in Conns, Disconnect(c)
        PROVE  members'[currentRoom'[d]][user'[d]] = d
    <2>1. /\ user[c] \in Users /\ pc[c] = "disconnect"
          /\ d # c /\ pc[d] \in Routed
          /\ UNCHANGED <<user, overlapped, currentRoom, stray>>
      BY <1>2 DEF Disconnect, Goto, UserBound
    <2>2. user[d] \in Users /\ user[d] # user[c]
      BY <2>1 DEF UserBound, OverlapTracked
    <2> QED
      BY <1>2, <2>1, <2>2 DEF Disconnect, Router!Disconnect
  <1>3. ASSUME RoomFrame, UNCHANGED router
        PROVE  members'[currentRoom'[d]][user'[d]] = d
    BY <1>3 DEF RoomFrame
  <1>4. CASE Stop \/ \E c \in Conns : Panic(c)
    BY <1>4, TerminateEffect
  <1> QED
    BY <1>1, <1>2, <1>3, <1>4, RoomFrames, StepKinds, QuietFrames,
       QuietClientFrames, QuietOtherFrames, AdmitFrames, PresenceStepFrames
    DEF RoutingStep, RouterFrame

\* Every session that has met no other of its user receives what is said in its
\* current room, through the joins, leaves and disconnects of everybody else and
\* whatever fails, unless its own last JoinRoom did (main.go:465, 513).
THEOREM LoneRouted == Spec => []LoneSessionIsRouted
  <1>1. Init => LoneSessionIsRouted
    BY DEF Init, LoneSessionIsRouted
  <1> QED
    BY <1>1, RoutedNext, LoneAlways, PTL DEF Spec
------------------------------------------------------------------------------
(***************************************************************************)
(* A lone session finds the id of its current room.  Between the service's *)
(* JoinRoom and the router's, the room it is a member of is its goal.      *)
(***************************************************************************)
Joining == {"enterRouter", "joinRouter", "leaveRouter"}
Settled == {"announce", "fetch", "loop", "persist"}

StoreInv ==
    Faults \cap {"db", "messaging"} = {} =>
        /\ \A r \in Rooms : storeMembers[r] # {} => r \in storeRooms
        /\ \A c \in Conns \ overlapped :
             /\ pc[c] \in Joining => user[c] \in storeMembers[goal[c]]
             /\ pc[c] \in Settled => user[c] \in storeMembers[currentRoom[c]]

\* No session gets into either phase, or on to another room.
StoreFrame ==
    \A d \in Conns : d \notin overlapped' =>
        /\ pc'[d] \in Joining =>
             /\ pc[d] \in Joining /\ d \notin overlapped
             /\ user'[d] = user[d] /\ goal'[d] = goal[d]
        /\ pc'[d] \in Settled =>
             /\ pc[d] \in Settled /\ d \notin overlapped
             /\ user'[d] = user[d] /\ currentRoom'[d] = currentRoom[d]

StoringStep(c) == EnterStore(c) \/ JoinStore(c) \/ LeaveStore(c)

LeavingStep(c) == Leave(c) \/ \E r \in Rooms : Join(c, r)

\* The steps that use neither JoinRoom, nor the service's LeaveRoom.
LEMMA StoreFrames ==
    ASSUME TypeInv, [Next]_vars, Faults \cap {"db", "messaging"} = {},
           ~ \E c \in Conns : RoutingStep(c) \/ StoringStep(c) \/ LeavingStep(c)
    PROVE  StoreFrame /\ UNCHANGED store
  <1> USE DEF StoreFrame, Joining, Settled, TypeInv, TypeOK, UserBound, Labels,
          Goto, Pass, StoringStep, LeavingStep
  <1>1. CASE QuietOtherStep
    <2>1. UNCHANGED store
      BY <1>1 DEF QuietOtherStep, DeliverPresence, Start, RestartMessaging,
         RestartPresence, vars
    <2> QED
      BY <1>1, <2>1, QuietOtherFrames
  <1>2. CASE Stop \/ \E c \in Conns : Panic(c)
    BY <1>2 DEF Stop, Panic, Terminate
  <1>3. ASSUME NEW c \in Conns, QuietStep(c), ~StoringStep(c)
        PROVE  StoreFrame /\ UNCHANGED store
    <2>1. CASE RegisterLost(c) \/ AuthReadError(c) \/ Announce(c) \/ ReadError(c)
      BY <2>1 DEF RegisterLost, AuthReadError, Announce, ReadError
    <2>2. CASE Fetch(c) \/ Persist(c) \/ Deregister(c)
      BY <2>2 DEF Fetch, Persist, Deregister
    <2> QED
      BY <1>3, <2>1, <2>2 DEF QuietStep
  <1>4. ASSUME NEW c \in Conns, QuietClientStep(c), ~LeavingStep(c)
        PROVE  StoreFrame /\ UNCHANGED store
    BY <1>4 DEF QuietClientStep, Accept, HangUp, Register, Send
  <1>5. ASSUME NEW c \in Conns,
               AddPresence(c) \/ RemovePresence(c) \/ Disconnect(c)
        PROVE  StoreFrame /\ UNCHANGED store
    BY <1>5 DEF AddPresence, RemovePresence, Disconnect
  <1>6. ASSUME NEW c \in Conns, NEW u \in Users, Admission(c, u)
        PROVE  StoreFrame /\ UNCHANGED store
    BY <1>6, AdmitEffect
  <1> QED
    BY <1>1, <1>2, <1>3, <1>4, <1>5, <1>6, StepKinds DEF RoutingStep

LEMMA StoringEffect ==
    ASSUME TypeInv, NEW c \in Conns, StoringStep(c),
           Faults \cap {"db", "messaging"} = {}
    PROVE  /\ user[c] \in Users /\ goal[c] \in Rooms
           /\ \E l \in Joining : pc' = [pc EXCEPT ![c] = l]
           /\ storeRooms' = storeRooms \cup {goal[c]}
           /\ storeMembers' =
                [storeMembers EXCEPT ![goal[c]] = storeMembers[goal[c]] \cup {user[c]}]
           /\ UNCHANGED <<local, overlapped>>
  BY DEF StoringStep, EnterStore, JoinStore, LeaveStore, StoreJoin, Goto, Joining,
         Store!JoinRoom, TypeInv, TypeOK, UserBound

LEMMA LeavingEffect ==
    ASSUME TypeInv, NEW c \in Conns, LeavingStep(c),
           Faults \cap {"db", "messaging"} = {}
    PROVE  /\ user[c] \in Users /\ currentRoom[c] \in Rooms /\ pc[c] = "loop"
           /\ \E l \in {"joinStore", "leaveStore"} : pc' = [pc EXCEPT ![c] = l]
           /\ \E r \in Rooms : goal' = [goal EXCEPT ![c] = r]
           /\ storeRooms' = IF storeMembers[currentRoom[c]] \subseteq {user[c]}
                            THEN storeRooms \ {currentRoom[c]} ELSE storeRooms
           /\ storeMembers' = [storeMembers EXCEPT ![currentRoom[c]] =
                                 storeMembers[currentRoom[c]] \ {user[c]}]
           /\ UNCHANGED <<user, currentRoom, overlapped>>
  BY RoomsAssumption
  DEF LeavingStep, Join, Leave, StoreLeave, Goto, Store!LeaveRoom, TypeInv,
      TypeOK, UserBound

LEMMA StoreNext ==
    ASSUME LoneInv, StoreInv, [Next]_vars
    PROVE  StoreInv'
  <1> SUFFICES ASSUME Faults \cap {"db", "messaging"} = {}
               PROVE  StoreInv'
    BY DEF StoreInv
  <1> USE DEF LoneInv, TypeInv, TypeOK, StoreInv
  <1>1. CASE StoreFrame /\ UNCHANGED store
    BY <1>1 DEF StoreFrame
  <1>2. ASSUME NEW c \in Conns, RoutingStep(c)
        PROVE  StoreInv'
    <2>1. /\ pc[c] \in Joining /\ pc'[c] \in Settled
          /\ \A d \in Conns \ {c} : pc'[d] = pc[d] /\ currentRoom'[d] = currentRoom[d]
          /\ currentRoom'[c] = goal[c]
          /\ UNCHANGED <<user, goal, store, overlapped>>
      BY <1>2, RoutingEffect DEF Joining, Settled
    <2> QED
      BY <2>1 DEF Joining, Settled
  <1>3. ASSUME NEW c \in Conns, StoringStep(c)
        PROVE  StoreInv'
    <2>1. /\ user[c] \in storeMembers'[goal[c]]
          /\ \A r \in Rooms : storeMembers[r] \subseteq storeMembers'[r]
          /\ \A r \in Rooms : storeMembers'[r] # {} => r \in storeRooms'
      <3>0. storeMembers' =
              [storeMembers EXCEPT ![goal[c]] = storeMembers[goal[c]] \cup {user[c]}]
        BY <1>3, StoringEffect
      <3>1. \A r \in Rooms :
              storeMembers'[r] = IF r = goal[c] THEN storeMembers[r] \cup {user[c]}
                                 ELSE storeMembers[r]
        BY <3>0, Zenon
      <3>2. goal[c] \in Rooms /\ storeRooms' = storeRooms \cup {goal[c]}
        BY <1>3, StoringEffect
      <3>3. \A r \in Rooms : storeMembers'[r] # {} => r \in storeRooms'
        BY <3>1, <3>2
      <3> QED
        BY <3>1, <3>2, <3>3
    <2>2. /\ pc'[c] \in Joining
          /\ \A d \in Conns \ {c} : pc'[d] = pc[d]
          /\ UNCHANGED <<user, goal, currentRoom, overlapped>>
      BY <1>3, StoringEffect
    <2> QED
      BY <2>1, <2>2 DEF Joining, Settled
  <1>4. ASSUME NEW c \in Conns, LeavingStep(c)
        PROVE  StoreInv'
    <2>1. /\ \A r \in Rooms, u \in Users \ {user[c]} :
                u \in storeMembers[r] => u \in storeMembers'[r]
          /\ \A r \in Rooms : storeMembers'[r] # {} => r \in storeRooms'
      <3>0. storeMembers' = [storeMembers EXCEPT ![currentRoom[c]] =
                               storeMembers[currentRoom[c]] \ {user[c]}]
        BY <1>4, LeavingEffect
      <3>1. \A r \in Rooms :
              storeMembers'[r] = IF r = currentRoom[c] THEN storeMembers[r] \ {user[c]}
                                 ELSE storeMembers[r]
        BY <3>0, Zenon
      <3>2. storeRooms' = IF storeMembers[currentRoom[c]] \subseteq {user[c]}
                          THEN storeRooms \ {currentRoom[c]} ELSE storeRooms
        BY <1>4, LeavingEffect
      <3>3. \A r \in Rooms : storeMembers'[r] # {} => r \in storeRooms'
        BY <3>1, <3>2
      <3> QED
        BY <3>1, <3>3
    <2>2. /\ pc[c] = "loop" /\ pc'[c] \notin Joining \cup Settled
          /\ \A d \in Conns \ {c} : pc'[d] = pc[d] /\ goal'[d] = goal[d]
          /\ UNCHANGED <<user, currentRoom, overlapped>>
      BY <1>4, LeavingEffect DEF Joining, Settled
    <2>3. ASSUME NEW d \in Conns \ overlapped, d # c,
                 pc[d] \in Joining \cup Settled
          PROVE  user[d] \in Users \ {user[c]}
      <3>1. user[d] \in Users /\ user[c] \in Users
        BY <2>2, <2>3 DEF UserBound, Joining, Settled
      <3> QED
        BY <2>2, <2>3, <3>1 DEF OverlapTracked, Joining, Settled
    <2> QED
      BY <2>1, <2>2, <2>3
  <1> QED
    BY <1>1, <1>2, <1>3, <1>4, StoreFrames

\* While the database and the messaging service answer, a session that has met
\* no other of its user is a member of its current room in the service, so
\* the room has an id to list and store messages under, whoever else leaves.
THEOREM LoneHasRoomID == Spec => []LoneSessionHasRoomID
  <1>1. Init => StoreInv
    BY DEF Init, Store!Init, StoreInv, Joining, Settled
  <1>2. LoneInv /\ StoreInv => LoneSessionHasRoomID
    BY DEF LoneInv, TypeInv, TypeOK, StoreInv, Settled, LoneSessionHasRoomID,
       Store!HasRoomID
  <1> QED
    BY <1>1, <1>2, StoreNext, LoneAlways, PTL DEF Spec
------------------------------------------------------------------------------
(***************************************************************************)
(* The registry counts the handlers.                                       *)
(***************************************************************************)
RegistryInv == HandlersBounded /\ IsFiniteSet(registry)

LEMMA RegistryNext ==
    ASSUME TypeInv, RegistryInv, [Next]_vars
    PROVE  RegistryInv'
  <1> USE DEF RegistryInv, HandlersBounded
  <1>1. ASSUME registry' = registry,
               \A d \in Conns : pc[d] \in Open <=> pc'[d] \in Open
        PROVE  RegistryInv'
    BY <1>1
  <1>2. ASSUME NEW c \in Conns, Accept(c)
        PROVE  RegistryInv'
    <2>1. /\ c \notin registry
          /\ registry' = registry \cup {c}
          /\ Cardinality(registry) < MaxConns
      BY <1>2 DEF Accept, Registry!Add, Goto, Cardinality, Registry!Cardinality
    <2>2. registry' = {d \in Conns : pc'[d] \in Open}
      BY <1>2, <2>1 DEF Accept, Goto, TypeInv, TypeOK
    <2>3. IsFiniteSet(registry') /\ Cardinality(registry') = Cardinality(registry) + 1
      BY <2>1, FS_AddElement
    <2>4. Cardinality(registry) \in Nat
      BY FS_CardinalityType
    <2> QED
      BY <2>1, <2>2, <2>3, <2>4, MaxConnsAssumption
  <1>3. ASSUME NEW c \in Conns, Deregister(c)
        PROVE  RegistryInv'
    <2>1. /\ c \in registry
          /\ registry' = registry \ {c}
      BY <1>3 DEF Deregister, Registry!Remove, Goto
    <2>2. registry' = {d \in Conns : pc'[d] \in Open}
      BY <1>3, <2>1 DEF Deregister, Goto, TypeInv, TypeOK
    <2>3. IsFiniteSet(registry') /\ Cardinality(registry') = Cardinality(registry) - 1
      BY <2>1, FS_RemoveElement
    <2>4. Cardinality(registry) \in Nat
      BY FS_CardinalityType
    <2> QED
      BY <2>2, <2>3, <2>4, MaxConnsAssumption
  <1>4. CASE Stop \/ \E c \in Conns : Panic(c)
    BY <1>4, TerminateEffect, FS_EmptySet, MaxConnsAssumption
  <1>5. ASSUME NEW c \in Conns, QuietStep(c), ~Deregister(c)
        PROVE  RegistryInv'
    <2> SUFFICES registry' = registry
                 /\ \A d \in Conns : pc[d] \in Open <=> pc'[d] \in Open
      BY <1>1
    <2> QED
      BY <1>5 DEF QuietStep, RegisterLost, AuthReadError, EnterStore, JoinStore,
       LeaveStore, StoreJoin, Announce, Fetch, Persist, ReadError, Goto, Pass,
       TypeInv, TypeOK
  <1>6. ASSUME NEW c \in Conns, QuietClientStep(c), ~Accept(c)
        PROVE  RegistryInv'
    <2> SUFFICES registry' = registry
                 /\ \A d \in Conns : pc[d] \in Open <=> pc'[d] \in Open
      BY <1>1
    <2> QED
      BY <1>6 DEF QuietClientStep, HangUp, Register, Join, Leave, StoreLeave,
       Send, Goto, Pass, TypeInv, TypeOK
  <1>7. ASSUME NEW c \in Conns,
               AddPresence(c) \/ RemovePresence(c) \/ Disconnect(c)
        PROVE  RegistryInv'
    <2> SUFFICES registry' = registry
                 /\ \A d \in Conns : pc[d] \in Open <=> pc'[d] \in Open
      BY <1>1
    <2> QED
      BY <1>7 DEF AddPresence, RemovePresence, Disconnect, Goto, TypeInv, TypeOK
  <1>8. ASSUME NEW c \in Conns, RoutingStep(c)
        PROVE  RegistryInv'
    <2> SUFFICES registry' = registry
                 /\ \A d \in Conns : pc[d] \in Open <=> pc'[d] \in Open
      BY <1>1
    <2> QED
      BY <1>8, RoutingEffect DEF TypeInv, TypeOK
  <1>9. ASSUME NEW c \in Conns, NEW u \in Users, Admission(c, u)
        PROVE  RegistryInv'
    <2> SUFFICES registry' = registry
                 /\ \A d \in Conns : pc[d] \in Open <=> pc'[d] \in Open
      BY <1>1
    <2> QED
      BY <1>9, AdmitEffect DEF TypeInv, TypeOK
  <1>10. CASE QuietOtherStep
    BY <1>1, <1>10, QuietOtherFrames
  <1> QED
    BY <1>2, <1>3, <1>4, <1>5, <1>6, <1>7, <1>8, <1>9, <1>10, StepKinds
    DEF RoutingStep

\* Whatever way a handler ends, its slot is given back once, and there are
\* never more than MaxConns handlers.
THEOREM Bounded == Spec => []HandlersBounded
  <1>1. Init => RegistryInv
    BY FS_EmptySet, MaxConnsAssumption
    DEF Init, Registry!Init, RegistryInv, HandlersBounded
  <1>2. RegistryInv => HandlersBounded
    BY DEF RegistryInv
  <1> QED
    BY <1>1, <1>2, RegistryNext, TypeAlways, PTL DEF Spec
------------------------------------------------------------------------------
(***************************************************************************)
(* What /who comes to say.  A user's last event under way, or the store's  *)
(* entry when none is, is the last announcement of one of its sessions.    *)
(* OverlapTracked says whose: a lone session has nobody who could take its *)
(* announcement back.                                                      *)
(***************************************************************************)
NoWhoFaults == Faults \cap {"gateway", "messaging", "presence", "nats"} = {}

\* No session begins or ends its command loop, and no event is published or
\* delivered.
WhoFrame ==
    /\ UNCHANGED service
    /\ \A d \in Conns :
         /\ pc[d] \in Looping <=> pc'[d] \in Looping
         /\ pc[d] \in Looping => user'[d] = user[d]
         /\ pc[d] \in Looping /\ d \notin overlapped' => d \notin overlapped

LEMMA WhoFrames ==
    ASSUME TypeInv, [Next]_vars, NoWhoFaults,
           ~ \E c \in Conns : Announce(c) \/ ReadError(c),
           ~ \E u \in Users : DeliverPresence(u)
    PROVE  WhoFrame
  <1> USE DEF WhoFrame, TypeInv, TypeOK, Labels, Goto, Pass
  <1>1. CASE QuietOtherStep
    BY <1>1 DEF QuietOtherStep, Start, RestartMessaging, RestartPresence,
       gatewayVars, vars, NoWhoFaults
  <1>2. ~ Stop /\ ~ \E c \in Conns : Panic(c)
    BY DEF Stop, Panic, NoWhoFaults
  <1>3. ASSUME NEW c \in Conns, QuietStep(c)
        PROVE  WhoFrame
    BY <1>3 DEF QuietStep, RegisterLost, AuthReadError, EnterStore, JoinStore,
       LeaveStore, StoreJoin, Fetch, Persist, Deregister
  <1>4. ASSUME NEW c \in Conns, Accept(c) \/ HangUp(c) \/ Send(c)
        PROVE  WhoFrame
    BY <1>4 DEF Accept, HangUp, Send
  <1>5. ASSUME NEW c \in Conns, NEW u \in Users, Register(c, u)
        PROVE  WhoFrame
    BY <1>5 DEF Register
  <1>6. ASSUME NEW c \in Conns, LeavingStep(c)
        PROVE  WhoFrame
    BY <1>6 DEF LeavingStep, Join, Leave, StoreLeave
  <1>7. ASSUME NEW c \in Conns,
               AddPresence(c) \/ RemovePresence(c) \/ Disconnect(c)
        PROVE  WhoFrame
    BY <1>7 DEF AddPresence, RemovePresence, Disconnect
  <1>8. ASSUME NEW c \in Conns, JoinRouter(c) \/ LeaveRouter(c) \/ EnterRouter(c)
        PROVE  WhoFrame
    BY <1>8 DEF JoinRouter, LeaveRouter, EnterRouter, RouterJoin
  <1>9. ASSUME NEW c \in Conns, NEW u \in Users, Admission(c, u)
        PROVE  WhoFrame
    BY <1>9 DEF Admission, RegisterAnswers, Login, Admit
  <1> QED
    BY <1>1, <1>2, <1>3, <1>4, <1>5, <1>6, <1>7, <1>8, <1>9, StepKinds
    DEF QuietClientStep, LeavingStep

\* What a publication does to what the user will be shown as.
LEMMA PublishSettles ==
    ASSUME TypeInv, NEW c \in Conns, user[c] \in Users, NEW b \in BOOLEAN,
           PublishPresence(c, b), NoWhoFaults
    PROVE  \A u \in Users :
             Online!Settled(u)' <=> IF u = user[c] THEN b ELSE Online!Settled(u)
  <1>1. /\ pending' = [pending EXCEPT ![user[c]] = Append(@, b)]
        /\ online' = online
    BY DEF PublishPresence, Online!Publish, NoWhoFaults
  <1>2. /\ \A u \in Users \ {user[c]} : pending'[u] = pending[u]
        /\ pending'[user[c]] = Append(pending[user[c]], b)
    BY <1>1, Zenon DEF TypeInv, TypeOK
  <1>3. ASSUME NEW q \in Seq(BOOLEAN)
        PROVE  Append(q, b) # <<>> /\ Append(q, b)[Len(Append(q, b))] = b
    OBVIOUS
  <1>4. pending[user[c]] \in Seq(BOOLEAN)
    BY Zenon DEF TypeInv, TypeOK
  <1>5. ASSUME NEW u \in Users, u = user[c]
        PROVE  Online!Settled(u)' <=> b
    <2>1. pending'[u] = Append(pending[u], b) /\ pending[u] \in Seq(BOOLEAN)
      BY <1>2, <1>4, <1>5, Zenon
    <2>2. pending'[u] # <<>> /\ pending'[u][Len(pending'[u])] = b
      BY <1>3, <2>1, Zenon
    <2> QED
      BY <2>2, Zenon DEF Online!Settled
  <1>6. ASSUME NEW u \in Users, u # user[c]
        PROVE  Online!Settled(u)' <=> Online!Settled(u)
    <2>1. pending'[u] = pending[u]
      BY <1>2, <1>6, Zenon
    <2> QED
      BY <1>1, <2>1, Zenon DEF Online!Settled
  <1> QED
    BY <1>5, <1>6, Zenon

\* Delivering the oldest event does not change what the user will be shown as.
LEMMA DeliverKeepsSettled ==
    ASSUME TypeInv, NEW v \in Users, DeliverPresence(v)
    PROVE  \A u \in Users : Online!Settled(u)' <=> Online!Settled(u)
  <1>1. /\ pending[v] # <<>>
        /\ online' = IF Head(pending[v]) THEN online \cup {v} ELSE online \ {v}
        /\ pending' = [pending EXCEPT ![v] = Tail(@)]
        /\ pending[v] \in Seq(BOOLEAN)
    BY Zenon DEF DeliverPresence, Online!Deliver, TypeInv, TypeOK
  <1>2. ASSUME NEW u \in Users, u # v
        PROVE  Online!Settled(u)' <=> Online!Settled(u)
    <2>1. pending'[u] = pending[u]
      BY <1>1, <1>2, Zenon DEF TypeInv, TypeOK
    <2>2. u \in online' <=> u \in online
      BY <1>1, <1>2, Zenon
    <2> QED
      BY <2>1, <2>2, Zenon DEF Online!Settled
  <1>3. pending'[v] = Tail(pending[v])
    BY <1>1, Zenon DEF TypeInv, TypeOK
  <1>4. v \in online' <=> Head(pending[v])
    BY <1>1, Zenon
  <1>5. ASSUME NEW q \in Seq(BOOLEAN), q # <<>>
        PROVE  /\ Tail(q) = <<>> => q[Len(q)] = Head(q)
               /\ Tail(q) # <<>> => Tail(q)[Len(Tail(q))] = q[Len(q)]
    <2>1. /\ Len(q) \in Nat \ {0}
          /\ Tail(q) \in Seq(BOOLEAN) /\ Len(Tail(q)) = Len(q) - 1
          /\ \A i \in 1 .. Len(q) - 1 : Tail(q)[i] = q[i + 1]
          /\ Head(q) = q[1]
      BY <1>5
    <2>2. CASE Len(q) = 1
      <3>1. Len(Tail(q)) = 0
        BY <2>1, <2>2
      <3>2. Tail(q) = <<>>
        BY <2>1, <3>1, EmptySeq, Zenon
      <3>3. q[Len(q)] = Head(q)
        BY <2>1, <2>2
      <3> QED
        BY <3>2, <3>3, Zenon
    <2>3. CASE Len(q) # 1
      <3>1. Len(Tail(q)) \in 1 .. Len(q) - 1
        BY <2>1, <2>3
      <3>2. Tail(q)[Len(Tail(q))] = q[Len(q)]
        BY <2>1, <3>1
      <3>3. Len(Tail(q)) # 0
        BY <2>1, <3>1
      <3> QED
        BY <3>2, <3>3, EmptySeq, Zenon
    <2> QED
      BY <2>2, <2>3
  <1>6. Online!Settled(v)' <=> Online!Settled(v)
    <2>1. CASE Tail(pending[v]) = <<>>
      BY <1>1, <1>3, <1>4, <1>5, <2>1, Zenon DEF Online!Settled
    <2>2. CASE Tail(pending[v]) # <<>>
      BY <1>1, <1>3, <1>5, <2>2, Zenon DEF Online!Settled
    <2> QED
      BY <2>1, <2>2
  <1> QED
    BY <1>2, <1>6

LEMMA WhoNext ==
    ASSUME LoneInv, WhoIsAccurate, [Next]_vars
    PROVE  WhoIsAccurate'
  <1> SUFFICES ASSUME NoWhoFaults, NEW u \in Users
               PROVE  /\ Online!Settled(u)' =>
                           \E d \in Conns : user'[d] = u /\ pc'[d] \in Looping
                      /\ \A d \in Conns \ overlapped' :
                           user'[d] = u /\ pc'[d] \in Looping => Online!Settled(u)'
    BY Zenon DEF WhoIsAccurate, SessionsOf, NoWhoFaults
  <1> USE DEF LoneInv, TypeInv
  <1>0. /\ Online!Settled(u) => \E d \in Conns : user[d] = u /\ pc[d] \in Looping
        /\ \A d \in Conns \ overlapped :
             user[d] = u /\ pc[d] \in Looping => Online!Settled(u)
    BY Zenon DEF WhoIsAccurate, SessionsOf, NoWhoFaults
  <1>1. ASSUME NEW c \in Conns, Announce(c)
        PROVE  /\ Online!Settled(u)' =>
                    \E d \in Conns : user'[d] = u /\ pc'[d] \in Looping
               /\ \A d \in Conns \ overlapped' :
                    user'[d] = u /\ pc'[d] \in Looping => Online!Settled(u)'
    <2>1. /\ pc' = [pc EXCEPT ![c] = "fetch"] /\ pc[c] = "announce"
          /\ user' = user /\ overlapped' = overlapped
          /\ user[c] \in Users /\ PublishPresence(c, TRUE)
      BY <1>1 DEF Announce, Goto, UserBound
    <2>2. pc'[c] \in Looping /\ \A d \in Conns \ {c} : pc'[d] = pc[d]
      BY <2>1 DEF TypeOK
    <2>3. u = user[c] => Online!Settled(u)'
      BY <2>1, PublishSettles, Zenon
    <2>4. u # user[c] => (Online!Settled(u)' <=> Online!Settled(u))
      BY <2>1, PublishSettles, Zenon
    <2> HIDE DEF Looping
    <2>5. CASE u = user[c]
      BY <2>1, <2>2, <2>3, <2>5, Zenon
    <2>6. CASE u # user[c]
      <3>1. \A d \in Conns : user'[d] = u => d # c /\ user[d] = u /\ pc'[d] = pc[d]
        BY <2>1, <2>2, <2>6, Zenon
      <3>2. \A d \in Conns : user[d] = u => user'[d] = u /\ pc'[d] = pc[d]
        BY <2>1, <2>2, <2>6, Zenon
      <3> QED
        BY <1>0, <2>1, <2>4, <2>6, <3>1, <3>2, Zenon
    <2> QED
      BY <2>5, <2>6
  <1>2. ASSUME NEW c \in Conns, ReadError(c)
        PROVE  /\ Online!Settled(u)' =>
                    \E d \in Conns : user'[d] = u /\ pc'[d] \in Looping
               /\ \A d \in Conns \ overlapped' :
                    user'[d] = u /\ pc'[d] \in Looping => Online!Settled(u)'
    <2>1. /\ pc' = [pc EXCEPT ![c] = "disconnect"] /\ pc[c] = "loop"
          /\ user' = user /\ overlapped' = overlapped
          /\ user[c] \in Users /\ PublishPresence(c, FALSE)
      BY <1>2 DEF ReadError, Goto, UserBound
    <2>2. pc'[c] \notin Looping /\ \A d \in Conns \ {c} : pc'[d] = pc[d]
      BY <2>1 DEF TypeOK
    <2>3. u = user[c] => ~ Online!Settled(u)'
      BY <2>1, PublishSettles, Zenon
    <2>4. u # user[c] => (Online!Settled(u)' <=> Online!Settled(u))
      BY <2>1, PublishSettles, Zenon
    <2>5. \A d \in Conns \ overlapped' :
            user'[d] = user[c] => pc'[d] \notin Looping
      BY <2>1, <2>2 DEF OverlapTracked
    <2> HIDE DEF Looping
    <2>6. CASE u = user[c]
      BY <2>3, <2>5, <2>6, Zenon
    <2>7. CASE u # user[c]
      <3>1. \A d \in Conns : user'[d] = u => d # c /\ user[d] = u /\ pc'[d] = pc[d]
        BY <2>1, <2>2, <2>7, Zenon
      <3>2. \A d \in Conns : user[d] = u => user'[d] = u /\ pc'[d] = pc[d]
        BY <2>1, <2>2, <2>7, Zenon
      <3> QED
        BY <1>0, <2>1, <2>4, <2>7, <3>1, <3>2, Zenon
    <2> QED
      BY <2>6, <2>7
  <1>3. ASSUME NEW v \in Users, DeliverPresence(v)
        PROVE  /\ Online!Settled(u)' =>
                    \E d \in Conns : user'[d] = u /\ pc'[d] \in Looping
               /\ \A d \in Conns \ overlapped' :
                    user'[d] = u /\ pc'[d] \in Looping => Online!Settled(u)'
    <2>1. UNCHANGED <<pc, user, overlapped>>
      BY <1>3 DEF DeliverPresence, gatewayVars
    <2>2. Online!Settled(u)' <=> Online!Settled(u)
      BY <1>3, DeliverKeepsSettled
    <2> QED
      BY <1>0, <2>1, <2>2, Zenon
  <1>4. CASE WhoFrame
    <2>1. Online!Settled(u)' <=> Online!Settled(u)
      BY <1>4, Zenon DEF WhoFrame, Online!Settled
    <2> HIDE DEF Looping
    <2> QED
      BY <1>0, <1>4, <2>1, Zenon DEF WhoFrame
  <1> QED
    BY <1>1, <1>2, <1>3, <1>4, WhoFrames

\* While nothing fails but the database or the auth service, /who settles on
\* the truth: on nobody without an announced session, and on everybody with one
\* that has met no other of its user, in whatever order sessions come and go
\* and events are delivered.
THEOREM WhoAccurate == Spec => []WhoIsAccurate
  <1>1. Init => WhoIsAccurate
    BY DEF Init, Online!Init, Online!Settled, WhoIsAccurate, SessionsOf
  <1> QED
    BY <1>1, WhoNext, LoneAlways, PTL DEF Spec
------------------------------------------------------------------------------
(***************************************************************************)
(* The router within the gateway: the handlers call it as MessageRouter    *)
(* allows, so what is proved of the router alone holds here.               *)
(***************************************************************************)
RouterP == INSTANCE MessageRouterProofs

\* The end of the process, and with it of its tables.
RouterReset ==
    /\ rooms' = {}
    /\ members' = [r \in Rooms |-> Router!NoMembers]
    /\ users' = Router!NoMembers

LEMMA RouterCalls ==
    ASSUME TypeInv, [Next]_vars
    PROVE  [RouterP!Next]_RouterP!vars \/ RouterReset
  <1> USE DEF RouterP!vars
  <1>1. ASSUME NEW c \in Conns, NEW a, NEW b, RouterJoin(c, a, b), pc[c] \in Present,
               user[c] \in Users
        PROVE  [RouterP!Next]_RouterP!vars
    BY <1>1 DEF RouterJoin, TypeInv, TypeOK, Router!JoinRoom, Router!JoinRoomFails,
       Router!vars, RouterP!Next, RouterP!JoinRoom, RouterP!JoinRoomFails
  <1>2. ASSUME NEW c \in Conns, EnterRouter(c) \/ JoinRouter(c) \/ LeaveRouter(c)
        PROVE  [RouterP!Next]_RouterP!vars
    <2>1. pc[c] \in Present /\ user[c] \in Users
      BY <1>2 DEF EnterRouter, JoinRouter, LeaveRouter, RouterJoin, Goto, TypeInv,
         UserBound
    <2> QED
      BY <1>1, <1>2, <2>1 DEF EnterRouter, JoinRouter, LeaveRouter
  <1>3. ASSUME NEW c \in Conns, Disconnect(c)
        PROVE  [RouterP!Next]_RouterP!vars
    <2>1. user[c] \in Users
      BY <1>3 DEF Disconnect, Goto, TypeInv, UserBound
    <2> QED
      BY <1>3, <2>1 DEF Disconnect, Router!Disconnect, Router!NoMembers,
         RouterP!Next, RouterP!Disconnect, RouterP!NoMembers
  <1>4. ASSUME NEW c \in Conns, HandlerStep(c)
        PROVE  [RouterP!Next]_RouterP!vars
    BY <1>2, <1>3, <1>4
    DEF HandlerStep, RegisterAnswers, RegisterLost, Admit, AuthReadError,
       AddPresence, EnterStore, Announce, Fetch, Pass, JoinStore, LeaveStore,
       StoreJoin, Persist, ReadError, RemovePresence, Deregister
  <1>5. ASSUME NEW c \in Conns, ClientStep(c)
        PROVE  UNCHANGED RouterP!vars
    BY <1>5 DEF ClientStep, Accept, HangUp, Register, Login, Admit,
       Join, Leave, StoreLeave, Send, Pass
  <1>6. ASSUME NEW how, Terminate(how)
        PROVE  RouterReset
    BY <1>6 DEF Terminate, RouterReset
  <1>7. CASE \/ \E u \in Users : DeliverPresence(u)
             \/ Start \/ RestartMessaging \/ RestartPresence \/ UNCHANGED vars
    BY <1>7 DEF DeliverPresence, Start, RestartMessaging, RestartPresence,
       gatewayVars, vars
  <1> QED
    BY <1>4, <1>5, <1>6, <1>7 DEF Next, Panic, Stop

LEMMA RouterTables == Spec => []RouterP!IInv
  <1>1. Init => RouterP!IInv
    <2>1. Init => RouterP!Init
      BY DEF Init, Router!Init, Router!NoMembers, RouterP!Init, RouterP!NoMembers
    <2> QED
      BY <2>1, RouterP!InitInv, ConnsAssumption
  <1>2. TypeInv /\ RouterP!IInv /\ [Next]_vars => RouterP!IInv'
    <2>1. RouterReset => RouterP!IInv'
      BY ConnsAssumption
      DEF RouterReset, Router!NoMembers, RouterP!IInv, RouterP!TypeOK,
          RouterP!NoGhostRooms, RouterP!MembersAreRoutable,
          RouterP!ListRoomMembers
    <2> QED
      BY <2>1, RouterCalls, RouterP!NextInv, ConnsAssumption
  <1> QED
    BY <1>1, <1>2, TypeAlways, PTL DEF Spec

\* The gateway's handlers, whatever fails, leave no ghost room in the router and
\* no member that SendTo cannot reach (messaging.go:130).
THEOREM RouterTidy ==
    Spec => []Router!NoGhostRooms /\ []Router!MembersAreRoutable
  <1>1. RouterP!IInv => Router!NoGhostRooms /\ Router!MembersAreRoutable
    BY DEF RouterP!IInv, RouterP!NoGhostRooms, RouterP!MembersAreRoutable,
       RouterP!ListRoomMembers, Router!NoGhostRooms, Router!MembersAreRoutable,
       Router!ListRoomMembers
  <1> QED
    BY <1>1, RouterTables, PTL

\* Whatever the handlers do and whichever of them fail, the router they share is
\* used as MessageRouter has it, one method per step under its mutex, until the
\* process ends and its tables with it.
THEOREM UsesRouter == Spec => [][Router!Next \/ RouterReset]_router
  <1>1. RouterP!Next => Router!Next
    BY DEF RouterP!Next, RouterP!JoinRoom, RouterP!JoinRoomFails, RouterP!vars,
       RouterP!LeaveRoom, RouterP!Disconnect, RouterP!NoMembers, Router!Next,
       Router!JoinRoom, Router!JoinRoomFails, Router!vars, Router!LeaveRoom,
       Router!Disconnect, Router!NoMembers
  <1>2. UNCHANGED RouterP!vars => UNCHANGED router
    BY DEF RouterP!vars
  <1>3. TypeInv /\ [Next]_vars => [Router!Next \/ RouterReset]_router
    BY <1>1, <1>2, RouterCalls
  <1> QED
    BY <1>3, TypeAlways, PTL DEF Spec
------------------------------------------------------------------------------
(***************************************************************************)
(* The messaging service's room store, under every set of faults.          *)
(***************************************************************************)

\* The store has an entry for the rooms somebody is in and for no other.
EntriesHaveMembers == \A r \in Rooms : r \in storeRooms <=> storeMembers[r] # {}

LEMMA StoreCalls ==
    ASSUME TypeInv, [Next]_vars
    PROVE  /\ accounts \subseteq Users
           /\ \/ UNCHANGED store \/ Store!Restart
              \/ \E r \in Rooms, u \in accounts :
                    Store!JoinRoom(r, u) \/ Store!LeaveRoom(r, u)
  <1> DEFINE Called ==
        \/ UNCHANGED store \/ Store!Restart
        \/ \E r \in Rooms, u \in accounts :
              Store!JoinRoom(r, u) \/ Store!LeaveRoom(r, u)
  <1> USE DEF TypeInv, TypeOK, UserBound
  <1>1. ASSUME NEW c \in Conns, StoringStep(c)
        PROVE  Called
    <2>1. user[c] \in accounts /\ goal[c] \in Rooms
      BY <1>1 DEF StoringStep, EnterStore, JoinStore, LeaveStore, StoreJoin, Goto
    <2>2. Store!JoinRoom(goal[c], user[c]) \/ UNCHANGED store
      BY <1>1 DEF StoringStep, EnterStore, JoinStore, LeaveStore, StoreJoin,
         Store!JoinRoomFails
    <2> QED
      BY <2>1, <2>2
  <1>2. ASSUME NEW c \in Conns, LeavingStep(c)
        PROVE  Called
    <2>1. user[c] \in accounts /\ currentRoom[c] \in Rooms
      BY <1>2 DEF LeavingStep, Join, Leave, StoreLeave, Goto
    <2>2. Store!LeaveRoom(currentRoom[c], user[c]) \/ UNCHANGED store
      BY <1>2 DEF LeavingStep, Join, Leave, StoreLeave
    <2> QED
      BY <2>1, <2>2
  <1>3. ASSUME NEW c \in Conns, HandlerStep(c), ~StoringStep(c)
        PROVE  Called
    BY <1>3 DEF HandlerStep, StoringStep, RegisterAnswers, RegisterLost, Admit,
       AuthReadError, AddPresence, EnterRouter, JoinRouter, LeaveRouter,
       RouterJoin, Announce, Fetch, Persist, Pass, ReadError, Disconnect,
       RemovePresence, Deregister
  <1>4. ASSUME NEW c \in Conns, ClientStep(c), ~LeavingStep(c)
        PROVE  Called
    BY <1>4 DEF ClientStep, LeavingStep, Accept, HangUp, Register, Login,
       Admit, Send, Pass
  <1>5. ASSUME NEW how, Terminate(how)
        PROVE  Called
    BY <1>5 DEF Terminate
  <1>6. CASE \/ \E u \in Users : DeliverPresence(u)
             \/ Start \/ RestartMessaging \/ RestartPresence \/ UNCHANGED vars
    BY <1>6 DEF DeliverPresence, Start, RestartMessaging, RestartPresence, vars
  <1> QED
    BY <1>1, <1>2, <1>3, <1>4, <1>5, <1>6 DEF Next, Panic, Stop

\* "Clean up empty rooms to avoid accumulating ghost rooms" (room_store.go:97):
\* GetRoomID finds exactly the rooms that list somebody, through failed calls and
\* restarts of either side.
THEOREM StoreTidy == Spec => []EntriesHaveMembers
  <1>1. Init => EntriesHaveMembers
    BY DEF Init, Store!Init, EntriesHaveMembers
  <1>2. TypeInv /\ EntriesHaveMembers /\ [Next]_vars => EntriesHaveMembers'
    <2> SUFFICES ASSUME TypeInv, EntriesHaveMembers, [Next]_vars
                 PROVE  EntriesHaveMembers'
      OBVIOUS
    <2> USE DEF EntriesHaveMembers, TypeInv, TypeOK
    <2>1. ASSUME NEW r \in Rooms, NEW u \in Users, Store!JoinRoom(r, u)
          PROVE  EntriesHaveMembers'
      BY <2>1 DEF Store!JoinRoom
    <2>2. ASSUME NEW r \in Rooms, NEW u \in Users, Store!LeaveRoom(r, u)
          PROVE  EntriesHaveMembers'
      BY <2>2 DEF Store!LeaveRoom
    <2>3. CASE Store!Restart
      BY <2>3 DEF Store!Restart
    <2> QED
      BY <2>1, <2>2, <2>3, StoreCalls
  <1> QED
    BY <1>1, <1>2, TypeAlways, PTL DEF Spec

\* The gateway, whatever fails, uses the room store as RoomStore has it: one
\* method per step, for the name of an account, or a restart.
THEOREM UsesStore ==
    Spec => [][\/ Store!Restart
               \/ \E r \in Rooms, u \in accounts :
                     Store!JoinRoom(r, u) \/ Store!LeaveRoom(r, u)]_store
  <1>1. TypeInv /\ [Next]_vars =>
          [\/ Store!Restart
           \/ \E r \in Rooms, u \in accounts :
                 Store!JoinRoom(r, u) \/ Store!LeaveRoom(r, u)]_store
    BY StoreCalls
  <1> QED
    BY <1>1, TypeAlways, PTL DEF Spec
------------------------------------------------------------------------------
(***************************************************************************)
(* What the services are told.                                             *)
(***************************************************************************)

\* What a step does to the presence service and its events: publish an event of
\* a session under way, deliver one, lose some.
LEMMA ServiceCalls ==
    ASSUME TypeInv, [Next]_vars
    PROVE  /\ accounts \subseteq accounts'
           /\ \/ UNCHANGED service
              \/ \E u \in accounts, b \in BOOLEAN :
                   Online!Publish(u, b) /\ UNCHANGED online /\ SessionsOf(u) # {}
              \/ \E u \in Users : Online!Deliver(u)
              \/ Online!Restart
              \/ Online!LoseNewest /\ UNCHANGED online
  <1> DEFINE Told ==
        \/ UNCHANGED service
        \/ \E u \in accounts, b \in BOOLEAN :
             Online!Publish(u, b) /\ UNCHANGED online /\ SessionsOf(u) # {}
        \/ \E u \in Users : Online!Deliver(u)
        \/ Online!Restart
        \/ Online!LoseNewest /\ UNCHANGED online
  <1>1. ASSUME NEW c \in Conns, pc[c] \in Routed, NEW b \in BOOLEAN,
               PublishPresence(c, b)
        PROVE  Told
    <2>1. user[c] \in accounts /\ c \in SessionsOf(user[c])
      BY <1>1 DEF TypeInv, UserBound, SessionsOf
    <2>2. UNCHANGED service \/ (Online!Publish(user[c], b) /\ UNCHANGED online)
      BY <1>1 DEF PublishPresence
    <2> QED
      BY <2>1, <2>2, Zenon
  <1>2. ASSUME NEW c \in Conns, HandlerStep(c)
        PROVE  accounts' = accounts /\ Told
    <2>1. CASE Announce(c)
      <3>1. pc[c] \in Routed /\ PublishPresence(c, TRUE) /\ accounts' = accounts
        BY <2>1 DEF Announce, Goto
      <3> QED
        BY <1>1, <3>1
    <2>2. CASE ReadError(c)
      <3>1. pc[c] \in Routed /\ PublishPresence(c, FALSE) /\ accounts' = accounts
        BY <2>2 DEF ReadError, Goto
      <3> QED
        BY <1>1, <3>1
    <2>3. CASE ~Announce(c) /\ ~ReadError(c)
      BY <1>2, <2>3 DEF HandlerStep, RegisterAnswers, RegisterLost, Admit,
         AuthReadError, AddPresence, EnterStore, JoinStore, LeaveStore, StoreJoin,
         EnterRouter, JoinRouter, LeaveRouter, RouterJoin, Fetch, Persist, Pass,
         Disconnect, RemovePresence, Deregister
    <2> QED
      BY <2>1, <2>2, <2>3
  <1>3. ASSUME NEW c \in Conns, ClientStep(c)
        PROVE  accounts \subseteq accounts' /\ UNCHANGED service
    BY <1>3 DEF ClientStep, Accept, HangUp, Register, Login, Admit,
       Join, Leave, StoreLeave, Send, Pass
  <1>4. ASSUME NEW how, Terminate(how)
        PROVE  accounts' = accounts /\ Told
    BY <1>4 DEF Terminate
  <1>5. ASSUME NEW u \in Users, DeliverPresence(u)
        PROVE  accounts' = accounts /\ Told
    BY <1>5 DEF DeliverPresence
  <1>6. CASE Start \/ RestartMessaging \/ RestartPresence \/ UNCHANGED vars
    BY <1>6 DEF Start, RestartMessaging, RestartPresence, vars
  <1> QED
    BY <1>2, <1>3, <1>4, <1>5, <1>6 DEF Next, Panic, Stop

\* The services know of nobody but the users who have registered.
ServicesKnowAccounts ==
    /\ \A r \in Rooms : storeMembers[r] \subseteq accounts
    /\ online \subseteq accounts
    /\ \A u \in Users : pending[u] # <<>> => u \in accounts

LEMMA NoneLeft ==
    ASSUME NEW q \in Online!Prefixes(<<>>)
    PROVE  q = <<>>
  BY DEF Online!Prefixes

LEMMA KnownNext ==
    ASSUME TypeInv, ServicesKnowAccounts, [Next]_vars
    PROVE  ServicesKnowAccounts'
  <1> USE DEF ServicesKnowAccounts
  <1>1. accounts \subseteq accounts'
    BY ServiceCalls
  <1>2. \A r \in Rooms : storeMembers'[r] \subseteq accounts'
    <2>1. ASSUME NEW r \in Rooms, NEW u \in accounts,
                 Store!JoinRoom(r, u) \/ Store!LeaveRoom(r, u)
          PROVE  \A s \in Rooms : storeMembers'[s] \subseteq storeMembers[s] \cup {u}
      BY <2>1 DEF Store!JoinRoom, Store!LeaveRoom, TypeInv, TypeOK
    <2>2. CASE Store!Restart
      BY <2>2 DEF Store!Restart
    <2>3. CASE UNCHANGED store
      BY <1>1, <2>3
    <2> QED
      BY <1>1, <2>1, <2>2, <2>3, StoreCalls
  <1>3. online' \subseteq accounts' /\ \A u \in Users : pending'[u] # <<>> => u \in accounts'
    <2>1. CASE UNCHANGED service
      BY <1>1, <2>1
    <2>2. ASSUME NEW u \in accounts, NEW b \in BOOLEAN, Online!Publish(u, b),
                 UNCHANGED online
          PROVE  \A v \in Users : pending'[v] # <<>> => v \in accounts
      BY <2>2 DEF Online!Publish, TypeInv, TypeOK
    <2>3. ASSUME NEW u \in Users, Online!Deliver(u)
          PROVE  /\ online' \subseteq accounts
                 /\ \A v \in Users : pending'[v] # <<>> => v \in accounts
      <3>1. u \in accounts /\ online' \subseteq online \cup {u}
        BY <2>3 DEF Online!Deliver
      <3>2. \A v \in Users : v # u => pending'[v] = pending[v]
        BY <2>3, Zenon DEF Online!Deliver, TypeInv, TypeOK
      <3> QED
        BY <3>1, <3>2, Zenon
    <2>4. CASE Online!Restart
      BY <2>4 DEF Online!Restart
    <2>5. CASE Online!LoseNewest /\ UNCHANGED online
      <3>1. \A u \in Users : pending[u] = <<>> => pending'[u] = <<>>
        BY <2>5, NoneLeft, Zenon DEF Online!LoseNewest
      <3> QED
        BY <1>1, <2>5, <3>1, Zenon
    <2> QED
      BY <1>1, <2>1, <2>2, <2>3, <2>4, <2>5, ServiceCalls, Zenon
  <1> QED
    BY <1>2, <1>3, Zenon

\* A handler that ends leaves its room in the messaging service (main.go:575
\* only disconnects from the router): the entries that pile up are names of
\* accounts, and so is everybody /who ever shows.
THEOREM OnlyAccountsPileUp == Spec => []ServicesKnowAccounts
  <1>1. Init => ServicesKnowAccounts
    BY DEF Init, Store!Init, Online!Init, ServicesKnowAccounts
  <1>2. TypeInv /\ ServicesKnowAccounts /\ [Next]_vars => ServicesKnowAccounts'
    BY KnownNext
  <1> QED
    BY <1>1, <1>2, TypeAlways, PTL DEF Spec
------------------------------------------------------------------------------
(***************************************************************************)
(* How /who comes to forget.                                               *)
(***************************************************************************)

\* A user without a session and without an event under way is off /who.
SilentMeansOff ==
    NoWhoFaults =>
        \A u \in Users : SessionsOf(u) = {} /\ pending[u] = <<>> => u \notin online

\* Without a session of u the events of u only get fewer, and each delivery
\* takes one: with the fairness of DeliverPresence this is why WhoForgets holds.
EventsRunOut ==
    [][\A u \in Users :
        /\ DeliverPresence(u) => Len(pending'[u]) < Len(pending[u])
        /\ SessionsOf(u) = {} => Len(pending'[u]) <= Len(pending[u])]_vars

LEMMA DeliveryShortens ==
    ASSUME TypeInv, NEW u \in Users, Online!Deliver(u)
    PROVE  /\ Len(pending'[u]) < Len(pending[u])
           /\ \A v \in Users : v # u => pending'[v] = pending[v]
  <1>1. pending[u] \in Seq(BOOLEAN) /\ pending[u] # <<>>
    BY Zenon DEF Online!Deliver, TypeInv, TypeOK
  <1>2. pending'[u] = Tail(pending[u]) /\ \A v \in Users : v # u => pending'[v] = pending[v]
    BY Zenon DEF Online!Deliver, TypeInv, TypeOK
  <1>3. ASSUME NEW q \in Seq(BOOLEAN), q # <<>>
        PROVE  Len(Tail(q)) < Len(q)
    BY <1>3
  <1> QED
    BY <1>1, <1>2, <1>3, Zenon

LEMMA PrefixShorter ==
    ASSUME NEW q \in Seq(BOOLEAN), NEW p \in Online!Prefixes(q)
    PROVE  Len(p) <= Len(q)
  BY DEF Online!Prefixes

LEMMA RunOutStep ==
    ASSUME TypeInv, [Next]_vars, NEW u \in Users
    PROVE  /\ DeliverPresence(u) => Len(pending'[u]) < Len(pending[u])
           /\ SessionsOf(u) = {} => Len(pending'[u]) <= Len(pending[u])
  <1>0. pending[u] \in Seq(BOOLEAN) /\ Len(pending[u]) \in Nat
    BY DEF TypeInv, TypeOK
  <1>1. \A n \in Nat : n <= n
    OBVIOUS
  <1>2. DeliverPresence(u) => Len(pending'[u]) < Len(pending[u])
    BY DeliveryShortens DEF DeliverPresence
  <1>3. ASSUME SessionsOf(u) = {}
        PROVE  Len(pending'[u]) <= Len(pending[u])
    <2>1. CASE pending'[u] = pending[u]
      BY <1>0, <1>1, <2>1, Zenon
    <2>2. CASE UNCHANGED service
      BY <2>1, <2>2
    <2>3. ASSUME NEW v \in accounts, NEW b \in BOOLEAN, Online!Publish(v, b),
                 SessionsOf(v) # {}
          PROVE  pending'[u] = pending[u]
      <3>1. u # v
        BY <1>3, <2>3
      <3> QED
        BY <2>3, <3>1, Zenon DEF Online!Publish, TypeInv, TypeOK
    <2>4. ASSUME NEW v \in Users, Online!Deliver(v)
          PROVE  pending'[u] = pending[u] \/ Len(pending'[u]) < Len(pending[u])
      BY <2>4, DeliveryShortens, Zenon
    <2>5. Len(pending'[u]) < Len(pending[u]) => Len(pending'[u]) <= Len(pending[u])
      <3>1. pending'[u] \in Seq(BOOLEAN)
        BY TypeNext DEF TypeInv, TypeOK
      <3>2. Len(pending'[u]) \in Nat
        BY <3>1
      <3> QED
        BY <1>0, <3>2
    <2>6. CASE Online!Restart
      <3>1. pending'[u] = <<>>
        BY <2>6 DEF Online!Restart
      <3>2. Len(<<>>) = 0 /\ \A n \in Nat : 0 <= n
        OBVIOUS
      <3> QED
        BY <1>0, <3>1, <3>2, Zenon
    <2>7. CASE Online!LoseNewest
      <3>1. pending'[u] \in Online!Prefixes(pending[u])
        BY <2>7 DEF Online!LoseNewest
      <3> QED
        BY <1>0, <3>1, PrefixShorter
    <2> QED
      BY <2>1, <2>2, <2>3, <2>4, <2>5, <2>6, <2>7, ServiceCalls, Zenon
  <1> QED
    BY <1>2, <1>3

\* Once the sessions of a user are over, its events run out, and then /who does
\* not show it.
THEOREM WhoRunsOut == Spec => []SilentMeansOff /\ EventsRunOut
  <1>1. WhoIsAccurate => SilentMeansOff
    <2>1. ASSUME WhoIsAccurate, NoWhoFaults, NEW u \in Users, SessionsOf(u) = {},
                 pending[u] = <<>>
          PROVE  u \notin online
      <3>1. ~Online!Settled(u)
        BY <2>1, Zenon DEF WhoIsAccurate, NoWhoFaults
      <3> QED
        BY <2>1, <3>1, Zenon DEF Online!Settled
    <2> QED
      BY <2>1, Zenon DEF SilentMeansOff
  <1>2. TypeInv /\ [Next]_vars =>
          [\A u \in Users :
             /\ DeliverPresence(u) => Len(pending'[u]) < Len(pending[u])
             /\ SessionsOf(u) = {} => Len(pending'[u]) <= Len(pending[u])]_vars
    BY RunOutStep
  <1> QED
    BY <1>1, <1>2, WhoAccurate, TypeAlways, PTL DEF Spec, EventsRunOut
------------------------------------------------------------------------------
(***************************************************************************)
(* The end of a session.                                                   *)
(***************************************************************************)

\* GoneIsForgotten, its safety half: at its end a handler has left nothing
\* behind, and before its beginning there is nothing yet.
ClosedIsForgotten ==
    \A c \in Conns : pc[c] \in {"new", "closed"} => Forgotten(c)

\* However a handler got to its end, through whichever failures, no table of
\* the gateway holds its connection any more.
THEOREM NothingLeftBehind == Spec => []ClosedIsForgotten
  <1>1. HandlersBounded /\ RouterHoldsLiveSessions /\ PresenceHoldsLiveSessions
          => ClosedIsForgotten
    BY DEF HandlersBounded, RouterHoldsLiveSessions, PresenceHoldsLiveSessions,
       ClosedIsForgotten, Forgotten
  <1> QED
    BY <1>1, Bounded, RouterSafe, PresenceSafe, PTL

\* How many steps a handler is from its end, at most, with its client gone.
StepsOf == [new |-> 12, registering |-> 11, auth |-> 10, admitted |-> 9, enterStore |-> 8,
            enterRouter |-> 7, announce |-> 6,
            joinStore |-> 7, joinRouter |-> 6, leaveStore |-> 6, leaveRouter |-> 5,
            fetch |-> 5, persist |-> 5, loop |-> 4,
            disconnect |-> 3, absent |-> 2, deregister |-> 1, closed |-> 0]

\* A step moves the handler of c nearer to its end, or leaves it where it is.
NotHeldUp(c) ==
    \/ pc'[c] = "closed"
    \/ c \in gone' /\ pc'[c] = pc[c]
    \/ c \in gone' /\ StepsOf[pc'[c]] < StepsOf[pc[c]]

\* Once a client is gone its handler only gets nearer to its end, by each step of
\* its own, and nobody else's step keeps it: with the fairness of HandlerStep
\* this is why GoneIsForgotten holds.
TeardownDescends ==
    [][\A c \in gone :
        /\ HandlerStep(c) => StepsOf[pc'[c]] < StepsOf[pc[c]]
        /\ NotHeldUp(c)]_vars

LEMMA Ranks ==
    /\ StepsOf["new"] = 12 /\ StepsOf["registering"] = 11
    /\ StepsOf["auth"] = 10 /\ StepsOf["admitted"] = 9
    /\ StepsOf["enterStore"] = 8 /\ StepsOf["enterRouter"] = 7
    /\ StepsOf["announce"] = 6 /\ StepsOf["joinStore"] = 7
    /\ StepsOf["joinRouter"] = 6 /\ StepsOf["leaveStore"] = 6
    /\ StepsOf["leaveRouter"] = 5 /\ StepsOf["fetch"] = 5 /\ StepsOf["persist"] = 5
    /\ StepsOf["loop"] = 4 /\ StepsOf["disconnect"] = 3 /\ StepsOf["absent"] = 2
    /\ StepsOf["deregister"] = 1 /\ StepsOf["closed"] = 0
  BY DEF StepsOf

\* A step of d that goes down goes down for d and leaves the others where they are.
LEMMA Moves ==
    ASSUME TypeInv, NEW d \in Conns, NEW a, NEW b, Goto(d, a, b)
    PROVE  /\ pc[d] = a /\ pc'[d] = b
           /\ \A c \in Conns : c # d => pc'[c] = pc[c]
  BY DEF Goto, TypeInv, TypeOK

LEMMA HandlerDescends ==
    ASSUME TypeInv, NEW d \in Conns, HandlerStep(d)
    PROVE  /\ \A c \in Conns : c # d => pc'[c] = pc[c]
           /\ StepsOf[pc'[d]] < StepsOf[pc[d]]
           /\ \/ pc'[d] \in Open /\ gone' = gone
              \/ pc'[d] = "closed" /\ gone' = gone \ {d}
  <1> USE Moves, Ranks
  <1>1. CASE AuthReadError(d) \/ AddPresence(d)
    BY <1>1 DEF AuthReadError, AddPresence
  <1>9. CASE RegisterAnswers(d) \/ RegisterLost(d)
    BY <1>9 DEF RegisterAnswers, Admit, RegisterLost
  <1>2. CASE Announce(d)
    BY <1>2 DEF Announce
  <1>3. CASE Fetch(d)
    BY <1>3 DEF Fetch, Pass
  <1>4. CASE Persist(d)
    BY <1>4 DEF Persist, Pass
  <1>5. CASE ReadError(d)
    BY <1>5 DEF ReadError
  <1>6. CASE EnterStore(d) \/ JoinStore(d) \/ LeaveStore(d)
    BY <1>6 DEF EnterStore, JoinStore, LeaveStore, StoreJoin
  <1>7. CASE EnterRouter(d) \/ JoinRouter(d) \/ LeaveRouter(d)
    BY <1>7 DEF EnterRouter, JoinRouter, LeaveRouter, RouterJoin
  <1>8. CASE Disconnect(d) \/ RemovePresence(d) \/ Deregister(d)
    BY <1>8 DEF Disconnect, RemovePresence, Deregister
  <1> QED
    BY <1>1, <1>2, <1>3, <1>4, <1>5, <1>6, <1>7, <1>8, <1>9 DEF HandlerStep

\* Only a connection with a handler can be lost.
GoneHasHandler == \A c \in gone : pc[c] \in Open

\* What clients do moves no handler whose client is gone.
LEMMA ClientsHoldNobodyUp ==
    ASSUME TypeInv, GoneHasHandler, NEW d \in Conns, ClientStep(d)
    PROVE  /\ \A c \in gone : c \in gone' /\ pc'[c] = pc[c]
           /\ \A c \in gone' \ gone : pc'[c] \in Open
  <1> gone \subseteq Conns
    BY DEF TypeInv, TypeOK
  <1> USE Moves DEF GoneHasHandler
  <1>1. CASE Accept(d)
    BY <1>1 DEF Accept
  <1>2. CASE HangUp(d)
    BY <1>2 DEF HangUp
  <1>3. ASSUME NEW u \in Users, Login(d, u)
        PROVE  gone' = gone /\ \A c \in gone : pc'[c] = pc[c]
    BY <1>3 DEF Login, Admit
  <1>4. ASSUME NEW u \in Users, Register(d, u)
        PROVE  gone' = gone /\ \A c \in gone : pc'[c] = pc[c]
    BY <1>4 DEF Register
  <1>5. CASE (\E r \in Rooms : Join(d, r)) \/ Leave(d)
    BY <1>5 DEF Join, Leave, StoreLeave
  <1>6. CASE Send(d)
    BY <1>6 DEF Send, Pass
  <1> QED
    BY <1>1, <1>2, <1>3, <1>4, <1>5, <1>6 DEF ClientStep

LEMMA TeardownStep ==
    ASSUME TypeInv, GoneHasHandler, [Next]_vars
    PROVE  /\ GoneHasHandler'
           /\ \A c \in gone : /\ HandlerStep(c) => StepsOf[pc'[c]] < StepsOf[pc[c]]
                            /\ NotHeldUp(c)
  <1> gone \subseteq Conns
    BY DEF TypeInv, TypeOK
  <1>1. \A c \in gone : HandlerStep(c) => StepsOf[pc'[c]] < StepsOf[pc[c]]
    BY HandlerDescends
  <1>2. ASSUME NEW d \in Conns, HandlerStep(d)
        PROVE  GoneHasHandler' /\ \A c \in gone : NotHeldUp(c)
    BY <1>2, HandlerDescends DEF GoneHasHandler, NotHeldUp
  <1>3. ASSUME NEW d \in Conns, ClientStep(d)
        PROVE  GoneHasHandler' /\ \A c \in gone : NotHeldUp(c)
    BY <1>3, ClientsHoldNobodyUp DEF GoneHasHandler, NotHeldUp
  <1>4. ASSUME NEW how, Terminate(how)
        PROVE  GoneHasHandler' /\ \A c \in gone : NotHeldUp(c)
    BY <1>4 DEF Terminate, GoneHasHandler, NotHeldUp
  <1>5. CASE \/ \E u \in Users : DeliverPresence(u)
             \/ Start \/ RestartMessaging \/ RestartPresence \/ UNCHANGED vars
    <2>1. UNCHANGED <<pc, gone>>
      BY <1>5 DEF DeliverPresence, Start, RestartMessaging, RestartPresence,
         gatewayVars, vars
    <2>2. GoneHasHandler' /\ \A c \in gone : NotHeldUp(c)
      BY <2>1 DEF GoneHasHandler, NotHeldUp
    <2> QED
      BY <1>1, <2>2
  <1> QED
    BY <1>1, <1>2, <1>3, <1>4, <1>5 DEF Next, Panic, Stop

\* Whoever takes a step, a handler whose client is gone is not held up by it.
THEOREM Teardown == Spec => TeardownDescends
  <1>1. Init => GoneHasHandler
    BY DEF Init, GoneHasHandler
  <1>2. TypeInv /\ GoneHasHandler /\ [Next]_vars =>
          /\ GoneHasHandler'
          /\ [\A c \in gone :
                /\ HandlerStep(c) => StepsOf[pc'[c]] < StepsOf[pc[c]]
                /\ NotHeldUp(c)]_vars
    BY TeardownStep
  <1> QED
    BY <1>1, <1>2, TypeAlways, PTL DEF Spec, TeardownDescends

\* A connection has a handler only while the process is up: nothing but its own
\* label, its client and the calls it makes is ever in the way of a handler.
HandlersRun == \A c \in Conns : pc[c] \in Open => status = "up"

\* Neither a stop nor a panic (main.go:412) leaves half a handler behind, and a
\* start begins with none.
THEOREM HandlersEndWithProcess == Spec => []HandlersRun
  <1>1. Init => HandlersRun
    BY DEF Init, HandlersRun
  <1>2. TypeInv /\ HandlersRun /\ [Next]_vars => HandlersRun'
    <2> SUFFICES ASSUME TypeInv, HandlersRun, [Next]_vars PROVE HandlersRun'
      OBVIOUS
    <2>1. ASSUME NEW c \in Conns, HandlerStep(c)
          PROVE  status' = "up"
      BY <2>1 DEF HandlerStep, RegisterAnswers, RegisterLost, Admit,
         AuthReadError, AddPresence, EnterStore, JoinStore, LeaveStore, StoreJoin,
         EnterRouter, JoinRouter, LeaveRouter, RouterJoin, Announce, Fetch,
         Persist, Pass, ReadError, Disconnect, RemovePresence, Deregister, Goto
    <2>2. ASSUME NEW c \in Conns, ClientStep(c)
          PROVE  status' = "up"
      BY <2>2 DEF ClientStep, Accept, HangUp, Register, Login, Admit,
         Join, Leave, StoreLeave, Send, Pass, Goto
    <2>3. CASE Start
      BY <2>3 DEF Start, HandlersRun
    <2>4. ASSUME NEW how, Terminate(how)
          PROVE  \A c \in Conns : pc'[c] \notin Open
      BY <2>4 DEF Terminate
    <2>5. CASE \/ \E u \in Users : DeliverPresence(u)
               \/ RestartMessaging \/ RestartPresence \/ UNCHANGED vars
      <3>1. UNCHANGED <<status, pc>>
        BY <2>5 DEF DeliverPresence, RestartMessaging, RestartPresence, gatewayVars,
           vars
      <3> QED
        BY <3>1 DEF HandlersRun
    <2> QED
      BY <2>1, <2>2, <2>3, <2>4, <2>5 DEF Next, Panic, Stop, HandlersRun
  <1> QED
    BY <1>1, <1>2, TypeAlways, PTL DEF Spec
==============================================================================
