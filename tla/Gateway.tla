------------------------------- MODULE Gateway -------------------------------
(***************************************************************************)
(* The gateway process (cmd/server/main.go): the accept loop and one       *)
(* handleConn goroutine per connection, composed with the stores they      *)
(* share and with the messaging and presence services they call.           *)
(*                                                                         *)
(* A handler is a program counter that stops wherever it touches shared    *)
(* state: one label before each mutex-protected call, each gRPC call that  *)
(* changes or needs state, and each read of its connection.  Reading a     *)
(* command is one step with the first such call of its case.  Broadcasts,  *)
(* replies, history, rate-limit refusals, and the user.joined, user.left   *)
(* and message.sent events (nobody subscribes to them) change no state     *)
(* here; a refused /register, /login or connection changes none either.    *)
(* Nor does /refresh: no client has a refresh token that the auth service  *)
(* issued (AuthSessions), and the case ends in sendError.                  *)
(*                                                                         *)
(* Faults names the parties that may fail.  With Faults = {} every call is *)
(* answered and the gateway runs for ever.                                 *)
(***************************************************************************)
EXTENDS Naturals, Sequences, FiniteSets

CONSTANTS Conns,        \* connections that ever reach the listener
          Users,        \* usernames
          Rooms,        \* room names
          DefaultRoom,  \* "general chat"
          MaxConns,     \* the registry's limit
          NoConn, NoUser,
          Faults        \* parties that may fail

ASSUME ConnsAssumption == NoConn \notin Conns
ASSUME UsersAssumption == NoUser \notin Users
ASSUME RoomsAssumption == DefaultRoom \in Rooms
ASSUME MaxConnsAssumption == MaxConns \in Nat
ASSUME FaultsAssumption ==
    Faults \subseteq {"gateway", "messaging", "presence", "nats", "db", "auth"}

VARIABLES
    status,        \* "up", "stopped" (systemctl stop) or "panicked"
    pc,            \* pc[c]: what the handler of c does next
    user,          \* user[c]: handleConn's username
    currentRoom,   \* currentRoom[c]: runCommandLoop's currentRoom
    goal,          \* goal[c]: the room a /join or /leave is on its way to
    gone,          \* connections whose next ReadMessage fails
    registry,      \* server.Registry
    presence,      \* presence.InMemoryPresenceStore
    rooms, members, users,      \* messaging.InMemoryMessageRouter
    storeRooms, storeMembers,   \* the messaging service's room store
    online, pending,            \* the presence service, user.presence events
    accounts,      \* rows of the users table
    overlapped,    \* history: connections whose session met another one of
                   \* the same user
    stray          \* history: connections whose last router.JoinRoom failed

local     == <<user, currentRoom, goal, stray>>
router    == <<rooms, members, users>>
store     == <<storeRooms, storeMembers>>
service   == <<online, pending>>
vars == <<status, pc, local, gone, registry, presence, router, store, service,
          accounts, overlapped>>

Router   == INSTANCE MessageRouter
Store    == INSTANCE RoomStore WITH rooms <- storeRooms, members <- storeMembers
Presence == INSTANCE PresenceStore WITH conns <- presence
Registry == INSTANCE ConnRegistry WITH conns <- registry
Online   == INSTANCE OnlineStore

\* A handler in its command loop, past its first announcement.
Looping == {"fetch", "loop", "joinStore", "joinRouter", "leaveStore",
            "leaveRouter", "persist"}

\* A handler that has put its connection in the router and not yet taken it out.
Routed == Looping \cup {"announce", "disconnect"}

\* A handler that has put its connection in the presence store and not yet
\* taken it out.
Present == Routed \cup {"enterStore", "enterRouter", "absent"}

\* A handler whose user is authenticated.
Session == Present \cup {"admitted"}

\* A handler in runAuthLoop.
Authenticating == {"auth", "registering"}

\* A connection the gateway holds.
Open == Session \cup Authenticating \cup {"deregister"}

Labels == Open \cup {"new", "closed"}

TypeOK ==
    /\ status \in {"up", "stopped", "panicked"}
    /\ pc \in [Conns -> Labels]
    /\ user \in [Conns -> Users \cup {NoUser}]
    /\ currentRoom \in [Conns -> Rooms]
    /\ goal \in [Conns -> Rooms]
    /\ gone \in SUBSET Conns
    /\ registry \in SUBSET Conns
    /\ presence \in [Users -> Conns \cup {NoConn}]
    /\ Router!TypeOK
    /\ storeRooms \in SUBSET Rooms
    /\ storeMembers \in [Rooms -> SUBSET Users]
    /\ online \in SUBSET Users
    /\ pending \in [Users -> Seq(BOOLEAN)]
    /\ accounts \in SUBSET Users
    /\ overlapped \in SUBSET Conns
    /\ stray \in SUBSET Conns

Init ==
    /\ status = "up"
    /\ pc = [c \in Conns |-> "new"]
    /\ user = [c \in Conns |-> NoUser]
    /\ currentRoom = [c \in Conns |-> DefaultRoom]
    /\ goal = [c \in Conns |-> DefaultRoom]
    /\ gone = {}
    /\ Registry!Init
    /\ Presence!Init
    /\ Router!Init
    /\ Store!Init
    /\ Online!Init
    /\ accounts = {}
    /\ overlapped = {}
    /\ stray = {}

\* The handler of c goes from label a to label b.
Goto(c, a, b) ==
    /\ status = "up"
    /\ pc[c] = a
    /\ pc' = [pc EXCEPT ![c] = b]
    /\ UNCHANGED status
------------------------------------------------------------------------------
(***************************************************************************)
(* Connecting and authenticating.                                          *)
(***************************************************************************)

\* The accept loop: registry.Add and the start of handleConn.
Accept(c) ==
    /\ Goto(c, "new", "auth")
    /\ Registry!Add(c)
    /\ UNCHANGED <<local, gone, presence, router, store, service, accounts,
                   overlapped>>

\* The client hangs up, or the connection's deadline passes.
HangUp(c) ==
    /\ status = "up"
    /\ pc[c] \in Open
    /\ c \notin gone
    /\ gone' = gone \cup {c}
    /\ UNCHANGED <<status, pc, local, registry, presence, router, store,
                   service, accounts, overlapped>>

\* The sessions of u under way.
SessionsOf(u) == {c \in Conns : user[c] = u /\ pc[c] \in Session}

\* runAuthLoop returns u to the handler of c.
Admit(c, from, u) ==
    /\ Goto(c, from, "admitted")
    /\ user' = [user EXCEPT ![c] = u]
    /\ overlapped' = IF SessionsOf(u) = {} THEN overlapped
                     ELSE overlapped \cup SessionsOf(u) \cup {c}
    /\ UNCHANGED <<currentRoom, goal, stray, gone, registry, presence, router,
                   store, service, accounts>>

\* /register, a name that is free: the auth service inserts the account.  From
\* here on anybody with the password can log in, while the token is made and
\* the answer is on its way.
Register(c, u) ==
    /\ Goto(c, "auth", "registering")
    /\ c \notin gone
    /\ u \notin accounts
    /\ accounts' = accounts \cup {u}
    /\ user' = [user EXCEPT ![c] = u]
    /\ UNCHANGED <<currentRoom, goal, stray, gone, registry, presence, router,
                   store, service, overlapped>>

\* The answer to a /register admits its user; presenceStore.List is not asked.
RegisterAnswers(c) == Admit(c, "registering", user[c])

\* The first answer to a /register is lost, or its Login fails with the
\* database: the account exists, the two retries of callWithRetry are told that
\* the name is taken, and the loop goes on.
RegisterLost(c) ==
    /\ Faults \cap {"auth", "db"} # {}
    /\ Goto(c, "registering", "auth")
    /\ user' = [user EXCEPT ![c] = NoUser]
    /\ UNCHANGED <<currentRoom, goal, stray, gone, registry, presence, router,
                   store, service, accounts, overlapped>>

\* A /login that does not ask who is logged in already.
LoginUnchecked(c, u) ==
    /\ c \notin gone
    /\ u \in accounts
    /\ Admit(c, "auth", u)

\* /login: the account exists and presenceStore.List does not show it.  The
\* store shows c itself only after AddPresence, a later step.
Login(c, u) ==
    /\ c \notin gone
    /\ u \in accounts
    /\ u \notin Presence!List
    /\ Admit(c, "auth", u)

\* A handleConn that goes on after runAuthLoop has failed.
AuthReadErrorFallsThrough(c) ==
    /\ c \in gone
    /\ Goto(c, "auth", "enterStore")
    /\ UNCHANGED <<local, gone, registry, presence, router, store, service,
                   accounts, overlapped>>

\* A runAuthLoop that goes on reading after an error.
AuthReadErrorIgnored(c) ==
    /\ c \in gone
    /\ Goto(c, "auth", "auth")
    /\ UNCHANGED <<local, gone, registry, presence, router, store, service,
                   accounts, overlapped>>

\* ReadMessage fails in runAuthLoop: handleConn returns before it defers
\* router.Disconnect.
AuthReadError(c) ==
    /\ c \in gone
    /\ Goto(c, "auth", "absent")
    /\ UNCHANGED <<local, gone, registry, presence, router, store, service,
                   accounts, overlapped>>

\* presenceStore.Add, after the handshake
AddPresence(c) ==
    /\ Goto(c, "admitted", "enterStore")
    /\ Presence!Add(user[c], c)
    /\ UNCHANGED <<local, gone, registry, router, store, service, accounts,
                   overlapped>>
------------------------------------------------------------------------------
(***************************************************************************)
(* Rooms.  Both JoinRooms are called and their errors ignored, at entry,   *)
(* by /join and by /leave.                                                 *)
(***************************************************************************)

\* messageClient.JoinRoom(goal): the call may fail, with its service or, for a
\* room that has no entry yet, with the database; the handler goes on.
StoreJoin(c, from, to) ==
    /\ Goto(c, from, to)
    /\ \/ Store!JoinRoom(goal[c], user[c])
       \/ "messaging" \in Faults /\ UNCHANGED store
       \/ "db" \in Faults /\ Store!JoinRoomFails(goal[c])
    /\ UNCHANGED <<local, gone, registry, presence, router, service, accounts,
                   overlapped>>

\* router.JoinRoom(goal) and currentRoom = goal.  For a room that is not active
\* the call may fail with the database, or lose the race to create its row
\* against the messaging service; the latter needs an earlier call to that
\* service to have failed, or it would have made the row before.
RouterJoin(c, from, to) ==
    /\ Goto(c, from, to)
    /\ \/ Router!JoinRoom(goal[c], user[c], c) /\ stray' = stray \ {c}
       \/ /\ Faults \cap {"db", "messaging"} # {}
          /\ Router!JoinRoomFails(goal[c])
          /\ stray' = stray \cup {c}
    /\ currentRoom' = [currentRoom EXCEPT ![c] = goal[c]]
    /\ UNCHANGED <<user, goal, gone, registry, presence, store, service,
                   accounts, overlapped>>

\* messageClient.LeaveRoom(currentRoom), the first call of /join and /leave;
\* it may fail with its service.
StoreLeave(c, to, r) ==
    /\ c \notin gone
    /\ Goto(c, "loop", to)
    /\ goal' = [goal EXCEPT ![c] = r]
    /\ \/ Store!LeaveRoom(currentRoom[c], user[c])
       \/ "messaging" \in Faults /\ UNCHANGED store
    /\ UNCHANGED <<user, currentRoom, stray, gone, registry, presence, router,
                   service, accounts, overlapped>>

EnterStore(c)  == StoreJoin(c, "enterStore", "enterRouter")
EnterRouter(c) == RouterJoin(c, "enterRouter", "announce")

Join(c, r)    == StoreLeave(c, "joinStore", r)
JoinStore(c)  == StoreJoin(c, "joinStore", "joinRouter")

\* A /join that forgets router.JoinRoom.
JoinRouterSkipped(c) ==
    /\ Goto(c, "joinRouter", "fetch")
    /\ currentRoom' = [currentRoom EXCEPT ![c] = goal[c]]
    /\ UNCHANGED <<user, goal, stray, gone, registry, presence, router,
                   store, service, accounts, overlapped>>

JoinRouter(c) == RouterJoin(c, "joinRouter", "fetch")

Leave(c)       == StoreLeave(c, "leaveStore", DefaultRoom)
LeaveStore(c)  == StoreJoin(c, "leaveStore", "leaveRouter")
LeaveRouter(c) == RouterJoin(c, "leaveRouter", "loop")
------------------------------------------------------------------------------
(***************************************************************************)
(* The command loop.                                                       *)
(***************************************************************************)

\* events.Publish of a presence event of c's user; NATS may lose it.
PublishPresence(c, isOnline) ==
    /\ \/ Online!Publish(user[c], isOnline)
       \/ "nats" \in Faults /\ UNCHANGED pending
    /\ UNCHANGED online

\* The end of the entry to the default room: the online event.
Announce(c) ==
    /\ Goto(c, "announce", "fetch")
    /\ PublishPresence(c, TRUE)
    /\ UNCHANGED <<local, gone, registry, presence, router, store, accounts,
                   overlapped>>

\* A step of c's handler that changes nothing but its label.
Pass(c, from, to) ==
    /\ Goto(c, from, to)
    /\ UNCHANGED <<local, gone, registry, presence, router, store, service,
                   accounts, overlapped>>

\* GetRoomID answers, and the history of the room is sent.
Fetch(c) == Pass(c, "fetch", "loop")

\* A message within the rate limit: broadcast to the room ...
Send(c) == c \notin gone /\ Pass(c, "loop", "persist")

\* ... and, when GetRoomID answers, stored under the id it gives.
Persist(c) == Pass(c, "persist", "loop")

\* The process ends: its memory and its connections are gone, and so are the
\* events its NATS client had not flushed.
Terminate(how) ==
    /\ status = "up"
    /\ status' = how
    /\ pc' = [c \in Conns |-> IF pc[c] = "new" THEN "new" ELSE "closed"]
    /\ user' = [c \in Conns |-> NoUser]
    /\ currentRoom' = [c \in Conns |-> DefaultRoom]
    /\ goal' = [c \in Conns |-> DefaultRoom]
    /\ gone' = {}
    /\ registry' = {}
    /\ presence' = Router!NoMembers
    /\ rooms' = {}
    /\ members' = [r \in Rooms |-> Router!NoMembers]
    /\ users' = Router!NoMembers
    /\ Online!LoseNewest
    /\ overlapped' = {}
    /\ stray' = {}
    /\ UNCHANGED <<store, online, accounts>>

\* GetRoomID or ListOnline fails: the nil answer is dereferenced all the same,
\* and a panic in one goroutine ends the process.
Panic(c) ==
    /\ \/ pc[c] \in {"fetch", "persist"} /\ "messaging" \in Faults
       \/ pc[c] = "loop" /\ c \notin gone /\ "presence" \in Faults
    /\ Terminate("panicked")

\* An exit from the loop that forgets the offline event.
ReadErrorSilent(c) == c \in gone /\ Pass(c, "loop", "disconnect")

\* ReadMessage fails in the command loop: break, and the offline event.
ReadError(c) ==
    /\ c \in gone
    /\ Goto(c, "loop", "disconnect")
    /\ PublishPresence(c, FALSE)
    /\ UNCHANGED <<local, gone, registry, presence, router, store, accounts,
                   overlapped>>
------------------------------------------------------------------------------
(***************************************************************************)
(* Teardown: handleConn's deferred calls, the last deferred first.         *)
(***************************************************************************)

\* A Disconnect that is never deferred.
DisconnectSkipped(c) == Pass(c, "disconnect", "absent")

\* router.Disconnect(username)
Disconnect(c) ==
    /\ Goto(c, "disconnect", "absent")
    /\ Router!Disconnect(user[c])
    /\ UNCHANGED <<local, gone, registry, presence, store, service, accounts,
                   overlapped>>

\* presenceStore.Remove(conn)
RemovePresence(c) ==
    /\ Goto(c, "absent", "deregister")
    /\ Presence!Remove(c)
    /\ UNCHANGED <<local, gone, registry, router, store, service, accounts,
                   overlapped>>

\* A handler that ends without giving its slot back.
DeregisterKeepsSlot(c) ==
    /\ Goto(c, "deregister", "closed")
    /\ user' = [user EXCEPT ![c] = NoUser]
    /\ currentRoom' = [currentRoom EXCEPT ![c] = DefaultRoom]
    /\ goal' = [goal EXCEPT ![c] = DefaultRoom]
    /\ gone' = gone \ {c}
    /\ overlapped' = overlapped \ {c}
    /\ stray' = stray \ {c}
    /\ UNCHANGED <<registry, presence, router, store, service, accounts>>

\* registry.Remove(conn) and conn.Close; the goroutine and its locals end.
Deregister(c) ==
    /\ Goto(c, "deregister", "closed")
    /\ Registry!Remove(c)
    /\ user' = [user EXCEPT ![c] = NoUser]
    /\ currentRoom' = [currentRoom EXCEPT ![c] = DefaultRoom]
    /\ goal' = [goal EXCEPT ![c] = DefaultRoom]
    /\ gone' = gone \ {c}
    /\ overlapped' = overlapped \ {c}
    /\ stray' = stray \ {c}
    /\ UNCHANGED <<presence, router, store, service, accounts>>
------------------------------------------------------------------------------
(***************************************************************************)
(* The processes around the handlers.                                      *)
(***************************************************************************)

gatewayVars == <<status, pc, local, gone, registry, presence, router, overlapped>>

\* systemctl stop; the program handles no signal.
Stop == "gateway" \in Faults /\ Terminate("stopped")

\* systemctl start, after a stop or a panic
Start ==
    /\ status # "up"
    /\ status' = "up"
    /\ UNCHANGED <<pc, local, gone, registry, presence, router, store, service,
                   accounts, overlapped>>

\* The messaging service is restarted.
RestartMessaging ==
    /\ "messaging" \in Faults
    /\ Store!Restart
    /\ UNCHANGED <<gatewayVars, service, accounts>>

\* The presence service is restarted.
RestartPresence ==
    /\ "presence" \in Faults
    /\ Online!Restart
    /\ UNCHANGED <<gatewayVars, store, accounts>>

\* The presence service's subscription calls back.
DeliverPresence(u) ==
    /\ Online!Deliver(u)
    /\ UNCHANGED <<gatewayVars, store, accounts>>

\* The steps a handler takes whatever its client does.
HandlerStep(c) ==
    \/ RegisterAnswers(c) \/ RegisterLost(c)
    \/ AuthReadError(c) \/ AddPresence(c)
    \/ EnterStore(c) \/ EnterRouter(c) \/ Announce(c) \/ Fetch(c)
    \/ JoinStore(c) \/ JoinRouter(c)
    \/ LeaveStore(c) \/ LeaveRouter(c)
    \/ Persist(c) \/ ReadError(c)
    \/ Disconnect(c) \/ RemovePresence(c) \/ Deregister(c)

\* The steps a client causes.
ClientStep(c) ==
    \/ Accept(c) \/ HangUp(c)
    \/ \E u \in Users : Register(c, u) \/ Login(c, u)
    \/ \E r \in Rooms : Join(c, r)
    \/ Leave(c) \/ Send(c)

Next ==
    \/ \E c \in Conns : HandlerStep(c) \/ ClientStep(c) \/ Panic(c)
    \/ \E u \in Users : DeliverPresence(u)
    \/ Stop \/ Start
    \/ RestartMessaging \/ RestartPresence

Spec == Init /\ [][Next]_vars

(***************************************************************************)
(* Fairness.  The Go scheduler runs every goroutine, a gRPC call is        *)
(* answered or fails, and NATS delivers: each handler step and each        *)
(* delivery is weakly fair.  handleConn's first SetDeadline is never       *)
(* extended by runAuthLoop, so a connection that waits for its next        *)
(* command is lost in the end.  Nothing makes a client speak, and past     *)
(* authentication nothing makes it stop.                                   *)
(***************************************************************************)
AuthDeadline(c) == pc[c] = "auth" /\ HangUp(c)

Fairness ==
    /\ \A c \in Conns : WF_vars(HandlerStep(c)) /\ WF_vars(AuthDeadline(c))
    /\ \A u \in Users : WF_vars(DeliverPresence(u))

FairSpec == Spec /\ Fairness
------------------------------------------------------------------------------
(***************************************************************************)
(* Safety.                                                                 *)
(***************************************************************************)

\* The registry counts the connections that have a handler, whatever path each
\* handler took out, and never more than MaxConns (registry.go:33): a slot is
\* neither leaked nor handed out twice.
HandlersBounded ==
    /\ registry = {c \in Conns : pc[c] \in Open}
    /\ Cardinality(registry) <= MaxConns

\* Whatever the router writes to is the connection of a live handler of that
\* very user: no broadcast or direct message goes to a connection that is being
\* torn down or has been closed, or to somebody else's, even when two sessions
\* of one user overlap and one of them disconnects.
RouterHoldsLiveSessions ==
    \A u \in Users, c \in Conns :
        (users[u] = c \/ \E r \in Rooms : members[r][u] = c)
            => user[c] = u /\ pc[c] \in Routed

\* The presence store, which /login trusts, shows only connections whose
\* handler is live: no teardown leaves an account locked out.
PresenceHoldsLiveSessions ==
    \A u \in Users, c \in Conns :
        presence[u] = c => user[c] = u /\ pc[c] \in Present

\* Two sessions of one user have both been marked.
OverlapTracked ==
    \A c, d \in Conns :
        /\ c # d /\ user[c] = user[d]
        /\ pc[c] \in Session /\ pc[d] \in Session
        /\ user[c] \in Users
        => c \in overlapped /\ d \in overlapped

\* A session that has met no other of its user is in the presence store from
\* its Add to its Remove: nobody else can log in as its user.
LoneSessionIsPresent ==
    \A c \in Conns \ overlapped :
        pc[c] \in Present /\ user[c] \in Users => presence[user[c]] = c

\* A session that has met no other of its user, in its command loop, is a
\* member of its current room: what is said there reaches it, its own messages
\* too, and BroadcastRoom never tells it "you must be in a room".  A JoinRoom
\* that fails, whose error is ignored (main.go:390, 465, 513), breaks this for
\* its own handler only, and only until that handler's next JoinRoom succeeds.
LoneSessionIsRouted ==
    \A c \in Conns \ (overlapped \cup stray) :
        pc[c] \in Routed => members[currentRoom[c]][user[c]] = c

\* A session that has met no other of its user finds an id for its current
\* room when it loads the history and when it stores a message: no other
\* member's leaving takes the room's entry away under it.
LoneSessionHasRoomID ==
    Faults \cap {"db", "messaging"} = {} =>
        \A c \in Conns \ overlapped :
            pc[c] \in {"announce", "fetch", "loop", "persist"} =>
                /\ user[c] \in storeMembers[currentRoom[c]]
                /\ Store!HasRoomID(currentRoom[c])

\* What /who will say once the events under way are delivered: nobody without
\* an announced session, and everybody with one that has met no other of its
\* user.
WhoIsAccurate ==
    Faults \cap {"gateway", "messaging", "presence", "nats"} = {} =>
        \A u \in Users :
            /\ Online!Settled(u) => \E c \in SessionsOf(u) : pc[c] \in Looping
            /\ \A c \in SessionsOf(u) \ overlapped :
                 pc[c] \in Looping => Online!Settled(u)

\* No /login adds a session to a lone one that presenceStore.List shows
\* (main.go:322): two sessions of one user come to meet while both are on the
\* way from authentication to presenceStore.Add, or because the answer to the
\* /register that made the account comes after somebody has logged in with it.
OverlapIsARace ==
    [][\A c \in overlapped' \ overlapped :
          \/ pc[c] \in {"auth", "admitted"}
          \/ \E d \in Conns : /\ user[d] = user[c]
                             /\ pc[d] = "registering" /\ pc'[d] = "admitted"]_vars
------------------------------------------------------------------------------
(***************************************************************************)
(* Liveness.                                                               *)
(***************************************************************************)

Forgotten(c) ==
    /\ c \notin registry
    /\ \A u \in Users : presence[u] # c /\ users[u] # c
    /\ \A r \in Rooms, u \in Users : members[r][u] # c

\* A connection whose client is gone ends up closed and out of the registry,
\* the presence store and the router, wherever its handler was.
GoneIsForgotten ==
    \A c \in Conns : c \in gone ~> pc[c] = "closed" /\ Forgotten(c)

\* Authentication ends: a client that never completes it does not hold its
\* registry slot for ever.
AuthEnds ==
    \A c \in Conns : pc[c] \in Authenticating ~> pc[c] \notin Authenticating

\* A user all of whose sessions are over for good ends up off /who.
WhoForgets ==
    \A u \in Users : <>[](SessionsOf(u) = {}) => <>[](u \notin online)
------------------------------------------------------------------------------
(***************************************************************************)
(* What the repository says of the program and the program does not do.    *)
(***************************************************************************)

\* "/leave Leave current room" (README.md:98) and "Join a room": a user in the
\* command loop is a member of the current room and of no other.
LeftRoomIsLeft ==
    \A c \in Conns, r \in Rooms :
        pc[c] = "loop" /\ members[r][user[c]] = c => r = currentRoom[c]

\* "handleConn manages the full lifecycle of a single client connection. It runs
\* in its own goroutine for each connected client" (cmd/server/main.go:180), and
\* slog.Warn is its answer to a failed call: such a call does not end the
\* process.
NoPanic == status # "panicked"
==============================================================================
