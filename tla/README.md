# relay-go: TLA+ models, checks and proofs

relay-go is a chat server over raw TCP. A *gateway* (`cmd/server`) accepts
clients and runs one goroutine per connection; it calls three gRPC services
(auth, messaging, presence), publishes events through NATS and keeps messages
in PostgreSQL. These modules model the state the goroutines and processes share
and the order in which they touch it.

## Inventory

| component | state | operations | what makes it correct |
|---|---|---|---|
| gateway handlers, `cmd/server/main.go` | per connection: username, current room; shared: the four tables below | accept, /register, /login, /refresh, enter, /join, /leave, /who, message, teardown | the tables agree with the live handlers at every step; every lost connection is torn down completely |
| connection registry, `internal/server` | set of connections | Add, Remove | bounded; no slot leaked |
| presence store, `internal/presence/presence.go` | username -> connection | Add, Remove, List | shows live sessions only; a session alone in its account stays shown |
| message router, `internal/messaging/messaging.go` | rooms -> members -> connection; username -> connection | JoinRoom, LeaveRoom, Disconnect, BroadcastRoom, SendTo | no ghost rooms; only live connections of that user; members are reachable |
| messaging service, `internal/messaging/room_store.go` | rooms -> usernames | JoinRoom, LeaveRoom, GetRoomID | an id for every room in use; no ghost rooms |
| presence service, `internal/presence/online_store.go` | set of usernames | SetOnline from `user.presence` events, ListOnline | /who settles on the users who have a session |
| auth service, `internal/auth/service.go` | users table; refresh token -> username | Register, Login, Validate, Refresh | one live token per login, never accepted twice |
| auth calls, `callWithRetry`, `cmd/auth-service/server.go` | attempt | retry of any failed call | retrying what was already done takes over nothing; calls end |
| terminal client, `cmd/client/main.go` | credentials | handshake, session, reconnect, silent auth | credentials that still work after a disconnect |
| rate limiters, `internal/ratelimit` | per host: timestamps; per user: tokens, last refill | Allow | no interval has more than the limit allows; nobody is refused who has not used it up |
| framing, `internal/protocol` | bytes on a connection | ReadMessage, WriteMessage | frames stay whole |
| room directory and history, `internal/repository/{room,message}.go` | rows of rooms and messages, cached ids in two processes | find or create a room, insert and list messages | one id per room for good; what is said is stored, and a joining user misses nothing |
| cleanup worker, `internal/db/cleanup.go` | the same rows | DELETE of old messages | only old messages go |

Interaction: a handler calls the registry, presence store and router under
their own mutexes, one at a time; it calls the messaging service before the
router on every entry and /join; it publishes `user.presence` when it enters
and when it leaves its command loop, and the presence service applies those
events later. The gateway and the messaging service look rooms up in the same
table. Nothing holds two of these locks at once, so every sequence of calls can
be interleaved with another handler's between any two of them. The router alone
does I/O under its lock: it writes to clients, each frame in two writes, while
handlers write their own replies without it. The hard behaviour is there:
check-then-act across two locks, state kept twice in two processes, teardown by
username when two sessions share one, processes that restart with empty memory
beside others that do not, clients that stop reading while a lock is held, and
a message that is broadcast in one place and stored in another. The list of
hazards, each at its line, is in `PROJECT.json`.

## Modules

| module | models | composed of |
|---|---|---|
| `MessageRouter` | the router's tables; also a specification of its own | |
| `RoomStore`, `PresenceStore`, `ConnRegistry`, `OnlineStore` | the other tables, as actions on their variables | |
| `Gateway` | accept loop, handlers, faults, the services around them | the five above, by INSTANCE |
| `RoomBroadcast` | what BroadcastRoom promises: one step, nobody left out (abstract) | `MessageRouter` |
| `RouterDelivery` | the router at the grain of its mutex and of single writes; implements `RoomBroadcast` | `MessageRouter` |
| `RoomHistory` | one room: its row, its entries in two processes, broadcast, insert, history, cleanup | |
| `AuthService` | accounts and refresh tokens; also a specification of its own | |
| `AuthSteps` | concurrent calls at the grain of database calls and the mutex; implements `AuthService` | `AuthService` |
| `AuthSessions` | client, gateway auth loop, retries and gRPC handlers | `AuthService` |
| `RateLimits` | sliding window and token bucket over a clock | |
| `MC...` | symmetry sets and constants for TLC | |
| `...Proofs` | theorems (see Proofs) | |

**Tables.** A Go map is a function with a null value for absent keys, or a set
of keys. Each method runs under one mutex from its first to its last access and
is one action.

**Gateway.** A handler is a label `pc[c]` that stops before every call that
touches shared state; the labels follow the source from top to bottom:

    new -Accept-> auth -Login-> admitted -AddPresence-> enterStore
        -> enterRouter -> announce -> fetch -> loop
    auth -Register-> registering -RegisterAnswers-> admitted
                                 -RegisterLost-> auth
    loop -/join->  joinStore  -> joinRouter  -> fetch -> loop
    loop -/leave-> leaveStore -> leaveRouter -> loop
    loop -message-> persist -> loop
    loop -read error-> disconnect -> absent -> deregister -> closed
    auth -read error-> absent

`gone` holds the connections whose next read fails, because the client hung up
or a deadline passed. The client may be lost at any label; the handler notices
at its next read. Replies, broadcasts, history, rate-limit refusals and events
without a subscriber change no state and are part of the step they follow; a
step that is refused (a wrong password, a full server) changes nothing and is
no step. No client has a refresh token that the auth service issued (see
Findings; the theorem `RefreshRefused`), so /refresh ends in an error and is no
step either. Register inserts the account in one step and admits its handler in
another, when the answer comes; anybody with the password can log in between.
Two history variables, read by no guard, say which sessions a property is about:
`overlapped` has those that met another one of the same user, `stray` those whose
own last router.JoinRoom failed.

`Faults` names the parties that may fail: the gateway is stopped and started
(`scripts/deploy.sh`), the messaging and presence services fail calls and
restart, NATS loses an event, the database fails a room lookup or the second
half of a registration, the answer of the auth service is lost. A nil answer
that the code dereferences is `Panic`, which ends the process. When the gateway
ends, events its NATS client has not flushed are lost.

**Delivery.** `RouterDelivery` gives each handler a label (`loop`, waiting for
the mutex at `call`, `write`) and the frames it has still to write. Methods
that write to nobody take the mutex and give it back in one step; BroadcastRoom
and PrintRooms hold it from `Lock` to `Finish`, and each frame is a header and
a body. The order in which Go ranges over the members is any order. A client
may stop reading (`Stall`): writes to it block until its deadline, after which
they fail (`Expire`). A handler's replies (`Reply`) take no mutex. In
`RoomBroadcast` a broadcast is one step; the refinement mapping leaves out of
the inboxes what the broadcast under way has written so far, so that step is
`Finish`.

**History.** `RoomHistory` follows one room, the default one, which has every
behaviour another room has and one more: /leave comes back to it. Each process's
find-or-create is two steps, find and insert, under that process's own mutex,
and `rooms.name` is unique. A handler joins the messaging service, then the
router, then asks for the id and lists the history; it sends by broadcasting,
asking for the id, taking the time and inserting. A /join or /leave begins with
the messaging service's LeaveRoom (`Leave`, `LeaveFails`) and takes the handler
`away`: into another room, whose tables are not part of the module, or back at
once. `Join` comes back with a view that starts empty and is filled by the
history. `Return` is the end of a /leave (main.go:511-526): both JoinRooms and
no history, so the client has what it had been sent before. A connection may end
in this room or `away` from it; router.Disconnect takes it out of both. `under`
and `expired` are history variables that say which messages a joining handler is
allowed to miss. `stamps` is the order of `created_at`.

**Rate limits.** A call of Allow is one action, as the registry holds its mutex
around it, but it reads the clock twice: `gap` is the time between. Times are
naturals, tokens are counted in units in which the refill is an integer.
`refused`, `muted`, `sent` and `lost` are history variables.

**Auth.** A refresh token is a member of `Tokens` that `rand.Read` returns once.
An access token is one value, `AccessToken`: it only carries a name within one
call, and the client stores it lower-cased as its "refresh token". A call may be
lost before the service acts or after; `callWithRetry` cannot tell. JWT and
bcrypt are ideal. In `AuthSteps` Register is a lookup and an insert, Login a
lookup and a token, Refresh two halves of one critical section; the mapping to
`AuthService` shows the token a Refresh has deleted until the call is over,
as nobody can look in between.

## Runs

| run | shows |
|---|---|
| `gateway_safety` | 3 connections, 2 users, 2 rooms, 2 slots, no faults: all safety properties of the gateway |
| `gateway_faults` | 2 connections, 2 users, all six faults: the tables hold live sessions only, and a lone session is in its room unless its own JoinRoom failed |
| `gateway_liveness` | 2 connections of 1 user, lost answers of the auth service: teardown, end of authentication, /who |
| `router_delivery` | 2 handlers, 1 room, 2 messages, clients that stop reading: order, completeness (refinement of `RoomBroadcast`), torn frames, the router's tables, and every call returns |
| `room_history` | 2 handlers, 3 messages, a history of 2, failures and restarts: one id, what is said is stored, nothing is missed |
| `rate_limits` | 1 host, 1 user, 7 ticks: both limiters from above and below |
| `auth_service` | 3 concurrent calls, 2 users, 4 tokens (refinement of `AuthService`): rotation, single use, failures, restarts |
| `auth_sessions` | 2 clients after each other's names, 3 attempts, every loss: safety and the end of every call |
| `gateway_left_room`, `gateway_panic`, `frames_torn`, `auth_reconnect` | a statement of the repository that the code does not keep (see Findings) |

**Bounds.** Two connections of one user are what every overlap needs; the third
is there for a connection that arrives while one of the first two is torn down,
and to find the server full. Two rooms are the default one and another; joining
the room one is in already is included. Each connection lives once, so the
number of sessions, events and restarts is bounded by `Conns`, without a
constraint on the queues.

In `router_delivery` two handlers are a sender and a receiver, in both
directions at once: each of two messages reaches both, so orders can differ, a
reply can meet a broadcast, and two handlers can block on each other's clients.
Each message is sent once, which bounds the run. Three connections would add
only a third inbox; the theorems cover them. In `room_history` three messages
are one more than a history holds, two handlers race for the row from either
process, and a message can be in flight while the other joins; the room's row
may exist at the start or not. Two ids are enough:
with a third TLC finds the same states. In `rate_limits` the window is 3 ticks for 2
requests and a bucket holds 2 messages that take 2 ticks each to refill: in 7
ticks both fill and empty twice, and readings of the clock fall on each edge.

`Tokens` bounds the logins that succeed: four in the service on its own make two
chains of two, three from end to end let one client log in again beside another.
Three calls are a Refresh in its critical section, another waiting for it, and a
Login; or two Registers of a name and a Login under it. Connections, users,
calls, tokens, handlers, messages and ids are interchangeable, hence the
symmetry, except in the runs of liveness properties and where constants relate
them. The runs of the gateway, the router and the rate limiters do not check
deadlock: when all connections are closed, or the clock has run out, nothing is
left to happen. The other runs do.

**Properties worth a word.** `RouterHoldsLiveSessions` and
`PresenceHoldsLiveSessions` hold for overlapping sessions too: `Disconnect` by
username may take away more than its own routes, never less. The three
`LoneSession...` properties say what a session that never met another one of its
user may rely on, and `OverlapIsARace` how two can meet: a session that /login
could see in the presence store and that has met nobody is never joined by a
/login. The ways left are two. Both sessions are between authentication and
`presenceStore.Add`; or the answer to the /register that made the account comes
late, as /register never reads the presence store, and by then another connection
may have logged in with the password and be anywhere in its command loop.
Together they say how far the check of /login is worth something.

`LoneSessionIsRouted` is claimed whatever fails: both JoinRooms are called with
their errors ignored, and the only handler that is then outside its room is the
one whose own call failed (`stray`), until its next call succeeds.
`LoneSessionHasRoomID` is claimed only without database and messaging failures,
as a restart of the messaging service takes every entry away; `WhoIsAccurate`
only while nobody but the database and the auth service fails. `gateway_faults`
checks the three properties that failures and teardown could break together;
that the others hold for every set of faults, gateway restarts included, is
proved. `gateway_liveness` has one fault only, the lost answer of the auth
service, which adds the way back from `registering` to `auth`; that no fault leads
a handler away from its end is proved for all of them (`Teardown`).

`DeliversToAll` is a refinement: each BroadcastRoom is in effect one step, at the
end of every member's inbox, and leaves out only connections that are dead.
`SameOrder` follows from the same mutex for whole conversations. `CallsReturn`
is the price: the mutex is held while writing to a client that does not read,
and only the deadline frees it. `TornOnlyByOwnReply` says exactly which frames
can be torn, the ones `frames_torn` shows.

`NothingElseIsMissed` lists what a user in the room has not got to see: what was
in flight when it joined, what is older than a full history, what was cleaned up,
and nothing else. It rests on two orders in the code: router before history when
joining, broadcast before insert when sending. For a user who comes back by
/leave it rests on something that looks like a mistake: no history is shown, and
nothing is missed because the router never took the user out when it left
(`LeftRoomIsLeft`) and wrote to it all the time. A router that honoured /leave
would have to show the history too. `SaidIsStored` and `NothingElseIsMissed` are
claimed while nothing has failed, as a message whose sender's process stops
between broadcast and insert is gone; `IdIsStable` always.

`WindowRespected` and `BurstAndRate` bound the limiters from above,
`RefusedMeansFull` and `MutedMeansSpent` from below: a limiter that refused
everybody would break those. The `lost` term of `MutedMeansSpent` is real: the
bucket reads the clock once to refill and again to set `lastRefill`
(token_bucket.go:38 and 43), and the time between is credited to nobody.

**Fairness.** Each handler step is weakly fair: the Go scheduler runs every
goroutine and a gRPC call returns. Deliveries are weakly fair: the subscription
calls back as long as there are messages. `AuthDeadline` is weakly fair because
`SetDeadline` of `handleConn` (main.go:201) is not renewed by `runAuthLoop`. No
step of a client is fair, and no restart is. In `AuthSessions` only the calls
are fair.

In `RouterDelivery` steps that need no other handler are weakly fair. Taking
the mutex is strongly fair: the mutex may be taken by others again and again, but
sync.Mutex hands itself to a waiter that has starved for a millisecond. A
client that has stopped reading runs into its deadline. That is an assumption
about clients as much as about the code: `SetDeadline` of the command loop
(main.go:429) renews the deadline of pending writes as well, so a client that
reads nothing and goes on sending can hold the router's mutex as long as it
likes; `CallsReturn` is claimed for clients that stop both.

## Findings

* `LeftRoomIsLeft` (main.go:467): /join and /leave never call
  `router.LeaveRoom`; the user goes on receiving what is said in the old room.
* `NoPanic` (main.go:412, 474, 536, 553): a failed call's nil answer is
  dereferenced, and the process ends.
* `ReconnectsByToken` (cmd/auth-service/server.go:39): the answer to a login or a
  registration carries the access token and drops the refresh token. The client
  stores it as `RefreshToken`, "used instead of password" to "reconnect without
  prompting the user again" (cmd/client/main.go:45-47), and sends it to /refresh
  after a disconnect. The service has issued no such token and refuses it, so the
  user is prompted after all. `RefreshRefused` proves that this is every reconnect
  of every client.
* `FramesAreWhole` (protocol.go:49): a handler's reply, written without the
  router's mutex, can come between the header and the body of a broadcast to its
  own connection; the client reads the second header as text and loses the
  framing.

Also seen while modelling, without a run of their own:

* Two sessions of one account can be in their command loops at once, though the
  client says "another session is already active for this account"
  (cmd/client/main.go:69): a /login that passes the check (main.go:322) before
  another handler of the account reaches `presenceStore.Add` gets in beside it,
  and so does a late answer to a /register. Many states of `gateway_safety` have
  such sessions; `OverlapIsARace` says how they come about, and what still holds
  of them is in the other properties of that run.
* A handler that ends never calls `messageClient.LeaveRoom` (main.go:575), so
  entries of the room store pile up in spite of its own "Clean up empty rooms"
  (room_store.go:97). They cannot outgrow the accounts (`OnlyAccountsPileUp`).
* The sessions that a stopped gateway drops (deploy.sh:8) stay on /who, as no
  offline event is published for them.
* `created_at` is taken after the broadcast, so the history may list messages of
  two senders in another order than they were seen.
* Neither rate limiter's registry ever drops a key.
* Messages are limited to "10 burst, 2/sec" (README.md:27) where the code has 5
  and 0.5 (main.go:145), and authentication to 30 s (README.md:29) where the code
  has two minutes (main.go:201).

## Proofs

Each theorem holds for every value of the constants under the named ASSUMEs:
null values are no members, the default room is a room, limits are naturals.
`Conns`, `Users`, `Rooms`, `Handlers` and `Messages` may be infinite.

* **Router** (`MessageRouterProofs`: `TypeCorrect`, `NoGhosts`, `Routable`).
  `IInv` is the conjunction of the three: emptiness of a room is a comparison of
  functions, which needs their types.
* **Router, write by write** (`RouterDeliveryProofs`). Every step changes the
  tables as a step of `MessageRouter` does (`TablesStep`), so ghosts and routes
  carry over (`NoGhostsWhileWriting`, `RoutableWhileWriting`) without a second
  proof. `LockInv` says that whoever has the mutex is writing for the router and
  whoever else writes is writing a reply to its own client, which is
  `TornByRepliesOnly`. `BroadcastInv` divides the members of the broadcast under
  way into done, in hand, still to come, and dead; `OrderInv` says that its
  message is the last one of those who are done and of nobody else, hence
  `OneOrder`. With both, `Finish` is a step of `RoomBroadcast` and all other
  writes stutter: `KeepsPromise`, the refinement. `WritesRunOut`: what a call has
  still to write is finite and shrinks with each of its writes.
  `UsesTables` makes `TablesStep` a refinement of its own, `DeliverySpec => Spec`.
  `DeliversToMembersOnly` is the other side of `KeepsPromise`: a message reaches
  nobody but members of its room, and nobody twice. `BlocksOnRunningOnly` and
  `RoutesLeadToHandlers` are one invariant (`TargetsInv`): a route leads to a
  running handler, and a frame is for whoever had a route or for the writer
  itself; a handler that ends waits for the mutex to take its routes with it.
* **Room history** (`RoomHistoryProofs`: `TypeCorrect`, `StableId`,
  `RouterFinds`, `SaidStored`, `NothingMissed`). `IdIsStable` is nearly
  inductive: `row` is set once and entries are copied from it. `StoreFirst` says
  that while nothing has failed the messaging service has the row, and an entry
  for every handler that is past it: so the router finds the row, and an insert
  always has an id. `NothingMissed` is about messages one by one: each has one
  place in the order of `created_at` (`StampedOnce`), and what was said before a
  handler was routed is stored, in flight or gone by the time it lists
  (`CaughtUp`). A handler that is away, or returning from there, has no history
  to come that would make up for anything, so the statement is carried through
  all of that (`FollowersMissNothingElse`): while nothing fails it is in the
  router from its first JoinRoom to its Disconnect, and each broadcast reaches
  it. That a history which leaves something out holds exactly `HistoryLimit`
  messages is counted without induction: how many are newer numbers the stored
  messages from 0, with no gap and no number twice (`AgeIsBijection`).
  `RowIsForLife` is the id over time: inserted once, and no process ever changes
  from one id to another. `NoMutexIsLost` says who holds the two mutexes,
  through failures and restarts. `StoredAtMostOnce`: what is stored has a
  `created_at` of its own and has left its sender's hands, so it is not stored
  again, not even once cleaned up.
* **The same tables** (`RoomHistoryProofs`: `StoreIsRoomStore`,
  `EntriesHaveMembers`, `RouterIsMessageRouter`, `RouterTidy`). `RoomHistory`
  splits a JoinRoom into lookup, insert and entry, and has the tables as an id
  and a set. Mapped back to one room of `RoomStore` and `MessageRouter`, each of
  its steps is one of their methods or changes neither, but for the end of the
  gateway; so the router's invariants hold here too.
* **Rate limiters** (`RateLimitsProofs`: `TypeCorrect`, `Windowed`,
  `RefusedFull`, `Bounded`, `MutedSpent`). The window's invariant orders the times
  and says that the ones sliced off are out of every later window. The bucket's
  is an account: for each message sent, what is in the bucket is at most a full
  one less the messages since, plus the refill since; and for some message, that
  is what it is, up to the time lost.
* **Gateway** (`GatewayProofs`). `TypeOK` is not inductive: a handler that has
  no username could put it into a table. `UserBound` says at which labels a
  handler has one. A step moves one label and writes one table, so each
  invariant has a frame lemma for the steps that leave its table alone
  (`RouterFrame`, `PresenceFrame`, `SessionFrame`, `RoomFrame`, `StoreFrame`)
  and one step per action that writes it. `RouterSafe` and `PresenceSafe` are
  inductive with `TypeInv`. `LonePresent` needs `OverlapTracked` (two sessions
  of one user are both marked), or another session's Add could replace the
  entry; `RaceOnly` follows: with the entry there, /login is refused, and what
  is left is the answer to a /register. `Admission` is what the two steps that
  admit a user have in common. `LoneRouted` adds that no other session of the
  user can Disconnect it, and that `stray` has every handler whose JoinRoom
  failed. `LoneHasRoomID` needs `StoreInv`, which also covers the labels between
  the room store's call and the router's, and that a room with a member has an
  entry. `Bounded` adds that the registry is finite. `WhoAccurate` follows the
  last event of each user, or the store's entry when none is under way:
  delivering the oldest event does not change it, and a handler that takes it
  back leaves no lone session of the user behind, by `OverlapTracked`.
  `RouterTidy`: each step calls the router as `MessageRouter!Next` does or not
  at all, so the invariants of `MessageRouterProofs` hold of the whole gateway;
  `UsesRouter` and `UsesStore` state those steps, for the router until its
  process ends and for the room store through its restarts. `StoreTidy` is the
  room store's own "clean up empty rooms"; it does not say that the members of
  an entry are connected, and they need not be. `NothingLeftBehind`: whatever
  ends a handler, its connection is closed only after every table has let go of
  it. `Teardown` numbers the labels on the way out, and `HandlersEndWithProcess`
  says that only a running process has handlers. `OnlyAccountsPileUp`: the room
  store, /who and the events under way hold accounts only. `WhoRunsOut`: while
  nothing but the database or the auth service fails, a user with no session and
  no event under way is off /who, by `WhoIsAccurate`; whatever fails, the events
  of such a user only get fewer (`DeliveryShortens`).
* **Auth service** (`AuthServiceProofs`: `Rotation`, `OnlyAccounts`,
  `SingleUse`), called one call at a time. `ChainsIssued`: live tokens and what
  they stem from have been issued, so a new token starts a chain of its own.
* **Auth service, step by step** (`AuthStepsProofs`). `Atomicity`, that
  `AuthSteps` implements `AuthService`: the mutex is held by the one Refresh
  between its halves, and what a Register or a Login has looked up still holds,
  or no longer matters, when it writes. `Rotation`, `OnlyAccounts` and
  `SingleUse` follow for concurrent calls. `MutexIsReturned`: no failed call keeps
  as.mu. `FirstRegisterWins`: an account keeps its first password.
* **Auth sessions** (`AuthSessionsProofs`: `TypeCorrect`, `OwnSessions`,
  `RefreshRefused`). `NoneGiven`: no client holds a refresh token at all, which
  makes the finding `ReconnectsByToken` one about every run of the program.
  `Owned`: the name of a call past the service's check is the client's own,
  which a repeated Register cannot change. `UsesService`: with the clients'
  names as passwords the composition implements `AuthService`, whose theorems
  then hold behind retries (`TokensEndToEnd`). `CallsRunOut`: the attempts left,
  and within an attempt the steps left, go down.

Every invariant and action property that a passing run checks is stated by a
theorem. Only model-checked are the five liveness properties: `GoneIsForgotten`,
`AuthEnds`, `WhoForgets`, `CallsEnd`, `CallsReturn`. The prover cannot reason
about ENABLED, which fairness is made of. For all five the safety half is
proved, that no step leads away from the end and every step of the one concerned
leads nearer to it: `Teardown` with `HandlersEndWithProcess` for `GoneIsForgotten`
and, once the deadline has passed, for `AuthEnds`, `WhoRunsOut` for `WhoForgets`,
`CallsRunOut` for `CallsEnd`, `WritesRunOut` with `BlocksOnRunningOnly` for
`CallsReturn`. That such a step is possible, and taken, is what TLC shows.

## Not modelled

* `SendTo`: no caller. It would be one frame under the router's mutex.
* `room_member.go`, `ListUndelivered`, `MarkDelivered`, `SoftDelete` and the
  `FindBy...ID` methods of the repositories: no caller.
* The in-memory auth service: tests only.
* ReadMessage byte by byte and its size limit, validation of names, terminal
  input and output, the text of messages: they change no state that these
  properties tell apart.
* Connecting to the database and migrating it, health checks, logging.
* Publishing on the subjects that nobody subscribes to.

## Plan

Done: tables, gateway, authentication, delivery, history, rate limits, with
proofs of all their safety properties, of the refinements between them, and of
the safety half of their liveness. Left: `RoomHistory` with rooms joined in
sequence, composed with `Gateway`'s handlers. Today each has its own view of them,
and both are shown to use the tables as `MessageRouter` and `RoomStore` have them.
