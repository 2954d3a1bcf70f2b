----------------------------- MODULE OnlineStore -----------------------------
(***************************************************************************)
(* The presence service: InMemoryOnlineStore                               *)
(* (internal/presence/online_store.go), written by the subscriber of       *)
(* user.presence and read by the gateway's /who.  The subscription calls   *)
(* back one message at a time, in the order they were published; SetOnline *)
(* of one user does not touch another's entry, so pending keeps one queue  *)
(* per user.                                                               *)
(***************************************************************************)
EXTENDS Naturals, Sequences

CONSTANT Users

VARIABLES online,    \* keys of os.online
          pending    \* pending[u]: IsOnline of each event of u under way

\* NewOnlineStore
Init ==
    /\ online = {}
    /\ pending = [u \in Users |-> <<>>]

\* events.Publish of a UserPresenceEvent
Publish(u, isOnline) == pending' = [pending EXCEPT ![u] = Append(@, isOnline)]

\* A callback that takes the newest event first.
DeliverNewest(u) ==
    LET n == Len(pending[u]) IN
    /\ pending[u] # <<>>
    /\ online' = IF pending[u][n] THEN online \cup {u} ELSE online \ {u}
    /\ pending' = [pending EXCEPT ![u] = SubSeq(@, 1, n - 1)]

\* The subscription's callback: SetOnline(event.Username, event.IsOnline).
Deliver(u) ==
    /\ pending[u] # <<>>
    /\ online' = IF Head(pending[u]) THEN online \cup {u} ELSE online \ {u}
    /\ pending' = [pending EXCEPT ![u] = Tail(@)]

\* The process starts again: an empty store, and the events published while
\* nobody was subscribed are gone.
Restart == online' = {} /\ pending' = [u \in Users |-> <<>>]

Prefixes(q) == {SubSeq(q, 1, n) : n \in 0 .. Len(q)}

\* The publisher's process ends before its NATS client has flushed: the newest
\* events are lost.
LoseNewest ==
    /\ pending' \in [Users -> UNION {Prefixes(pending[u]) : u \in Users}]
    /\ \A u \in Users : pending'[u] \in Prefixes(pending[u])

\* What ListOnline will say of u once every event under way is delivered.
Settled(u) ==
    IF pending[u] = <<>> THEN u \in online ELSE pending[u][Len(pending[u])]
==============================================================================
