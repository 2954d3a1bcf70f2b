---------------------------- MODULE PresenceStore ----------------------------
(***************************************************************************)
(* InMemoryPresenceStore (internal/presence/presence.go), in the gateway:  *)
(* the connection of each logged-in username.  Every method runs under     *)
(* ps.mu and is one action.                                                *)
(***************************************************************************)
CONSTANTS Conns, Users, NoConn

VARIABLE conns   \* conns[u]: ps.conns[u], NoConn for an absent key

\* NewInMemoryPresenceStore
Init == conns = [u \in Users |-> NoConn]

\* Add: the last connection to log in as u replaces any other.
Add(u, c) == conns' = [conns EXCEPT ![u] = c]

\* A Remove that finds no entry to delete.
RemoveNothing(c) == UNCHANGED conns

\* A Remove with its comparison inverted.
RemoveOthers(c) ==
    conns' = [u \in Users |-> IF conns[u] # c THEN NoConn ELSE conns[u]]

\* Remove: by connection value, every username that maps to c.
Remove(c) == conns' = [u \in Users |-> IF conns[u] = c THEN NoConn ELSE conns[u]]

\* List
List == {u \in Users : conns[u] # NoConn}
==============================================================================
