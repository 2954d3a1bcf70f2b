---------------------------- MODULE ConnRegistry -----------------------------
(***************************************************************************)
(* Registry (internal/server/registry.go): the gateway's set of open       *)
(* connections and its limit.  Every method runs under r.mu and is one     *)
(* action.                                                                 *)
(***************************************************************************)
EXTENDS Naturals, FiniteSets

CONSTANT MaxConns   \* the 100 of Registry.Add

VARIABLE conns      \* keys of r.conns

\* NewRegistry
Init == conns = {}

\* An Add that compares with > where the code compares with >=.
AddOneTooMany(c) ==
    /\ Cardinality(conns) <= MaxConns
    /\ conns' = conns \cup {c}

\* Add; with the registry full it returns "server full" and changes nothing.
Add(c) ==
    /\ Cardinality(conns) < MaxConns
    /\ conns' = conns \cup {c}

\* Remove
Remove(c) == conns' = conns \ {c}
==============================================================================
