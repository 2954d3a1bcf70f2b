--------------------------- MODULE MCAuthSessions ----------------------------
(***************************************************************************)
(* AuthSessions for TLC: clients, users and tokens are interchangeable.    *)
(***************************************************************************)
EXTENDS AuthSessions, TLC

Symmetry ==
    Permutations(Clients) \cup Permutations(Users) \cup Permutations(Tokens)
==============================================================================
