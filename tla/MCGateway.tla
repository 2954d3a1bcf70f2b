------------------------------ MODULE MCGateway ------------------------------
(***************************************************************************)
(* Gateway for TLC: connections and usernames are interchangeable.         *)
(***************************************************************************)
EXTENDS Gateway, TLC

Symmetry == Permutations(Conns) \cup Permutations(Users)
==============================================================================
