---------------------------- MODULE MCRoomHistory ----------------------------
(***************************************************************************)
(* RoomHistory for TLC: handlers, messages and ids are interchangeable.    *)
(***************************************************************************)
EXTENDS RoomHistory, TLC

Symmetry == Permutations(Handlers) \cup Permutations(Messages) \cup Permutations(Ids)
==============================================================================
