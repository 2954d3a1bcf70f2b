--------------------------- MODULE MCRouterDelivery --------------------------
(***************************************************************************)
(* RouterDelivery for TLC: each connection has a user of its own.          *)
(***************************************************************************)
EXTENDS RouterDelivery

CONSTANTS c1, c2, u1, u2

OneEach == [c \in {c1, c2} |-> IF c = c1 THEN u1 ELSE u2]
==============================================================================
