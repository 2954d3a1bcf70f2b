----------------------------- MODULE MCAuthSteps -----------------------------
(***************************************************************************)
(* AuthSteps for TLC: calls, users, passwords and tokens are               *)
(* interchangeable.                                                        *)
(***************************************************************************)
EXTENDS AuthSteps, TLC

Symmetry ==
    Permutations(Calls) \cup Permutations(Users) \cup Permutations(Passwords)
        \cup Permutations(Tokens)
==============================================================================
