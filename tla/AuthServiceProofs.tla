-------------------------- MODULE AuthServiceProofs --------------------------
(***************************************************************************)
(* Proofs about the auth service with each call one step, for any number   *)
(* of users and tokens.                                                    *)
(***************************************************************************)
EXTENDS AuthService, TLAPS

\* A token that works has been issued, and so has the token of the Login it
\* stems from; one that has not been issued stems from no other.
ChainsIssued ==
    /\ \A t \in Tokens : Live(t) => t \in issued
    /\ \A t \in issued : chain[t] \in issued
    /\ \A t \in Tokens \ issued : chain[t] = t

ChainInv == TypeOK /\ ChainsIssued /\ OneLiveTokenPerLogin /\ LiveTokensHaveAccounts

LEMMA ChainInitInv == Init => ChainInv
  BY DEF Init, ChainInv, TypeOK, ChainsIssued, OneLiveTokenPerLogin,
         LiveTokensHaveAccounts, Live

LEMMA ChainNextInv == ChainInv /\ [Next]_vars => ChainInv'
  <1> SUFFICES ASSUME ChainInv, [Next]_vars PROVE ChainInv'
    OBVIOUS
  <1> USE NoUserAssumption, NoPasswordAssumption
      DEF ChainInv, TypeOK, ChainsIssued, OneLiveTokenPerLogin,
          LiveTokensHaveAccounts, Live
  <1>1. ASSUME NEW u \in Users, NEW p \in Passwords, Register(u, p)
        PROVE  ChainInv'
    BY <1>1 DEF Register
  <1>2. ASSUME NEW u \in Users, NEW p \in Passwords, NEW t \in Tokens,
               Login(u, p, t)
        PROVE  ChainInv'
    BY <1>2 DEF Login, Verifies
  <1>3. ASSUME NEW s \in Tokens, NEW t \in Tokens, Refresh(s, t)
        PROVE  ChainInv'
    BY <1>3 DEF Refresh
  <1>4. ASSUME NEW s \in Tokens, RefreshFails(s)
        PROVE  ChainInv'
    BY <1>4 DEF RefreshFails
  <1>5. CASE Restart
    BY <1>5 DEF Restart
  <1>6. CASE UNCHANGED vars
    BY <1>6 DEF vars
  <1> QED
    BY <1>1, <1>2, <1>3, <1>4, <1>5, <1>6 DEF Next

LEMMA AlwaysChainInv == Spec => []ChainInv
  BY ChainInitInv, ChainNextInv, PTL DEF Spec

\* Rotation: Refresh deletes the token it replaces, so the tokens that stem
\* from one Login never work two at a time.
THEOREM Rotation == Spec => []OneLiveTokenPerLogin
  BY AlwaysChainInv, PTL DEF ChainInv

\* No refresh token works for a name that has no account.
THEOREM OnlyAccounts == Spec => []LiveTokensHaveAccounts
  BY AlwaysChainInv, PTL DEF ChainInv

\* A refresh token changes hands with no call, and none brings one back that
\* Refresh or a restart has deleted.
THEOREM SingleUse == Spec => TokensAreSingleUse
  <1>1. ChainInv /\ [Next]_vars =>
          [\A t \in issued : refreshTokens'[t] \in {refreshTokens[t], NoUser}]_vars
    BY DEF ChainInv, TypeOK, Next, vars, Register, Login, Refresh, RefreshFails,
           Restart
  <1> QED
    BY <1>1, AlwaysChainInv, PTL DEF Spec, TokensAreSingleUse
==============================================================================
