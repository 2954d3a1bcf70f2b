--------------------------- MODULE AuthStepsProofs ---------------------------
(***************************************************************************)
(* Proofs about concurrent calls of the auth service, for any number of    *)
(* calls, users and tokens: at the grain of its database calls and its     *)
(* mutex it implements AuthService, and what is proved there holds here.   *)
(***************************************************************************)
EXTENDS AuthSteps, TLAPS

(***************************************************************************)
(* AuthSteps: its own invariant.                                           *)
(***************************************************************************)

\* The mutex is held by the one Refresh between its two halves, which has
\* deleted one token and knows whose it was.
RefreshHoldsMutex ==
    /\ \A k \in Calls : pc[k] = "reissue" <=> mu = k
    /\ \A k \in Calls : pc[k] = "reissue" =>
        /\ name[k] \in Users
        /\ \E s \in Tokens : old[k] = {s} /\ s \in issued /\ refreshTokens[s] = NoUser

\* A call between its lookup and its write has a name and a password; those of
\* a Login are an account's.
LookupsHold ==
    \A k \in Calls :
        /\ pc[k] \in {"create", "issue"} => name[k] \in Users /\ word[k] \in Passwords
        /\ pc[k] = "issue" => accounts[name[k]] = word[k]

LiveIssued == \A t \in Tokens : Live(t) => t \in issued

IInv == StepsTypeOK /\ RefreshHoldsMutex /\ LookupsHold /\ LiveIssued

LEMMA InitInv == StepsInit => IInv
  BY NoCallAssumption
     DEF StepsInit, Init, NoCalls, IInv, StepsTypeOK, TypeOK, RefreshHoldsMutex,
         LookupsHold, LiveIssued, Live

LEMMA NextInv == IInv /\ [StepsNext]_stepVars => IInv'
  <1> SUFFICES ASSUME IInv, [StepsNext]_stepVars PROVE IInv'
    OBVIOUS
  <1> USE NoCallAssumption, NoUserAssumption, NoPasswordAssumption
      DEF IInv, StepsTypeOK, TypeOK, RefreshHoldsMutex, LookupsHold, LiveIssued,
          Live, Proceed, Return
  <1>1. ASSUME NEW k \in Calls, NEW u \in Users, NEW p \in Passwords,
               FindFree(k, u, p)
        PROVE  IInv'
    BY <1>1 DEF FindFree, vars
  <1>2. ASSUME NEW k \in Calls, NEW u \in Users, NEW p \in Passwords,
               Check(k, u, p)
        PROVE  IInv'
    BY <1>2 DEF Check, Verifies, vars
  <1>3. ASSUME NEW k \in Calls, NEW t \in Tokens, Issue(k, t)
        PROVE  IInv'
    BY <1>3 DEF Issue
  <1>4. ASSUME NEW k \in Calls, NEW t \in Tokens, DeleteOld(k, t)
        PROVE  IInv'
    BY <1>4 DEF DeleteOld
  <1>5. ASSUME NEW k \in Calls, NEW t \in Tokens, Reissue(k, t)
        PROVE  IInv'
    BY <1>5 DEF Reissue
  <1>6. ASSUME NEW k \in Calls, Create(k)
        PROVE  IInv'
    BY <1>6 DEF Create
  <1>7. ASSUME NEW k \in Calls, CallFails(k)
        PROVE  IInv'
    BY <1>7 DEF CallFails, vars
  <1>8. CASE RestartService
    BY <1>8 DEF RestartService, Restart
  <1>9. CASE UNCHANGED stepVars
    BY <1>9 DEF stepVars, vars, callVars
  <1> QED
    BY <1>1, <1>2, <1>3, <1>4, <1>5, <1>6, <1>7, <1>8, <1>9 DEF StepsNext

LEMMA StepsInv == StepsSpec => []IInv
  BY InitInv, NextInv, PTL DEF StepsSpec

\* Every local of a call and every table keeps its type.
THEOREM TypeCorrect == StepsSpec => []StepsTypeOK
  BY StepsInv, PTL DEF IInv

\* as.mu is never left locked: only a Refresh between its halves has it, and
\* neither a failed lookup nor a failed random source takes it along.
THEOREM MutexIsReturned == StepsSpec => []RefreshHoldsMutex
  BY StepsInv, PTL DEF IInv

\* An account keeps the password it was registered with, whichever of two
\* Registers that both found the name free inserts its row first.
AccountsAreForLife ==
    [][\A u \in Users : accounts[u] # NoPassword => accounts'[u] = accounts[u]]_vars

THEOREM FirstRegisterWins == StepsSpec => AccountsAreForLife
  <1>1. IInv /\ [StepsNext]_stepVars =>
          [\A u \in Users : accounts[u] # NoPassword => accounts'[u] = accounts[u]]_vars
    BY DEF IInv, StepsTypeOK, TypeOK, LookupsHold, StepsNext, stepVars, vars,
           FindFree, Check, Issue, DeleteOld, Reissue, Create, CallFails,
           RestartService, Restart
  <1> QED
    BY <1>1, StepsInv, PTL DEF StepsSpec, AccountsAreForLife
------------------------------------------------------------------------------
(***************************************************************************)
(* The refinement.                                                         *)
(***************************************************************************)

LEMMA AtomicInit == StepsInit => Atomic!Init
  BY NoCallAssumption DEF StepsInit, Init, NoCalls, Atomic!Init, TokensSeen

\* While nobody holds the mutex, TokensSeen is the map itself.
LEMMA SeenUnlocked ==
    ASSUME StepsTypeOK, mu = NoCall
    PROVE  TokensSeen = refreshTokens
  BY DEF StepsTypeOK, TypeOK, TokensSeen

LEMMA AtomicStep == IInv /\ IInv' /\ [StepsNext]_stepVars => [Atomic!Next]_Atomic!vars
  <1> SUFFICES ASSUME IInv, IInv', [StepsNext]_stepVars
               PROVE  [Atomic!Next]_Atomic!vars
    OBVIOUS
  <1> USE NoCallAssumption, NoUserAssumption, NoPasswordAssumption
      DEF IInv, StepsTypeOK, TypeOK, RefreshHoldsMutex, LookupsHold, LiveIssued,
          Live, Proceed, Return
  <1>1. ASSUME NEW k \in Calls, NEW u \in Users, NEW p \in Passwords,
               FindFree(k, u, p) \/ Check(k, u, p)
        PROVE  UNCHANGED Atomic!vars
    BY <1>1 DEF FindFree, Check, vars, Atomic!vars, TokensSeen
  <1>2. ASSUME NEW k \in Calls, NEW t \in Tokens, Issue(k, t)
        PROVE  Atomic!Login(name[k], word[k], t)
    <2>1. TokensSeen = refreshTokens /\ TokensSeen' = refreshTokens'
      BY <1>2 DEF Issue, TokensSeen
    <2> QED
      BY <1>2, <2>1 DEF Issue, Atomic!Login, Atomic!Verifies
  <1>3. ASSUME NEW k \in Calls, NEW t \in Tokens, DeleteOld(k, t)
        PROVE  UNCHANGED Atomic!vars
    BY <1>3 DEF DeleteOld, Atomic!vars, TokensSeen
  <1>4. ASSUME NEW k \in Calls, NEW t \in Tokens, Reissue(k, t)
        PROVE  \E s \in Tokens : Atomic!Refresh(s, t)
    <2>1. PICK s \in Tokens :
            old[k] = {s} /\ s \in issued /\ refreshTokens[s] = NoUser
      BY <1>4 DEF Reissue
    <2>2. mu = k /\ mu' = NoCall
      BY <1>4 DEF Reissue
    <2>3. TokensSeen = [refreshTokens EXCEPT ![s] = name[k]]
      BY <2>1, <2>2 DEF TokensSeen
    <2>4. TokensSeen' = refreshTokens'
      BY <2>2 DEF TokensSeen
    <2>5. Atomic!Refresh(s, t)
      <3>1. /\ t \notin issued /\ issued' = issued \cup {t} /\ accounts' = accounts
            /\ refreshTokens' = [refreshTokens EXCEPT ![t] = name[k]]
            /\ chain' = [chain EXCEPT ![t] = chain[s]]
        BY <1>4, <2>1 DEF Reissue
      <3>2. name[k] \in Users /\ TokensSeen[s] = name[k]
        BY <2>2, <2>3
      <3>3. [TokensSeen EXCEPT ![s] = NoUser, ![t] = name[k]]
              = [refreshTokens EXCEPT ![t] = name[k]]
        BY <2>1, <2>3
      <3> QED
        BY <2>1, <2>4, <3>1, <3>2, <3>3 DEF Atomic!Refresh
    <2> QED
      BY <2>5
  <1>5. ASSUME NEW k \in Calls, Create(k)
        PROVE  Atomic!Register(name[k], word[k]) \/ UNCHANGED Atomic!vars
    <2>1. UNCHANGED TokensSeen
      BY <1>5 DEF Create, TokensSeen
    <2> QED
      BY <1>5, <2>1 DEF Create, Atomic!Register, Atomic!vars
  <1>6. ASSUME NEW k \in Calls, CallFails(k)
        PROVE  (\E s \in Tokens : Atomic!RefreshFails(s)) \/ UNCHANGED Atomic!vars
    <2>1. CASE mu = k
      <3>1. PICK s \in Tokens :
              old[k] = {s} /\ s \in issued /\ refreshTokens[s] = NoUser
        BY <2>1
      <3>2. TokensSeen = [refreshTokens EXCEPT ![s] = name[k]]
        BY <2>1, <3>1 DEF TokensSeen
      <3>3. TokensSeen' = refreshTokens
        BY <1>6, <2>1 DEF CallFails, vars, TokensSeen
      <3>4. name[k] \in Users
        BY <2>1
      <3>5. Atomic!RefreshFails(s)
        BY <1>6, <3>1, <3>2, <3>3, <3>4 DEF CallFails, vars, Atomic!RefreshFails
      <3> QED
        BY <3>5
    <2>2. CASE mu # k
      BY <1>6, <2>2 DEF CallFails, vars, Atomic!vars, TokensSeen
    <2> QED
      BY <2>1, <2>2
  <1>7. CASE RestartService
    <2>1. TokensSeen' = [t \in Tokens |-> NoUser]
      BY <1>7 DEF RestartService, Restart, TokensSeen
    <2>2. Atomic!Restart
      BY <1>7, <2>1 DEF RestartService, Restart, Atomic!Restart
    <2> QED
      BY <2>2 DEF Atomic!Next
  <1>8. CASE UNCHANGED stepVars
    BY <1>8 DEF stepVars, vars, callVars, Atomic!vars, TokensSeen
  <1>9. ASSUME NEW k \in Calls, pc[k] \in {"create", "issue"}
        PROVE  name[k] \in Users /\ word[k] \in Passwords
    BY <1>9
  <1> QED
    <2>1. ASSUME NEW k \in Calls, NEW t \in Tokens, Issue(k, t)
          PROVE  Atomic!Next
      BY <1>2, <1>9, <2>1 DEF Issue, Atomic!Next
    <2>2. ASSUME NEW k \in Calls, Create(k)
          PROVE  [Atomic!Next]_Atomic!vars
      BY <1>5, <1>9, <2>2 DEF Create, Atomic!Next
    <2> QED
      BY <1>1, <1>3, <1>4, <1>6, <1>7, <1>8, <2>1, <2>2 DEF StepsNext, Atomic!Next

\* Concurrent calls, split where Register, Login and Refresh go to the database
\* or wait for as.mu, act as the single steps of AuthService.
THEOREM Atomicity == StepsSpec => ActsAtomically
  BY AtomicInit, AtomicStep, StepsInv, PTL DEF StepsSpec, ActsAtomically, Atomic!Spec
------------------------------------------------------------------------------
(***************************************************************************)
(* What follows from it: what is proved of AuthService holds of            *)
(* TokensSeen, and so of the tokens in the map.                            *)
(***************************************************************************)
Seen == INSTANCE AuthServiceProofs WITH refreshTokens <- TokensSeen

LEMMA SeenSpec == StepsSpec => Seen!Spec
  <1>1. Atomic!Init => Seen!Init
    BY DEF Atomic!Init, Seen!Init
  <1>2. [Atomic!Next]_Atomic!vars => [Seen!Next]_Seen!vars
    BY DEF Atomic!Next, Atomic!vars, Atomic!Register, Atomic!Login,
           Atomic!Verifies, Atomic!Refresh, Atomic!RefreshFails, Atomic!Restart,
           Seen!Next, Seen!vars, Seen!Register, Seen!Login,
           Seen!Verifies, Seen!Refresh, Seen!RefreshFails, Seen!Restart
  <1> QED
    BY <1>1, <1>2, Atomicity, PTL DEF ActsAtomically, Atomic!Spec, Seen!Spec

\* A token that works in the map is seen to work, and for the same user.
LEMMA SeenIsLive ==
    ASSUME IInv, NEW t \in Tokens, Live(t)
    PROVE  TokensSeen[t] = refreshTokens[t]
  BY DEF IInv, StepsTypeOK, TypeOK, RefreshHoldsMutex, Live, TokensSeen

\* Rotation holds while calls overlap: the tokens that stem from one Login never
\* work two at a time.
THEOREM Rotation == StepsSpec => []OneLiveTokenPerLogin
  <1>1. IInv /\ Seen!OneLiveTokenPerLogin => OneLiveTokenPerLogin
    BY SeenIsLive DEF OneLiveTokenPerLogin, Seen!OneLiveTokenPerLogin, Live,
       Seen!Live
  <1> QED
    BY <1>1, SeenSpec, Seen!Rotation, NoUserAssumption, NoPasswordAssumption,
       StepsInv, PTL

\* No refresh token works for a name that has no account, though a Login issues
\* its token well after it has looked the account up.
THEOREM OnlyAccounts == StepsSpec => []LiveTokensHaveAccounts
  <1>1. IInv /\ Seen!LiveTokensHaveAccounts => LiveTokensHaveAccounts
    BY SeenIsLive DEF LiveTokensHaveAccounts, Seen!LiveTokensHaveAccounts, Live,
       Seen!Live
  <1> QED
    BY <1>1, SeenSpec, Seen!OnlyAccounts, NoUserAssumption,
       NoPasswordAssumption, StepsInv, PTL

\* No step of any call brings back a token that is gone, or gives it away.
THEOREM SingleUse == StepsSpec => TokensAreSingleUse
  <1>1. IInv /\ [StepsNext]_stepVars =>
          [\A t \in issued : refreshTokens'[t] \in {refreshTokens[t], NoUser}]_vars
    BY DEF IInv, StepsTypeOK, TypeOK, StepsNext, stepVars, vars, FindFree, Check,
           Issue, DeleteOld, Reissue, Create, CallFails, RestartService, Restart
  <1> QED
    BY <1>1, StepsInv, PTL DEF StepsSpec, TokensAreSingleUse
==============================================================================
