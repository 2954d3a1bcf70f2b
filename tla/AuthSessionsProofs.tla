------------------------- MODULE AuthSessionsProofs --------------------------
(***************************************************************************)
(* Proofs about authentication from end to end, for any number of clients, *)
(* users, tokens and attempts.                                             *)
(***************************************************************************)
EXTENDS AuthSessions, TLAPS

USE DEF service

\* No client has ever been given a refresh token.
NoneGiven == \A k \in Clients : creds[k] \notin Tokens

\* A call and a session have a name, and one that has passed the service's
\* check is the client's own.
Owned ==
    \A k \in Clients :
        /\ phase[k] \in Calling \cup {"session", "lost"} => name[k] \in Users
        /\ phase[k] \in {"created", "session"} => accounts[name[k]] = k

IInv == TypeOK /\ NoneGiven /\ Owned

LEMMA InitInv == Init => IInv
  BY AttemptsAssumption, TokenAssumption
  DEF Init, Service!Init, IInv, TypeOK, Service!TypeOK, NoneGiven, Owned, Calling

\* The gateway's side of a call that fails.
LEMMA FailStep ==
    ASSUME IInv, NEW k \in Clients, phase[k] \in Calling,
           NEW retry \in Calling \ {"created"}, Fail(k, retry),
           Service!TypeOK', \A u \in Users : accounts[u] # NoPassword => accounts'[u] = accounts[u]
    PROVE  IInv'
  <1>1. TypeOK'
    <2>1. attempt[k] < MaxAttempts => attempt[k] + 1 \in 0 .. MaxAttempts
      BY AttemptsAssumption DEF IInv, TypeOK
    <2>2. 0 \in 0 .. MaxAttempts
      BY AttemptsAssumption
    <2> QED
      BY <2>1, <2>2 DEF IInv, TypeOK, Fail, Goto, Calling
  <1>2. NoneGiven'
    BY DEF IInv, NoneGiven, Fail
  <1>3. Owned'
    BY NoPasswordAssumption
    DEF IInv, TypeOK, Service!TypeOK, Owned, Fail, Goto, Calling
  <1> QED
    BY <1>1, <1>2, <1>3 DEF IInv

LEMMA EnterStep ==
    ASSUME IInv, NEW k \in Clients, Enter(k, AccessToken), name' = name,
           name[k] \in Users, accounts' = accounts, accounts[name[k]] = k,
           Service!TypeOK'
    PROVE  IInv'
  BY AttemptsAssumption, TokenAssumption
  DEF IInv, TypeOK, NoneGiven, Owned, Enter, Goto, Calling

LEMMA LoginEffect ==
    ASSUME IInv, NEW k \in Clients, NEW t \in Tokens, name[k] \in Users,
           Service!Login(name[k], k, t)
    PROVE  accounts[name[k]] = k /\ accounts' = accounts /\ Service!TypeOK'
  BY DEF IInv, TypeOK, Service!TypeOK, Service!Login, Service!Verifies

LEMMA CallStep ==
    ASSUME IInv, NEW k \in Clients, Call(k)
    PROVE  IInv'
  <1> USE DEF Calling
  <1>1. CASE RegisterCreates(k)
    <2>1. name[k] \in Users
      BY <1>1 DEF IInv, Owned, RegisterCreates
    <2>2. /\ Service!TypeOK'
          /\ accounts'[name[k]] = k
          /\ \A u \in Users : accounts[u] # NoPassword => accounts'[u] = accounts[u]
      BY <1>1, <2>1 DEF IInv, TypeOK, Service!TypeOK, RegisterCreates, Service!Register
    <2> QED
      BY <1>1, <2>1, <2>2, NoPasswordAssumption
      DEF IInv, TypeOK, NoneGiven, Owned, RegisterCreates, Goto
  <1>2. ASSUME NEW t \in Tokens, RegisterAnswers(k, t)
        PROVE  IInv'
    BY <1>2, LoginEffect, EnterStep, FailStep DEF RegisterAnswers, IInv, Owned
  <1>3. ASSUME NEW t \in Tokens, LoginAnswers(k, t)
        PROVE  IInv'
    <2>1. CASE Goto(k, "prompt", 0) /\ UNCHANGED <<name, creds>>
      BY <1>3, <2>1, LoginEffect, AttemptsAssumption
      DEF LoginAnswers, IInv, TypeOK, NoneGiven, Owned, Goto
    <2> QED
      BY <1>3, <2>1, LoginEffect, EnterStep, FailStep
      DEF LoginAnswers, IInv, Owned
  <1>4. CASE Refresh(k)
    BY <1>4, FailStep DEF Refresh, IInv, NoneGiven, TypeOK, Service!TypeOK
  <1>5. CASE CallFails(k)
    BY <1>5, FailStep DEF CallFails, IInv, TypeOK, Service!TypeOK
  <1> QED
    BY <1>1, <1>2, <1>3, <1>4, <1>5 DEF Call

LEMMA NextInv == IInv /\ [Next]_vars => IInv'
  <1> SUFFICES ASSUME IInv, [Next]_vars PROVE IInv'
    OBVIOUS
  <1> USE AttemptsAssumption
      DEF IInv, TypeOK, Service!TypeOK, NoneGiven, Owned, Calling, Goto
  <1>1. ASSUME NEW k \in Clients, NEW command \in {"register", "login"},
               NEW u \in Users, Ask(k, command, u)
        PROVE  IInv'
    BY <1>1 DEF Ask
  <1>2. ASSUME NEW k \in Clients, ConnectionLost(k)
        PROVE  IInv'
    BY <1>2 DEF ConnectionLost
  <1>3. ASSUME NEW k \in Clients, Reconnect(k) \/ Exit(k)
        PROVE  IInv'
    BY <1>3 DEF Reconnect, Exit
  <1>4. CASE RestartService
    BY <1>4 DEF RestartService, Service!Restart
  <1>5. CASE UNCHANGED vars
    BY <1>5 DEF vars
  <1> QED
    BY <1>1, <1>2, <1>3, <1>4, <1>5, CallStep DEF Next

LEMMA SessionsInv == Spec => []IInv
  BY InitInv, NextInv, PTL DEF Spec

\* Attempts stay within their bound, and a client is always at one of the labels
\* of its call, its session or its reconnect.
THEOREM TypeCorrect == Spec => []TypeOK
  <1>1. IInv => TypeOK
    BY DEF IInv
  <1> QED
    BY <1>1, SessionsInv, PTL

\* A client is in a session only under a name it registered itself, whatever
\* calls were lost and repeated.
THEOREM OwnSessions == Spec => []SessionsAreOwned
  <1>1. IInv => SessionsAreOwned
    BY DEF IInv, Owned, SessionsAreOwned
  <1> QED
    BY <1>1, SessionsInv, PTL

\* The auth service accepts nothing a client has stored: the access token is all
\* that Register and Login give it (server.go:21, 39), so the /refresh case of
\* runAuthLoop ends in sendError.
RefreshAlwaysRefused ==
    \A k \in Clients : ~(creds[k] \in Tokens /\ Service!Live(creds[k]))

\* ReconnectsByToken does not fail now and then but for every client and every
\* reconnect: no client ever holds a refresh token that the service would accept,
\* so the gateway's /refresh admits nobody.
THEOREM RefreshRefused == Spec => []RefreshAlwaysRefused
  <1>1. IInv => RefreshAlwaysRefused
    BY DEF IInv, NoneGiven, RefreshAlwaysRefused
  <1> QED
    BY <1>1, SessionsInv, PTL
------------------------------------------------------------------------------
(***************************************************************************)
(* Why calls end.                                                          *)
(***************************************************************************)

\* The steps callWithRetry has left: two for each attempt, as Register has two
\* halves.
Budget(k) == 2 * (MaxAttempts - attempt[k]) + IF phase[k] = "register" THEN 1 ELSE 0

\* Each step of a call ends it or uses up some of its budget, and nobody else's
\* step adds to it: with the fairness of the calls this is why CallsEnd holds.
CallsDescend ==
    [][\A k \in Clients :
        phase[k] \in Calling /\ phase'[k] \in Calling =>
            /\ Budget(k)' <= Budget(k)
            /\ Call(k) => Budget(k)' < Budget(k)]_vars

\* A call under way has not used up its budget.
BudgetLeft == \A k \in Clients : phase[k] \in Calling => Budget(k) \in Nat

LEMMA BudgetType == IInv => BudgetLeft
  BY AttemptsAssumption DEF IInv, TypeOK, BudgetLeft, Budget

\* What one client's step does to the phase and the attempt of all.
LEMMA CallDescends ==
    ASSUME IInv, NEW k \in Clients, Call(k)
    PROVE  /\ \A j \in Clients \ {k} : phase'[j] = phase[j] /\ attempt'[j] = attempt[j]
           /\ phase'[k] \in Calling => Budget(k)' < Budget(k)
  <1> USE AttemptsAssumption DEF IInv, TypeOK, Calling, Budget, Goto
  <1>1. ASSUME NEW retry \in Calling \ {"created"}, Fail(k, retry),
               phase[k] \in {retry, "created"}, phase[k] = "created" => retry = "register"
        PROVE  /\ \A j \in Clients \ {k} : phase'[j] = phase[j] /\ attempt'[j] = attempt[j]
               /\ phase'[k] \in Calling => Budget(k)' < Budget(k)
    BY <1>1 DEF Fail
  <1>2. ASSUME NEW token, Enter(k, token)
        PROVE  /\ \A j \in Clients \ {k} : phase'[j] = phase[j] /\ attempt'[j] = attempt[j]
               /\ phase'[k] \notin Calling
    BY <1>2 DEF Enter
  <1>3. CASE RegisterCreates(k)
    BY <1>3 DEF RegisterCreates
  <1>4. ASSUME NEW t \in Tokens, RegisterAnswers(k, t)
        PROVE  /\ \A j \in Clients \ {k} : phase'[j] = phase[j] /\ attempt'[j] = attempt[j]
               /\ phase'[k] \in Calling => Budget(k)' < Budget(k)
    <2> HIDE DEF Goto, Budget
    <2> QED
      BY <1>1, <1>2, <1>4 DEF RegisterAnswers
  <1>5. ASSUME NEW t \in Tokens, LoginAnswers(k, t)
        PROVE  /\ \A j \in Clients \ {k} : phase'[j] = phase[j] /\ attempt'[j] = attempt[j]
               /\ phase'[k] \in Calling => Budget(k)' < Budget(k)
    <2>1. CASE Goto(k, "prompt", 0)
      BY <2>1
    <2> HIDE DEF Goto, Budget
    <2> QED
      BY <1>1, <1>2, <1>5, <2>1 DEF LoginAnswers
  <1>6. CASE Refresh(k)
    <2> HIDE DEF Goto, Budget
    <2> QED
      BY <1>1, <1>2, <1>6 DEF Refresh
  <1>7. CASE CallFails(k)
    <2> HIDE DEF Goto, Budget
    <2> QED
      BY <1>1, <1>7 DEF CallFails
  <1> HIDE DEF Goto, Budget, IInv, TypeOK
  <1> QED
    BY <1>3, <1>4, <1>5, <1>6, <1>7 DEF Call

\* callWithRetry gives up, whatever becomes of the calls and whatever the other
\* clients do.
THEOREM CallsRunOut == Spec => []BudgetLeft /\ CallsDescend
  <1>1. ASSUME IInv, [Next]_vars, NEW k \in Clients, phase[k] \in Calling,
               phase'[k] \in Calling
        PROVE  Budget(k)' <= Budget(k) /\ (Call(k) => Budget(k)' < Budget(k))
    <2> Budget(k) \in Nat
      BY <1>1, BudgetType DEF BudgetLeft
    <2> Budget(k)' \in Nat
      <3>1. IInv'
        BY <1>1, NextInv
      <3> QED
        BY <1>1, <3>1, AttemptsAssumption DEF IInv, TypeOK, Budget
    <2>1. Call(k) => Budget(k)' < Budget(k)
      BY <1>1, CallDescends
    <2>2. ASSUME NEW j \in Clients, j # k, Call(j)
          PROVE  phase'[k] = phase[k] /\ attempt'[k] = attempt[k]
      BY <1>1, <2>2, CallDescends
    <2>3. ASSUME NEW j \in Clients, NEW command \in {"register", "login"},
                 NEW u \in Users, Ask(j, command, u)
          PROVE  phase'[k] = phase[k] /\ attempt'[k] = attempt[k]
      BY <1>1, <2>3 DEF Ask, Goto, IInv, TypeOK, Calling
    <2>4. ASSUME NEW j \in Clients, ConnectionLost(j) \/ Reconnect(j) \/ Exit(j)
          PROVE  phase'[k] = phase[k] /\ attempt'[k] = attempt[k]
      BY <1>1, <2>4 DEF ConnectionLost, Reconnect, Exit, Goto, IInv, TypeOK, Calling
    <2>5. RestartService \/ UNCHANGED vars =>
            phase'[k] = phase[k] /\ attempt'[k] = attempt[k]
      BY DEF RestartService, vars
    <2>6. phase'[k] = phase[k] /\ attempt'[k] = attempt[k] => Budget(k)' = Budget(k)
      BY DEF Budget
    <2> QED
      BY <1>1, <2>1, <2>2, <2>3, <2>4, <2>5, <2>6 DEF Next
  <1>2. IInv /\ [Next]_vars =>
          [\A k \in Clients :
              phase[k] \in Calling /\ phase'[k] \in Calling =>
                /\ Budget(k)' <= Budget(k)
                /\ Call(k) => Budget(k)' < Budget(k)]_vars
    BY <1>1
  <1> QED
    BY <1>2, BudgetType, SessionsInv, PTL DEF Spec, CallsDescend
------------------------------------------------------------------------------
(***************************************************************************)
(* The clients use the auth service as its interface permits, so what is   *)
(* proved of it alone holds of it here.                                    *)
(***************************************************************************)
LEMMA ServiceStep == IInv /\ [Next]_vars => [Service!Next]_Service!vars
  <1> SUFFICES ASSUME IInv, [Next]_vars PROVE [Service!Next]_Service!vars
    OBVIOUS
  <1> USE DEF Service!Next, Service!vars
  <1>1. \A k \in Clients : phase[k] \in Calling => name[k] \in Users
    BY DEF IInv, Owned
  <1>2. ASSUME NEW k \in Clients, RegisterCreates(k)
        PROVE  Service!Register(name[k], k)
    BY <1>2 DEF RegisterCreates, Service!Register
  <1>3. ASSUME NEW k \in Clients, NEW t \in Tokens,
               RegisterAnswers(k, t) \/ LoginAnswers(k, t)
        PROVE  Service!Login(name[k], k, t)
    BY <1>3 DEF RegisterAnswers, LoginAnswers, Service!Login, Service!Verifies
  <1>4. ASSUME NEW k \in Clients, Refresh(k)
        PROVE  [Service!Next]_Service!vars
    BY <1>4 DEF Refresh
  <1>5. ASSUME NEW k \in Clients, CallFails(k)
        PROVE  UNCHANGED Service!vars
    BY <1>5 DEF CallFails
  <1>6. ASSUME NEW k \in Clients, Call(k)
        PROVE  [Service!Next]_Service!vars
    BY <1>1, <1>2, <1>3, <1>4, <1>5, <1>6
    DEF Call, Calling, RegisterCreates, RegisterAnswers, LoginAnswers
  <1>7. CASE RestartService
    BY <1>7 DEF RestartService, Service!Restart
  <1>8. ASSUME NEW k \in Clients, NEW command \in {"register", "login"},
               NEW u \in Users, Ask(k, command, u)
        PROVE  UNCHANGED Service!vars
    BY <1>8 DEF Ask
  <1>9. ASSUME NEW k \in Clients, ConnectionLost(k) \/ Reconnect(k) \/ Exit(k)
        PROVE  UNCHANGED Service!vars
    BY <1>9 DEF ConnectionLost, Reconnect, Exit
  <1>10. CASE UNCHANGED vars
    BY <1>10 DEF vars
  <1> QED
    BY <1>6, <1>7, <1>8, <1>9, <1>10 DEF Next

\* Clients, handlers, lost calls and retries together call the auth service only
\* as AuthService allows: the composed system implements it.
THEOREM UsesService == Spec => Service!Spec
  <1>1. Init => Service!Init
    BY DEF Init
  <1> QED
    BY <1>1, ServiceStep, SessionsInv, PTL DEF Spec, Service!Spec

Called == INSTANCE AuthServiceProofs WITH Passwords <- Clients

LEMMA CalledSpec == Spec => Called!Spec
  <1>1. Service!Init => Called!Init
    BY DEF Service!Init, Called!Init
  <1>2. [Service!Next]_Service!vars => [Called!Next]_Called!vars
    BY DEF Service!Next, Service!vars, Service!Register, Service!Login,
           Service!Verifies, Service!Refresh, Service!RefreshFails, Service!Restart,
           Called!Next, Called!vars, Called!Register, Called!Login,
           Called!Verifies, Called!Refresh, Called!RefreshFails, Called!Restart
  <1> QED
    BY <1>1, <1>2, UsesService, PTL DEF Service!Spec, Called!Spec

\* Rotation, single use and ownership of refresh tokens hold from end to end,
\* with calls that are lost after they have acted and made again.
THEOREM TokensEndToEnd ==
    Spec => /\ []Service!OneLiveTokenPerLogin
            /\ []Service!LiveTokensHaveAccounts
            /\ Service!TokensAreSingleUse
  <1>1. /\ Called!OneLiveTokenPerLogin => Service!OneLiveTokenPerLogin
        /\ Called!LiveTokensHaveAccounts => Service!LiveTokensHaveAccounts
    BY DEF Called!OneLiveTokenPerLogin, Service!OneLiveTokenPerLogin,
           Called!LiveTokensHaveAccounts, Service!LiveTokensHaveAccounts,
           Called!Live, Service!Live
  <1>2. Called!TokensAreSingleUse => Service!TokensAreSingleUse
    BY PTL DEF Called!TokensAreSingleUse, Service!TokensAreSingleUse,
       Called!vars, Service!vars
  <1> QED
    BY <1>1, <1>2, CalledSpec, Called!Rotation, Called!OnlyAccounts,
       Called!SingleUse, NoUserAssumption, NoPasswordAssumption, PTL
==============================================================================
