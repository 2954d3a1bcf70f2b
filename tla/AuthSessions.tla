---------------------------- MODULE AuthSessions -----------------------------
(***************************************************************************)
(* Authentication from end to end: the client program (cmd/client), the    *)
(* gateway's runAuthLoop and callWithRetry (cmd/server), the gRPC handlers *)
(* of the auth service (cmd/auth-service) and authService itself.          *)
(*                                                                         *)
(* A client types in its own username or somebody else's, always with its  *)
(* own password.  A call may get lost before the service sees it or after  *)
(* it has acted; callWithRetry repeats it all the same.                    *)
(***************************************************************************)
EXTENDS Naturals, FiniteSets

CONSTANTS Clients,       \* client programs; also their passwords
          Users,
          Tokens,        \* bounds the refresh tokens ever issued
          NoUser, NoPassword, NoToken,
          AccessToken,   \* any signed access token, lower-cased by the client
          MaxAttempts    \* 3, callWithRetry

ASSUME NoUserAssumption == NoUser \notin Users
ASSUME NoPasswordAssumption == NoPassword \notin Clients
ASSUME TokenAssumption == AccessToken \notin Tokens /\ NoToken \notin Tokens
ASSUME AttemptsAssumption == MaxAttempts \in Nat \ {0}

VARIABLES accounts, refreshTokens, issued, chain,   \* the auth service
          phase,     \* phase[k]: where client k and its handler are
          name,      \* name[k]: the username of the call or session
          attempt,   \* attempt[k]: callWithRetry's attempt
          creds      \* creds[k]: the client's Credentials.RefreshToken

service == <<accounts, refreshTokens, issued, chain>>
vars == <<service, phase, name, attempt, creds>>

Service == INSTANCE AuthService WITH Passwords <- Clients

\* A gRPC call of the gateway is under way; "created" is the middle of
\* authGRPCServer.Register.
Calling == {"register", "created", "login", "refresh"}

TypeOK ==
    /\ Service!TypeOK
    /\ phase \in [Clients -> Calling \cup {"prompt", "session", "lost", "exit"}]
    /\ name \in [Clients -> Users \cup {NoUser}]
    /\ attempt \in [Clients -> 0 .. MaxAttempts]
    /\ creds \in [Clients -> Tokens \cup {AccessToken, NoToken}]

Init ==
    /\ Service!Init
    /\ phase = [k \in Clients |-> "prompt"]
    /\ name = [k \in Clients |-> NoUser]
    /\ attempt = [k \in Clients |-> 0]
    /\ creds = [k \in Clients |-> NoToken]

\* Client k, or the gateway's loop for it, goes to label l.
Goto(k, l, n) ==
    /\ phase' = [phase EXCEPT ![k] = l]
    /\ attempt' = [attempt EXCEPT ![k] = n]

\* The reply "refresh:" + token lets client k into its session.  A refresh
\* token is lower-case hex and survives the client's ToLower; AccessToken is
\* what is left of an access token.
Enter(k, token) ==
    /\ Goto(k, "session", 0)
    /\ creds' = [creds EXCEPT ![k] = token]

\* A callWithRetry that does not count its attempts.
FailUncounted(k, retry) ==
    /\ Goto(k, retry, attempt[k])
    /\ UNCHANGED <<name, creds>>

\* A callWithRetry that makes one attempt too many.
FailOneMore(k, retry) ==
    /\ IF attempt[k] <= MaxAttempts THEN Goto(k, retry, attempt[k] + 1)
                                    ELSE Goto(k, "prompt", 0)
    /\ UNCHANGED <<name, creds>>

\* The call returns an error, any error: callWithRetry makes another attempt
\* or, after the last one, sendError asks again.  A client in runSilentAuth
\* then dials once more and is asked too.
Fail(k, retry) ==
    /\ IF attempt[k] < MaxAttempts THEN Goto(k, retry, attempt[k] + 1)
                                   ELSE Goto(k, "prompt", 0)
    /\ UNCHANGED <<name, creds>>
------------------------------------------------------------------------------
\* /register or /login, with a username and the client's password
Ask(k, command, u) ==
    /\ phase[k] = "prompt"
    /\ Goto(k, command, 1)
    /\ name' = [name EXCEPT ![k] = u]
    /\ UNCHANGED <<service, creds>>

\* authGRPCServer.Register: its call of authService.Register ...
RegisterCreates(k) ==
    /\ phase[k] = "register"
    /\ Service!Register(name[k], k)
    /\ Goto(k, "created", attempt[k])
    /\ UNCHANGED <<name, creds>>

\* ... and its calls of Login and Validate.  The refresh token of Login is
\* dropped; the answer carries the access token, or gets lost.
RegisterAnswers(k, t) ==
    /\ phase[k] = "created"
    /\ Service!Login(name[k], k, t)
    /\ \/ Enter(k, AccessToken) /\ UNCHANGED name
       \/ Fail(k, "register")

\* authGRPCServer.Login, answered in the same way; the gateway may still find
\* the user logged in and ask again.
LoginAnswers(k, t) ==
    /\ phase[k] = "login"
    /\ Service!Login(name[k], k, t)
    /\ \/ Enter(k, AccessToken) /\ UNCHANGED name
       \/ Goto(k, "prompt", 0) /\ UNCHANGED <<name, creds>>
       \/ Fail(k, "login")

\* authGRPCServer.Refresh, with whatever the client kept.  A token that is in
\* the map is used up even when the lookup then fails or the answer gets lost.
Refresh(k) ==
    /\ phase[k] = "refresh"
    /\ IF creds[k] \in Tokens /\ Service!Live(creds[k])
       THEN \/ \E new \in Tokens :
                 /\ Service!Refresh(creds[k], new)
                 /\ \/ /\ Enter(k, new)
                       /\ name' = [name EXCEPT ![k] = refreshTokens[creds[k]]]
                    \/ Fail(k, "refresh")
            \/ Service!RefreshFails(creds[k]) /\ Fail(k, "refresh")
       ELSE Fail(k, "refresh") /\ UNCHANGED service

\* The call does not get through, or the service refuses it: a name that is
\* taken, a wrong password, a database that does not answer.
CallFails(k) ==
    /\ phase[k] \in Calling
    /\ Fail(k, IF phase[k] = "created" THEN "register" ELSE phase[k])
    /\ UNCHANGED service

\* The client's connection breaks.  runSession reconnects; runSilentAuth gives
\* way to a handshake or, when that cannot be dialled either, to reconnect's
\* next attempt; and runAuthHandshake exits.
ConnectionLost(k) ==
    /\ \/ phase[k] = "session" /\ Goto(k, "lost", 0)
       \/ phase[k] = "refresh" /\ \E l \in {"prompt", "lost"} : Goto(k, l, 0)
       \/ phase[k] = "prompt"  /\ Goto(k, "exit", 0)
    /\ UNCHANGED <<service, name, creds>>

\* reconnect dials and runSilentAuth sends /refresh and the stored token.
Reconnect(k) ==
    /\ phase[k] = "lost"
    /\ Goto(k, "refresh", 1)
    /\ UNCHANGED <<service, name, creds>>

\* /quit, or reconnect's six attempts to dial have failed.
Exit(k) ==
    /\ phase[k] \in {"session", "lost"}
    /\ Goto(k, "exit", 0)
    /\ UNCHANGED <<service, name, creds>>

\* The auth service is restarted.
RestartService ==
    /\ Service!Restart
    /\ UNCHANGED <<phase, name, attempt, creds>>

Call(k) ==
    \/ RegisterCreates(k)
    \/ \E t \in Tokens : RegisterAnswers(k, t) \/ LoginAnswers(k, t)
    \/ Refresh(k)
    \/ CallFails(k)

Next ==
    \/ \E k \in Clients :
        \/ \E command \in {"register", "login"}, u \in Users : Ask(k, command, u)
        \/ Call(k)
        \/ ConnectionLost(k) \/ Reconnect(k) \/ Exit(k)
    \/ RestartService

Spec == Init /\ [][Next]_vars

\* A gRPC call returns: an answer, or an error when it cannot be made.
FairSpec == Spec /\ \A k \in Clients : WF_vars(Call(k))
------------------------------------------------------------------------------
\* A client is in a session only under a name whose account was made with its
\* own password, whatever calls of whatever client were lost or repeated: a
\* retried Register neither takes a name over nor changes its password.
SessionsAreOwned ==
    \A k \in Clients : phase[k] = "session" => accounts[name[k]] = k

\* "Credentials stores the minimum information needed to reconnect without
\* prompting the user again.  RefreshToken is used instead of password"
\* (cmd/client/main.go:45-47): what a reconnecting client sends to /refresh is a
\* refresh token, one the auth service has issued.
ReconnectsByToken ==
    \A k \in Clients : phase[k] = "refresh" => creds[k] \in issued

\* "retry the gRPC call up to 3 times" (README.md:114): every call comes to an
\* end, in a session or at the prompt.
CallsEnd ==
    \A k \in Clients : phase[k] \in Calling ~> phase[k] \notin Calling
==============================================================================
