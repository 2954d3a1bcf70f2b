----------------------------- MODULE AuthService -----------------------------
(***************************************************************************)
(* authService (internal/auth/service.go) over the users table: accounts   *)
(* and opaque refresh tokens.  Register looks the name up and then         *)
(* inserts; users.username is UNIQUE, so the insert decides and the two    *)
(* are one step.  Login reads the table, which only grows, and then issues *)
(* a token under as.mu.  Refresh holds as.mu throughout.  AuthSteps shows  *)
(* that the calls act like the single steps here.                          *)
(*                                                                         *)
(* An access token only carries its user from Login or Refresh to the      *)
(* Validate of the same gRPC call, and is left out here.                   *)
(***************************************************************************)
EXTENDS FiniteSets

CONSTANTS Users,
          Passwords,
          Tokens,       \* values of rand.Read; bounds the tokens ever issued
          NoUser, NoPassword

ASSUME NoUserAssumption == NoUser \notin Users
ASSUME NoPasswordAssumption == NoPassword \notin Passwords

VARIABLES accounts,       \* accounts[u]: the password of the row of u
          refreshTokens,  \* as.refreshTokens, NoUser for an absent key
          issued,         \* tokens rand.Read has returned
          chain           \* history: the token of the Login that t stems from

vars == <<accounts, refreshTokens, issued, chain>>

TypeOK ==
    /\ accounts \in [Users -> Passwords \cup {NoPassword}]
    /\ refreshTokens \in [Tokens -> Users \cup {NoUser}]
    /\ issued \in SUBSET Tokens
    /\ chain \in [Tokens -> Tokens]

\* NewAuthService over an empty table
Init ==
    /\ accounts = [u \in Users |-> NoPassword]
    /\ refreshTokens = [t \in Tokens |-> NoUser]
    /\ issued = {}
    /\ chain = [t \in Tokens |-> t]

\* A Register without the check and without the UNIQUE constraint.
RegisterOverwrites(u, p) ==
    /\ accounts' = [accounts EXCEPT ![u] = p]
    /\ UNCHANGED <<refreshTokens, issued, chain>>

\* Register, of a name that is free
Register(u, p) ==
    /\ accounts[u] = NoPassword
    /\ accounts' = [accounts EXCEPT ![u] = p]
    /\ UNCHANGED <<refreshTokens, issued, chain>>

\* The checks of Login: the user exists and the password matches its hash.
Verifies(u, p) == accounts[u] = p

\* Login, and the token t its IssueRefreshToken stores and returns
Login(u, p, t) ==
    /\ Verifies(u, p)
    /\ t \notin issued
    /\ refreshTokens' = [refreshTokens EXCEPT ![t] = u]
    /\ issued' = issued \cup {t}
    /\ UNCHANGED <<accounts, chain>>

\* Refresh: the old token is replaced by a new one of the same user.
Refresh(old, new) ==
    /\ refreshTokens[old] # NoUser
    /\ new \notin issued
    /\ refreshTokens' = [refreshTokens EXCEPT ![old] = NoUser,
                                              ![new] = refreshTokens[old]]
    /\ issued' = issued \cup {new}
    /\ chain' = [chain EXCEPT ![new] = chain[old]]
    /\ UNCHANGED accounts

\* Refresh with the users table out of reach: the token is deleted before the
\* lookup that fails.
RefreshFails(old) ==
    /\ refreshTokens[old] # NoUser
    /\ refreshTokens' = [refreshTokens EXCEPT ![old] = NoUser]
    /\ UNCHANGED <<accounts, issued, chain>>

\* The process starts again: the accounts are in the database, the tokens are
\* gone.  rand.Read still repeats none.
Restart ==
    /\ refreshTokens' = [t \in Tokens |-> NoUser]
    /\ UNCHANGED <<accounts, issued, chain>>
------------------------------------------------------------------------------
(***************************************************************************)
(* The service on its own, called as its interface permits.                *)
(***************************************************************************)
Next ==
    \/ \E u \in Users, p \in Passwords : Register(u, p)
    \/ \E u \in Users, p \in Passwords, t \in Tokens : Login(u, p, t)
    \/ \E old, new \in Tokens : Refresh(old, new)
    \/ \E old \in Tokens : RefreshFails(old)
    \/ Restart

Spec == Init /\ [][Next]_vars

Live(t) == refreshTokens[t] # NoUser

\* A Login has at most one live refresh token, however often it was refreshed:
\* "Opaque refresh tokens with rotation" (README.md:22).
OneLiveTokenPerLogin ==
    \A s, t \in Tokens : Live(s) /\ Live(t) /\ chain[s] = chain[t] => s = t

\* A refresh token belongs to the account that logged in, until it is deleted,
\* and is never accepted again after that.
TokensAreSingleUse ==
    [][\A t \in issued : refreshTokens'[t] \in {refreshTokens[t], NoUser}]_vars

\* Only an account that exists has a refresh token that works.
LiveTokensHaveAccounts ==
    \A t \in Tokens : Live(t) => accounts[refreshTokens[t]] # NoPassword
==============================================================================
