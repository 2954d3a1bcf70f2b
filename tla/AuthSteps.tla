------------------------------ MODULE AuthSteps ------------------------------
(***************************************************************************)
(* authService at the grain of its database calls and its mutex: what two  *)
(* gRPC calls of the auth service, each in a goroutine of its own, do to   *)
(* one another.  Register looks a name up and inserts it later, Login      *)
(* checks a password and takes as.mu for the token later, and Refresh asks *)
(* the database in the middle of its critical section.  It implements      *)
(* AuthService, where each of them is one step.                            *)
(***************************************************************************)
EXTENDS AuthService

CONSTANTS Calls,   \* gRPC calls under way at a time
          NoCall

ASSUME NoCallAssumption == NoCall \notin Calls

VARIABLES pc,    \* pc[k]: what the goroutine of k does next
          name,  \* name[k]: its username
          word,  \* word[k]: its password
          old,   \* old[k]: the refresh token it was given
          mu     \* as.mu

callVars == <<pc, name, word, old, mu>>
stepVars == <<vars, callVars>>

StepsTypeOK ==
    /\ TypeOK
    /\ pc \in [Calls -> {"idle", "create", "issue", "reissue"}]
    /\ name \in [Calls -> Users \cup {NoUser}]
    /\ word \in [Calls -> Passwords \cup {NoPassword}]
    /\ old \in [Calls -> SUBSET Tokens]
    /\ mu \in Calls \cup {NoCall}

NoCalls ==
    /\ pc = [k \in Calls |-> "idle"]
    /\ name = [k \in Calls |-> NoUser]
    /\ word = [k \in Calls |-> NoPassword]
    /\ old = [k \in Calls |-> {}]
    /\ mu = NoCall

StepsInit == Init /\ NoCalls

\* The call k goes on with u, p and T.
Proceed(k, label, u, p, T) ==
    /\ pc' = [pc EXCEPT ![k] = label]
    /\ name' = [name EXCEPT ![k] = u]
    /\ word' = [word EXCEPT ![k] = p]
    /\ old' = [old EXCEPT ![k] = T]

Return(k) == Proceed(k, "idle", NoUser, NoPassword, {})
------------------------------------------------------------------------------
\* Register: FindByUsername finds nobody.
FindFree(k, u, p) ==
    /\ pc[k] = "idle" /\ accounts[u] = NoPassword
    /\ Proceed(k, "create", u, p, {})
    /\ UNCHANGED <<vars, mu>>

\* A users table without the UNIQUE constraint, where the last insert counts.
CreateOverwrites(k) ==
    /\ pc[k] = "create"
    /\ accounts' = [accounts EXCEPT ![name[k]] = word[k]]
    /\ Return(k)
    /\ UNCHANGED <<refreshTokens, issued, chain, mu>>

\* A Create whose arguments are the wrong way round.
CreateSwapsArguments(k) ==
    /\ pc[k] = "create"
    /\ accounts' = [accounts EXCEPT ![name[k]] = name[k]]
    /\ Return(k)
    /\ UNCHANGED <<refreshTokens, issued, chain, mu>>

\* Create: the row is inserted, unless there is one of that name by now.
Create(k) ==
    /\ pc[k] = "create"
    /\ accounts' = IF accounts[name[k]] = NoPassword
                     THEN [accounts EXCEPT ![name[k]] = word[k]] ELSE accounts
    /\ Return(k)
    /\ UNCHANGED <<refreshTokens, issued, chain, mu>>

\* A Login that takes any password for a name without an account.
CheckNothing(k, u, p) ==
    /\ pc[k] = "idle" /\ accounts[u] \in {p, NoPassword}
    /\ Proceed(k, "issue", u, p, {})
    /\ UNCHANGED <<vars, mu>>

\* Login: FindByUsername, and the password is that of the row.
Check(k, u, p) ==
    /\ pc[k] = "idle" /\ Verifies(u, p)
    /\ Proceed(k, "issue", u, p, {})
    /\ UNCHANGED <<vars, mu>>

\* A random source that repeats a token which is not in the map now.
IssueRepeats(k, t) ==
    /\ pc[k] = "issue" /\ mu = NoCall
    /\ ~Live(t)
    /\ refreshTokens' = [refreshTokens EXCEPT ![t] = name[k]]
    /\ issued' = issued \cup {t}
    /\ Return(k)
    /\ UNCHANGED <<accounts, chain, mu>>

\* IssueRefreshToken
Issue(k, t) ==
    /\ pc[k] = "issue" /\ mu = NoCall
    /\ t \notin issued
    /\ refreshTokens' = [refreshTokens EXCEPT ![t] = name[k]]
    /\ issued' = issued \cup {t}
    /\ Return(k)
    /\ UNCHANGED <<accounts, chain, mu>>

\* A Refresh that leaves the old token in the map.
KeepOld(k, t) ==
    /\ pc[k] = "idle" /\ mu = NoCall
    /\ Live(t)
    /\ mu' = k
    /\ Proceed(k, "reissue", refreshTokens[t], NoPassword, {t})
    /\ UNCHANGED vars

\* Refresh: the lock, and the old token goes.
DeleteOld(k, t) ==
    /\ pc[k] = "idle" /\ mu = NoCall
    /\ Live(t)
    /\ mu' = k
    /\ Proceed(k, "reissue", refreshTokens[t], NoPassword, {t})
    /\ refreshTokens' = [refreshTokens EXCEPT ![t] = NoUser]
    /\ UNCHANGED <<accounts, issued, chain>>

\* FindByUsername answers, the new token is stored and the mutex given back.
Reissue(k, t) ==
    /\ pc[k] = "reissue"
    /\ t \notin issued
    /\ refreshTokens' = [refreshTokens EXCEPT ![t] = name[k]]
    /\ issued' = issued \cup {t}
    /\ \E s \in old[k] : chain' = [chain EXCEPT ![t] = chain[s]]
    /\ mu' = NoCall
    /\ Return(k)
    /\ UNCHANGED accounts

\* A call fails, with the database or the random source, or ends in an error.
CallFails(k) ==
    /\ pc[k] # "idle"
    /\ mu' = IF mu = k THEN NoCall ELSE mu
    /\ Return(k)
    /\ UNCHANGED vars

\* The process starts again; the calls under way are lost.
RestartService ==
    /\ Restart
    /\ pc' = [k \in Calls |-> "idle"]
    /\ name' = [k \in Calls |-> NoUser]
    /\ word' = [k \in Calls |-> NoPassword]
    /\ old' = [k \in Calls |-> {}]
    /\ mu' = NoCall
------------------------------------------------------------------------------
StepsNext ==
    \/ \E k \in Calls :
        \/ \E u \in Users, p \in Passwords : FindFree(k, u, p) \/ Check(k, u, p)
        \/ \E t \in Tokens : Issue(k, t) \/ DeleteOld(k, t) \/ Reissue(k, t)
        \/ Create(k) \/ CallFails(k)
    \/ RestartService

StepsSpec == StepsInit /\ [][StepsNext]_stepVars

\* The token a Refresh has deleted works until that Refresh is over: nobody can
\* look in between.
TokensSeen ==
    [t \in Tokens |-> IF mu # NoCall /\ t \in old[mu] THEN name[mu]
                                                      ELSE refreshTokens[t]]

Atomic == INSTANCE AuthService WITH refreshTokens <- TokensSeen

\* Concurrent calls of Register, Login and Refresh act as if each were one step,
\* with the UNIQUE constraint and as.mu as all there is to keep them apart: two
\* Registers of a name make one account, with the password of the one that was
\* told so, and no Login comes between the two halves of a Refresh.
ActsAtomically == Atomic!Spec
==============================================================================
