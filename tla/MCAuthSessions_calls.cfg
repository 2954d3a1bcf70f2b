\* Two clients after each other's names; three logins succeed, and every
\* call is tried up to three times.
SPECIFICATION FairSpec
CONSTANTS
    Clients = {k1, k2}
    Users = {u1, u2}
    Tokens = {t1, t2, t3}
    NoUser = NoUser
    NoPassword = NoPassword
    NoToken = NoToken
    AccessToken = AccessToken
    MaxAttempts = 3
INVARIANTS
    TypeOK
    SessionsAreOwned
PROPERTIES
    CallsEnd
