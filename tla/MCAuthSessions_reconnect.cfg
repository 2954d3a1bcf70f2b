\* One client, one account: it registers, its connection breaks, and it sends
\* /refresh.
SPECIFICATION Spec
CONSTANTS
    Clients = {k1}
    Users = {u1}
    Tokens = {t1, t2}
    NoUser = NoUser
    NoPassword = NoPassword
    NoToken = NoToken
    AccessToken = AccessToken
    MaxAttempts = 3
INVARIANTS
    ReconnectsByToken
