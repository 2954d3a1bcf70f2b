\* Three calls at a time on two accounts, and four tokens: two logins, each
\* refreshed, or one refreshed three times.
SPECIFICATION StepsSpec
CONSTANTS
    Calls = {k1, k2, k3}
    NoCall = NoCall
    Users = {u1, u2}
    Passwords = {p1, p2}
    Tokens = {t1, t2, t3, t4}
    NoUser = NoUser
    NoPassword = NoPassword
SYMMETRY Symmetry
INVARIANTS
    StepsTypeOK
    OneLiveTokenPerLogin
    LiveTokensHaveAccounts
PROPERTIES
    TokensAreSingleUse
    ActsAtomically
