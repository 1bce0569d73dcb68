SPECIFICATION CalmSpec
CONSTANTS
    Requests = {r1, r2}
    Passwords = {p1, p2, p3}
    Tokens = {t1, t2}
    Resets = {k1}
    CanCrash = TRUE
    NoPassword = NoPassword
    NoToken = NoToken
SYMMETRY Symmetry
INVARIANTS
    ResetUsedOnce
    EvictionComplete
    CalmSessionsMatchPassword
PROPERTIES
    CalmLoginKeepsPassword
CHECK_DEADLOCK FALSE
