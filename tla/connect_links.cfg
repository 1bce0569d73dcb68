SPECIFICATION Spec
CONSTANTS
    Links = {l1, l2}
    Users = {u1, u2}
    Accounts = {a1, a2}
    Codes = {k1, k2, k3}
    Requests = {r1, r2}
    Ttl = 1
    MaxTime = 2
    NoUser = NoUser
    NoAccount = NoAccount
    NoLink = NoLink
    NoCode = NoCode
SYMMETRY Symmetry
INVARIANTS
    LinkBindsOnce
    ConsentedForUser
    UntriedLinkIsGood
CHECK_DEADLOCK FALSE
