SPECIFICATION Spec
CONSTANTS
    Requests = {r1, r2}
    Accounts = {a1, a2}
    Calendars = {c1}
    ByDefault = {c1}
    Tokens = {t1, t2}
    Operations = {"connect", "mint", "select", "disconnect"}
    CanCrash = TRUE
    NoAccount = NoAccount
    NoToken = NoToken
SYMMETRY Symmetry
INVARIANTS
    StatusMatchesCredential
    CredentialBelongs
