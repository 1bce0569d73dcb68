SPECIFICATION Spec
CONSTANTS
    Requests = {r1}
    Accounts = {a1, a2, a3}
    Calendars = {c1, c2}
    ByDefault = {c1}
    Tokens = {t1, t2, t3}
    Operations = {"connect", "mint", "select", "disconnect"}
    CanCrash = FALSE
    NoAccount = NoAccount
    NoToken = NoToken
SYMMETRY Symmetry
INVARIANTS
    DefaultSettled
    EveryAccountReadable
    StoredCredentialCurrent
PROPERTIES
    DroppedCredentialIsDead
    ChosenSelectionSurvives
    ImplementsBook
