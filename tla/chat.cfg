\* Requests of two tabs; two days; whatever can fail.
SPECIFICATION CalmSpec
CONSTANTS
    Requests = {r1, r2}
    Messages = {m1, m2, m3}
    Sessions = {s1, s2, s3}
    DailyLimit = 1
    MaxDay = 1
    Failures = {"flush", "delete", "stream", "expiry", "crash"}
    NoSession = NoSession
    NoMessage = NoMessage
SYMMETRY Symmetry
INVARIANTS
    QuotaUnlessLate NewSessionIsNew
    GoneResetStartsFresh
    CalmNothingLost
    CalmOneLiveSession
CHECK_DEADLOCK FALSE
