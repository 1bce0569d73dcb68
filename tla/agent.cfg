\* Two calls of one client; two statements to remember; two turns of a session.
SPECIFICATION MCSpec
CONSTANTS
    Calls = {c1, c2}
    Tokens = {t1, t2, t3, t4, t5, t6, t7}
    NoToken = NoToken
    Writes = {w1, w2}
    MaxAttempts = 3
    NoWrite = NoWrite
    Turns = {one, two}
INVARIANTS
    HandledAtMostOnce
    RetryUsesNewToken
    NothingLostSilently
    
    NoneMeansNone
    CalmFailureIsRetried
PROPERTIES
    MintsOnlyWhenNeeded
    CallsEnd
    SessionLoads
CHECK_DEADLOCK FALSE
