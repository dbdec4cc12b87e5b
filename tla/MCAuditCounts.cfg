\* Nothing but two tasks finishing at about the same time.
SPECIFICATION AuditSpec
CONSTANTS
    Task = {t1, t2}
    Slot = {s1, s2}
    Proc = {p1}
    s1 = s1
    s2 = s2
    s3 = s3
    p1 = p1
    p2 = p2
    Home <- MCHomeShared
    MaxAttempts = 2
    NoTask = NoTask
    NoOwner = NoOwner
    Gone = Gone
    Funded = {}
    Environment = {}
INVARIANTS FailedMeansNoSuccess
\* a run that is over stops
CHECK_DEADLOCK FALSE
