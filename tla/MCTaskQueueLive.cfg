\* One row, two processes of one slot each.
SPECIFICATION FairSpec
CONSTANTS
    Task = {t1}
    Slot = {s1, s2}
    Proc = {p1, p2}
    s1 = s1
    s2 = s2
    s3 = s3
    p1 = p1
    p2 = p2
    Home <- MCHome
    MaxAttempts = 3
    NoTask = NoTask
    NoOwner = NoOwner
    Gone = Gone
INVARIANTS BudgetLeft
PROPERTIES EveryTaskSettles
