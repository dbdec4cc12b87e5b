\* Two slots of two processes; the root, queued to be analyzed as well, and two
\* pages of which one may be admitted; analyses of two generations, one attempt
\* and one fault.  A crawl that has ended and is idle has nothing left to do, so
\* it may stop.
SPECIFICATION SiteSpec
SYMMETRY MCSame
CONSTANTS
    p0 = p0
    p1 = p1
    p2 = p2
    s1 = s1
    s2 = s2
    m = m
    u = u
    none = none
    Page <- MCSite
    Root = p0
    Initial <- MCHome
    Selected <- MCHome
    Seeded <- MCHome
    Slot <- MCSlot
    Maint = m
    OwnerOf <- MCOwners
    User = u
    NoOne = none
    Budget = 1
    MaxAttempts = 1
    Generation <- MCTwice
    MaxFaults = 1
INVARIANTS
    SiteTypeOK
    SnapshotAgrees
    NoOrphans
    LastReconciles
    WithinBudget
CHECK_DEADLOCK FALSE
