\* One slot on the root and a seed, both discovered from the start, the root
\* queued to be analyzed as well, with two attempts and one fault, under
\* fairness.  An ended crawl may stop.
SPECIFICATION FairSiteSpec
CONSTANTS
    p0 = p0
    p1 = p1
    p2 = p2
    s1 = s1
    s2 = s2
    m = m
    u = u
    none = none
    Page <- MCPage
    Root = p0
    Initial <- MCPage
    Selected <- MCHome
    Seeded <- MCHome
    Slot <- MCOne
    Maint = m
    OwnerOf <- MCOwners
    User = u
    NoOne = none
    Budget = 1
    MaxAttempts = 2
    Generation <- MCFirst
    MaxFaults = 1
PROPERTIES
    SiteEnds
CHECK_DEADLOCK FALSE
