\* Two runs that want both units of a grant, under limits that let one in; a
\* window of two ticks in a clock of three.  When all is done nothing is left.
SPECIFICATION FundSpec
CONSTANTS
    g1 = g1
    g2 = g2
    w1 = w1
    w2 = w2
    a1 = a1
    a2 = a2
    p1 = p1
    p2 = p2
    Grant = {g1, g2}
    Writer = {w1, w2}
    Admission = {a1, a2}
    Value <- MCValue
    DrawOrder <- MCDrawOrder
    Home <- MCHome
    Units = 2
    Cost = 1
    Ceiling = 1
    Allowance = 1
    Window = 2
    Month = 2
    MaxClock = 3
    NoOne = NoOne
INVARIANTS FundTypeOK NoOverdraw CeilingKept WindowKept DrawsOnIssued
CHECK_DEADLOCK FALSE
