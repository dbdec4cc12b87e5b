\* One fault; the last occurrence never comes due.  Every schedule may be
\* disabled, and then nothing is left to do.
SPECIFICATION FairSchedSpec
CONSTANTS
    daily = daily
    once = once
    a = a
    b = b
    Schedule <- MCSchedule
    OneTime <- MCOneTime
    Proc <- MCProc
    NoOne = NoOne
    MaxFailures = 2
    MaxOccurrence = 2
    MaxFaults = 1
INVARIANTS SchedTypeOK OnceUnlessBroken
PROPERTIES AdvanceIsEarned DueIsHandled
CHECK_DEADLOCK FALSE
