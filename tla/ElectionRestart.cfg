\* Four processes start, are killed and close in any order.
SPECIFICATION FairSpec
CONSTANTS
    Proc = {p1, p2, p3, p4}
    NoProc = NoProc
    Persists = {TRUE, FALSE}
    SyncRaces = FALSE
    MaxCrashes = 2
    MaxCloses = 2
INVARIANTS
    OneWriter
PROPERTIES
    EventuallyServed
CHECK_DEADLOCK FALSE
