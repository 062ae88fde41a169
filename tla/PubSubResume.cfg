SPECIFICATION Spec
CONSTANTS
    a = a
    b = b
    pattern = pattern
    exact = exact
    Channel = {a, b}
    Sub = {pattern}
    Matches <- MCPattern
    NoSub = NoSub
    Durables = {TRUE, FALSE}
    Retention = 1
    OffsetBlock = 2
    Interrupts = FALSE
    MaxPublished = 3
    MaxBreaks = 1
    MaxRestarts = 1
    MaxCalls = 3
SYMMETRY MCSymmetry
INVARIANTS
    CaughtUp
    InOrderOnce
    SubscriptionsAgree
    WatermarkIsMinted
CHECK_DEADLOCK FALSE
