\* Two publishes under way at once, over links that break, of a broker that restarts.
SPECIFICATION Spec
CONSTANTS
    Window = 2
    Retention = 1
    Retries = 1
    Spread = 2
    EarlyPublish = FALSE
    MaxSeq = 3
    MaxBreaks = 2
    MaxRestarts = 1
INVARIANTS
    AcceptedOnce
    ResolvedIsAccepted
CHECK_DEADLOCK FALSE
