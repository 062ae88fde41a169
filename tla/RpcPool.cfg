\* Two workers, one of them the caller, whose handlers may hang, and a restart.
SPECIFICATION FairSpec
CONSTANTS
    Caller = {a}
    Worker = {a, b}
    Slot = {1, 2}
    NoClient = NoClient
    Overlap = FALSE
    MaxSession = 2
    MaxToggles = 0
    MaxRestarts = 1
PROPERTIES
    EveryCallSettles
CHECK_DEADLOCK FALSE
