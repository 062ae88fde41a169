\* Two clients, two connections between them, share one lock of a broker
\* without a persist dir, which restarts once and runs out of tokens.
SPECIFICATION MeshFairSpec
CONSTANTS
    Client = {p1, p2}
    Conn = {c1, c2}
    Key = {k1}
    Slot = {1, 2}
    MaxLocks = 3
    NoConn = NoConn
    Persistent = FALSE
    TokenBlock = 2
    MaxToken = 2
    MaxRestarts = 1
INVARIANTS
    MutualExclusion
    NoStrandedWaiter
    NoOrphanGrant
PROPERTIES
    HandBackIsHarmless
    AbandonedIsFreed
CHECK_DEADLOCK FALSE
