\* Two connections with two requests each contend for one lock, of a broker
\* that may restart.
SPECIFICATION FairSpec
CONSTANTS
    Conn = {c1, c2}
    Key = {k1}
    Slot = {1, 2}
    NoConn = NoConn
    Persistent = TRUE
    TokenBlock = 2
    MaxToken = 100
    MaxRestarts = 1
INVARIANTS
    TokensUnique
    SupersededIsFenced
    HolderIsNotFenced
PROPERTIES
    NoOvertaking
    ReleaseEndsOwnGrant
    ImplementsMutex
    EveryWaiterIsAnswered
CHECK_DEADLOCK FALSE
