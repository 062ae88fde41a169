\* A client that loses its link and its broker, or is closed, at any point.
SPECIFICATION FairSpec
CONSTANTS
    Sock = {s1, s2, s3}
    NoSock = NoSock
    Request = {r1}
    MaxAttempts = 2
    Bars = {TRUE, FALSE}
    MaxFaults = 4
INVARIANTS
    NoStraySocket
    PendingIsOnLink
PROPERTIES
    ComesBack
    NoOrphanBroker
CHECK_DEADLOCK FALSE
