\* A broker that is killed, loses power or is restarted, with writes in flight.
SPECIFICATION Spec
CONSTANTS
    Key = {k1}
    Modes = {"everysec", "always"}
    Timed = {TRUE, FALSE}
    Retention = 2
    OffsetBlock = 2
    AofRewriteOps = 2
    Faults = {"write", "short", "snapshot"}
    MaxOps = 3
    MaxCrashes = 2
    MaxFaults = 1
INVARIANTS
    OffsetsStayNew
    RetainedOnce
PROPERTIES
    RecoveryIsRecent
    PlannedRestartIsLossless
    AckedMessagesSurvive
CHECK_DEADLOCK FALSE
