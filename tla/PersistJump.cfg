\* A message published with acks 'all' behind one with acks 1.
SPECIFICATION Spec
CONSTANTS
    Key = {k1, k2}
    Modes = {"everysec"}
    Timed = {FALSE}
    Retention = 2
    OffsetBlock = 2
    AofRewriteOps = 2
    Faults = {}
    MaxOps = 2
    MaxCrashes = 1
    MaxFaults = 0
PROPERTIES
    LoggedMessagesSurvive
SYMMETRY MCSymmetry
CHECK_DEADLOCK FALSE
