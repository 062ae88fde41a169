\* Two keys come and go, with and without a TTL.
SPECIFICATION StoreFairSpec
CONSTANTS
    Key = {k1, k2}
    Value = {1}
    Ttl = {0, 1}
    Nothing = Nothing
    Batch = 2
    MaxValue = 2
    MaxTime = 2
INVARIANTS
    StoreTypeOK
    LogAgrees
PROPERTIES
    ImplementsTtlStore
    ExpiredIsPurged
CHECK_DEADLOCK FALSE
