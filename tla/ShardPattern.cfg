\* Two handlers of one pattern, over shards that come and go.
SPECIFICATION Spec
CONSTANTS
    Shard = {s1, s2}
    Handler = {h1, h2}
    MaxBreaks = 3
INVARIANTS
    HeldEverywhere
    NothingLeftBehind
PROPERTIES
    ConnectFollowsOutage
CHECK_DEADLOCK FALSE
