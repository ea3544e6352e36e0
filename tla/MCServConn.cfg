CONSTANTS
    Slots = {0, 1, 2}
    MIN_RECONNECT_CNT = 4
    MAX_RECONNECT_CNT = 8
    MaxTime = 2
SPECIFICATION ConnFairSpec
INVARIANTS
    ConnTypeOK
    MasterIsOldest
PROPERTIES
    RetriesEventually
