CONSTANTS
    Slots = {0}
    MIN_RECONNECT_CNT = 4
    MAX_RECONNECT_CNT = 64
    MaxTime = 1
SPECIFICATION ConnFairSpec
PROPERTY
    KeepsTrying
