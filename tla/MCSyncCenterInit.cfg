CONSTANTS
    Workers = {w1, w2}
    Groups = {g1}
    None = None
    MaxClock = 3
    MaxRestarts = 1
    MaxFaults = 1
    MaxExhausted = 1
SPECIFICATION FairSpec
PROPERTIES
    InitLoads
CHECK_DEADLOCK FALSE
