CONSTANTS
    Workers = {w1, w2}
    Groups = {g1}
    None = None
    MaxClock = 2
    MaxRestarts = 1
    MaxFaults = 1
    MaxExhausted = 1
SPECIFICATION FairSpec
INVARIANTS
    NotForgotten
PROPERTIES
    StopReturns
    ChatSpreads
CHECK_DEADLOCK FALSE
