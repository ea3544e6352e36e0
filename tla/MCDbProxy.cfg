CONSTANTS
    Workers = {w1, w2}
    Kinds = {"group", "member", "history", "read"}
    MinConn = 1
    MaxConn <- MCMaxConn
    NoTask = NoTask
    MaxUuid = 2
    MaxRequests = 2
SPECIFICATION FairSpec
INVARIANTS
    TypeOK
    OneHolder
    AnswerToAsker
    HangsInTwoWays
PROPERTIES
    Served
CHECK_DEADLOCK FALSE
