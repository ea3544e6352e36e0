CONSTANTS
    Senders = {1, 2}
    Receivers = {3, 4}
    NoConn = NoConn
    NoTask = NoTask
    NoFile = NoFile
    MaxBlocks = 2
    MaxAsked = 1
    MaxConns = 3
SPECIFICATION FairSpec
INVARIANTS
    TypeOK
    SlotsLive
    FreedOnlyWhenShared
    DownloadsComplete
    InOrder
PROPERTIES
    PeerLeaves
    UploadEnds
CHECK_DEADLOCK FALSE
