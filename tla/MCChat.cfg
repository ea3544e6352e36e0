CONSTANTS
    s1 = s1
    s2 = s2
    a = a
    b = b
    Servers = {s1, s2}
    Conns <- MCConns
    Users = {a, b}
    Clients <- MCClients
    Group = group
    Members = {a, b}
    First <- MCFirst
    None = None
    Links <- MCLinks
    Kinds = {"single", "group", "notice", "p2p"}
    MaxKicks = 2
    MaxCloses = 1
    Msgs = {m1}
SPECIFICATION Spec
INVARIANTS
    TypeOK
    AtMostOnce
    NothingMissed
    LatestStays
    OneActive
CHECK_DEADLOCK FALSE
