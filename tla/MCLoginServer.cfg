CONSTANTS
    Servers = {m1, m2}
    Small = m2
    Links = {l1, l2}
    Clients = {c1, c2, c3}
    TcpClients = {t1}
    max_conn_cnt <- MCMaxConn
    MaxQueue = 2
    Wrap = 8
SYMMETRY Symmetry
SPECIFICATION Spec
INVARIANTS
    TypeOK
    CountsConverge
PROPERTIES
    AssignsLeastLoaded
