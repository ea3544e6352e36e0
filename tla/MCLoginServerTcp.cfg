CONSTANTS
    Servers = {m1}
    Small = m1
    Links = {l1}
    Clients = {c1}
    TcpClients = {t1}
    max_conn_cnt <- MCMaxConn
    MaxQueue = 2
    Wrap = 8
SPECIFICATION FairSpec
PROPERTY
    TcpAnswered
