---------------------------- MODULE LoginServer -----------------------------
(***************************************************************************)
(* The login_server, which tells a client the msg_server to use: it keeps, *)
(* for each connection of a msg_server (a link), the number of clients     *)
(* logged in there (g_msg_serv_info), and hands out the least loaded one.  *)
(*                                                                         *)
(* A msg_server opens one link at a time, sends its count on it            *)
(* (IMMsgServInfo), then one IMUserCntUpdate for each session that         *)
(* Sessions opens or closes.  A link is FIFO; its two ends close it at     *)
(* different times.  The counts are uint32_t: they wrap below zero.        *)
(***************************************************************************)
EXTENDS Integers, Sequences, FiniteSets

CONSTANTS
    Servers,     \* msg_servers
    Links,       \* connections between a msg_server and the login_server, reused after close
    Clients,     \* clients that ask over HTTP
    TcpClients,  \* clients that ask over the login protocol's TCP port
    max_conn_cnt,\* MaxConnCnt of each msg_server's configuration
    MaxQueue,    \* bound: pdus under way on a link
    Wrap         \* the number of values of a uint32_t

\* The other end of a link that was never made; the msg_server of a client that has none.
NoServer == "none"

ASSUME ServersAssumption == NoServer \notin Servers
ASSUME ClientsAssumption == IsFiniteSet(Clients)
ASSUME MaxAssumption == max_conn_cnt \in [Servers -> Nat]
ASSUME MaxQueueAssumption == MaxQueue \in Nat
ASSUME WrapAssumption == Wrap \in Nat /\ Cardinality(Clients) < Wrap

VARIABLES
    assigned,             \* the msg_server that each client was told to use and did not yet
    logged,               \* the msg_server that each client is logged in to
    peer,                 \* the msg_server at the other end of each link
    msg_open,             \* links open in their msg_server (CLoginServConn::m_bOpen)
    g_msg_serv_conn_map,  \* links open in the login_server
    queue,                \* pdus under way on each link
    g_msg_serv_info,      \* links with an entry in g_msg_serv_info
    cur_conn_cnt,         \* cur_conn_cnt of the entry of each link
    total,                \* g_total_online_user_cnt
    g_client_conn_map,    \* TCP clients that imconn_callback can find
    readable,             \* TCP clients with an unread request
    waiting               \* TCP clients that wait for an answer

linkVars == <<peer, msg_open, g_msg_serv_conn_map, queue>>
countVars == <<g_msg_serv_info, cur_conn_cnt, total>>
tcpVars == <<g_client_conn_map, readable, waiting>>
vars == <<assigned, logged, linkVars, countVars, tcpVars>>

Init ==
    /\ assigned = [c \in Clients |-> NoServer]
    /\ logged = [c \in Clients |-> NoServer]
    /\ peer = [l \in Links |-> NoServer]
    /\ msg_open = {}
    /\ g_msg_serv_conn_map = {}
    /\ queue = [l \in Links |-> <<>>]
    /\ g_msg_serv_info = {}
    /\ cur_conn_cnt = [l \in Links |-> 0]
    /\ total = 0
    /\ g_client_conn_map = {}
    /\ readable = {}
    /\ waiting = {}

-----------------------------------------------------------------------------
(* The msg_servers.  A pdu carries in "now" the count of its msg_server    *)
(* when it was sent, which only an IMMsgServInfo holds in the code.        *)

\* GetUserConnCnt
Count(m) == Cardinality({c \in Clients : logged[c] = m})

\* OnConfirm of a new link, with the login_server's OnConnect2
Connect(m, l) ==
    /\ \A k \in msg_open : peer[k] # m
    /\ l \notin msg_open \union g_msg_serv_conn_map
    /\ peer' = [peer EXCEPT ![l] = m]
    /\ msg_open' = msg_open \union {l}
    /\ g_msg_serv_conn_map' = g_msg_serv_conn_map \union {l}
    /\ queue' = [queue EXCEPT ![l] = <<[cmd |-> "info", now |-> Count(m)]>>]
    /\ UNCHANGED <<assigned, logged, countVars, tcpVars>>

\* A slip in sending: a pdu is lost while another is under way.
SendWhenIdle(m, cmd, now) ==
    LET up == {l \in msg_open \intersect g_msg_serv_conn_map : peer[l] = m /\ queue[l] = <<>>}
    IN  queue' = [l \in Links |-> IF l \in up THEN <<[cmd |-> cmd, now |-> now]>> ELSE queue[l]]

\* send_to_all_login_server: nothing is sent while the link is down, and what is sent on a
\* link that the login_server has closed is lost
SendUserCnt(m, cmd, now) ==
    LET up == {l \in msg_open \intersect g_msg_serv_conn_map : peer[l] = m}
    IN  /\ \A l \in up : Len(queue[l]) < MaxQueue
        /\ queue' = [l \in Links |-> IF l \in up THEN Append(queue[l], [cmd |-> cmd, now |-> now])
                                     ELSE queue[l]]

\* Sessions!Login, on the msg_server that the client was assigned
Login(c) ==
    LET m == assigned[c]
    IN  /\ m # NoServer
        /\ logged' = [logged EXCEPT ![c] = m]
        /\ assigned' = [assigned EXCEPT ![c] = NoServer]
        /\ SendUserCnt(m, "inc", Count(m) + 1)
        /\ UNCHANGED <<peer, msg_open, g_msg_serv_conn_map, countVars, tcpVars>>

\* Sessions!Logout
Logout(c) ==
    LET m == logged[c]
    IN  /\ m # NoServer
        /\ logged' = [logged EXCEPT ![c] = NoServer]
        /\ SendUserCnt(m, "dec", Count(m) - 1)
        /\ UNCHANGED <<assigned, peer, msg_open, g_msg_serv_conn_map, countVars, tcpVars>>

\* CLoginServConn::Close: the peer has closed, or SERVER_TIMEOUT without a pdu
MsgClose(l) ==
    /\ l \in msg_open
    /\ msg_open' = msg_open \ {l}
    /\ UNCHANGED <<assigned, logged, peer, g_msg_serv_conn_map, queue, countVars, tcpVars>>

-----------------------------------------------------------------------------
(* The login_server *)

Next1(l) == l \in g_msg_serv_conn_map /\ queue[l] # <<>>

Take(l) ==
    /\ queue' = [queue EXCEPT ![l] = Tail(@)]
    /\ UNCHANGED <<assigned, logged, peer, msg_open, g_msg_serv_conn_map, tcpVars>>

\* A slip in the new entry: it starts from zero.
MsgServInfoFromZero(l) ==
    /\ Next1(l) /\ Head(queue[l]).cmd = "info"
    /\ Take(l)
    /\ g_msg_serv_info' = g_msg_serv_info \union {l}
    /\ UNCHANGED <<cur_conn_cnt, total>>

\* _HandleMsgServInfo
MsgServInfo(l) ==
    /\ Next1(l) /\ Head(queue[l]).cmd = "info"
    /\ Take(l)
    /\ g_msg_serv_info' = g_msg_serv_info \union {l}
    /\ cur_conn_cnt' = [cur_conn_cnt EXCEPT ![l] = Head(queue[l]).now]
    /\ total' = (total + Head(queue[l]).now) % Wrap

\* _HandleUserCntUpdate
UserCntUpdate(l) ==
    LET d == IF Head(queue[l]).cmd = "inc" THEN 1 ELSE -1
    IN  /\ Next1(l) /\ Head(queue[l]).cmd # "info"
        /\ Take(l)
        /\ IF l \in g_msg_serv_info
           THEN /\ cur_conn_cnt' = [cur_conn_cnt EXCEPT ![l] = (@ + d) % Wrap]
                /\ total' = (total + d) % Wrap
           ELSE UNCHANGED <<cur_conn_cnt, total>>
        /\ UNCHANGED g_msg_serv_info

\* CLoginConn::Close of a msg_server: the peer has closed, or SERVER_TIMEOUT without a pdu
LoginClose(l) ==
    /\ l \in g_msg_serv_conn_map
    /\ g_msg_serv_conn_map' = g_msg_serv_conn_map \ {l}
    /\ queue' = [queue EXCEPT ![l] = <<>>]
    /\ g_msg_serv_info' = g_msg_serv_info \ {l}
    /\ cur_conn_cnt' = [cur_conn_cnt EXCEPT ![l] = 0]
    /\ total' = IF l \in g_msg_serv_info THEN (total - cur_conn_cnt[l]) % Wrap ELSE total
    /\ UNCHANGED <<assigned, logged, peer, msg_open, tcpVars>>

\* A slip in the choice: the first entry that is not full.
NotFull == {l \in g_msg_serv_info : cur_conn_cnt[l] < max_conn_cnt[peer[l]]}

\* The entries with the minimum count of those that are not full; which of them the code
\* takes depends on the order of the socket handles.
LeastLoaded ==
    LET free == {l \in g_msg_serv_info : cur_conn_cnt[l] < max_conn_cnt[peer[l]]}
    IN  {l \in free : \A k \in free : cur_conn_cnt[l] <= cur_conn_cnt[k]}

\* CHttpConn::_HandleMsgServRequest; without a least loaded entry the client is refused
Assign(c) ==
    /\ assigned[c] = NoServer /\ logged[c] = NoServer
    /\ \E l \in LeastLoaded : assigned' = [assigned EXCEPT ![c] = peer[l]]
    /\ UNCHANGED <<logged, linkVars, countVars, tcpVars>>

\* OnConnect2 of a TCP client, which sends its IMMsgServReq: "else" without braces
\* takes the insertion into the connection map away from clients
TcpConnect(c) ==
    /\ c \notin waiting
    /\ UNCHANGED g_client_conn_map
    /\ readable' = readable \union {c}
    /\ waiting' = waiting \union {c}
    /\ UNCHANGED <<assigned, logged, linkVars, countVars>>

\* imconn_callback: an event of a connection that is not in the map is dropped;
\* CLoginConn::_HandleMsgServRequest answers or refuses, and closes
TcpEvent(c) ==
    /\ c \in readable
    /\ readable' = readable \ {c}
    /\ waiting' = IF c \in g_client_conn_map THEN waiting \ {c} ELSE waiting
    /\ g_client_conn_map' = g_client_conn_map \ {c}
    /\ UNCHANGED <<assigned, logged, linkVars, countVars>>

Next ==
    \/ \E m \in Servers, l \in Links : Connect(m, l)
    \/ \E l \in Links : MsgClose(l) \/ MsgServInfo(l) \/ UserCntUpdate(l) \/ LoginClose(l)
    \/ \E c \in Clients : Assign(c) \/ Login(c) \/ Logout(c)
    \/ \E c \in TcpClients : TcpConnect(c) \/ TcpEvent(c)

\* The event loop hands every readable socket to its callback.
Fairness == \A c \in TcpClients : WF_vars(TcpEvent(c))

Spec == Init /\ [][Next]_vars
FairSpec == Spec /\ Fairness

-----------------------------------------------------------------------------
(* Properties *)

\* Among the types: a count is never below zero, where it would wrap, nor above the clients.
TypeOK ==
    /\ assigned \in [Clients -> Servers \union {NoServer}]
    /\ logged \in [Clients -> Servers \union {NoServer}]
    /\ peer \in [Links -> Servers \union {NoServer}]
    /\ msg_open \subseteq Links
    /\ g_msg_serv_conn_map \subseteq Links
    /\ queue \in [Links -> Seq([cmd : {"info", "inc", "dec"}, now : 0..Cardinality(Clients)])]
    /\ g_msg_serv_info \subseteq g_msg_serv_conn_map
    /\ cur_conn_cnt \in [Links -> 0..Cardinality(Clients)]
    /\ total \in 0..Wrap - 1
    /\ g_client_conn_map \subseteq TcpClients
    /\ readable \subseteq waiting
    /\ waiting \subseteq TcpClients

Settled(l) == l \in msg_open \intersect g_msg_serv_conn_map /\ queue[l] = <<>>

\* On a link that is up and has no pdu under way, the login_server counts exactly the clients
\* of the msg_server, whatever links were lost and whoever came and went while none was up.
CountsConverge ==
    \A l \in Links : Settled(l) =>
        l \in g_msg_serv_info /\ cur_conn_cnt[l] = Count(peer[l])

\* When every link of the login_server is settled, a client is only assigned a msg_server that
\* is not full and has no more clients than any other that is not full.
AssignsLeastLoaded ==
    [][\A c \in Clients :
        (assigned'[c] \notin {assigned[c], NoServer} /\ \A l \in g_msg_serv_conn_map : Settled(l)) =>
            LET m == assigned'[c]
            IN  /\ Count(m) < max_conn_cnt[m]
                /\ \A k \in {peer[l] : l \in g_msg_serv_conn_map} :
                       Count(k) < max_conn_cnt[k] => Count(m) <= Count(k)]_vars

\* A client that asks over TCP is answered (LoginConn.cpp: return a message server with
\* minimum concurrent connection count; active close after the response).
TcpAnswered == \A c \in TcpClients : c \in waiting ~> c \notin waiting
=============================================================================
