---------------------------- MODULE RouteServer -----------------------------
(***************************************************************************)
(* The presence table of a route_server: which users are online, on which  *)
(* msg_servers and on which types of client (g_user_map of CUserInfo), as  *)
(* the pdus of the msg_servers build it.                                   *)
(*                                                                         *)
(* A msg_server opens one connection (a link) at a time, sends the list of *)
(* its logged-in clients on it (IMOnlineUserInfo), then one                *)
(* IMUserStatusUpdate for each session that Sessions opens or closes.  A   *)
(* link is FIFO; its two ends close it at different times, so the          *)
(* msg_server can be back on a new link before the route_server has        *)
(* noticed that the old one is dead.                                       *)
(*                                                                         *)
(* One route_server; clients log in with an online status other than       *)
(* OFFLINE.                                                                *)
(***************************************************************************)
EXTENDS Integers, Sequences, FiniteSets

CONSTANTS
    Servers,      \* msg_servers
    Links,        \* bound: the connections ever made from a msg_server to the route_server
    Handles,      \* socket handles of client connections in a msg_server
    UserIds,      \* ids of the IMUser rows
    ClientTypes,  \* IM.BaseDefine.ClientType
    PC,           \* the client types of a pc (CHECK_CLIENT_TYPE_PC)
    MaxQueue      \* bound: pdus under way on a link

Session == [srv : Servers, handle : Handles, uid : UserIds, type : ClientTypes]

\* The other end of a link that is not made yet.
NoServer == "none"

ASSUME ServersAssumption == NoServer \notin Servers
ASSUME FiniteAssumption == IsFiniteSet(Session) /\ IsFiniteSet(Links)
ASSUME TypesAssumption == PC \subseteq ClientTypes
ASSUME MaxQueueAssumption == MaxQueue \in Nat

VARIABLES
    session,           \* the logged-in clients of all msg_servers
    peer,              \* the msg_server at the other end of each link
    msg_open,          \* links open in their msg_server (CRouteServConn::m_bOpen)
    g_route_conn_map,  \* links open in the route_server
    queue,             \* pdus under way on each link
    conns,             \* m_RouteConnSet of each user, empty: the user is not in g_user_map
    types,             \* m_ClientTypeList of each user, 0: the type is not in the list
    told,              \* history: sessions the route_server knows of from each link
    dropped,           \* history: msg_servers that have lost a link
    status_notice,     \* history: users whose last STATUS_NOTIFY broadcast said online
    pc_notice          \* history: users whose last LOGIN_STATUS_NOTIFY broadcast said ON

linkVars == <<peer, msg_open, g_route_conn_map, queue>>
tableVars == <<conns, types>>
noticeVars == <<status_notice, pc_notice>>
vars == <<session, linkVars, tableVars, told, dropped, noticeVars>>

NoTypes == [c \in ClientTypes |-> 0]

Init ==
    /\ session = {}
    /\ peer = [l \in Links |-> NoServer]
    /\ msg_open = {}
    /\ g_route_conn_map = {}
    /\ queue = [l \in Links |-> <<>>]
    /\ conns = [u \in UserIds |-> {}]
    /\ types = [u \in UserIds |-> NoTypes]
    /\ told = [l \in Links |-> {}]
    /\ dropped = {}
    /\ status_notice = {}
    /\ pc_notice = {}

SessionsOf(S, u, c) == {s \in S : s.uid = u /\ s.type = c}

\* A slip in the list: it leaves out the clients that are not on a pc.
PCSessionsOn(m) == {s \in session : s.srv = m /\ s.type \in PC}

\* GetOnlineUserInfo of msg_server m
SessionsOn(m) == {s \in session : s.srv = m}

-----------------------------------------------------------------------------
(* A msg_server *)

\* OnConfirm of a new link, with the route_server's OnConnect
Connect(m, l) ==
    /\ \A k \in msg_open : peer[k] # m
    /\ peer[l] = NoServer
    /\ peer' = [peer EXCEPT ![l] = m]
    /\ msg_open' = msg_open \union {l}
    /\ g_route_conn_map' = g_route_conn_map \union {l}
    /\ queue' = [queue EXCEPT ![l] = <<[cmd |-> "info", of |-> SessionsOn(m)]>>]
    /\ UNCHANGED <<session, tableVars, told, dropped, noticeVars>>

\* send_to_all_route_server: nothing is sent while the link is down, and what is sent on a
\* link that the route_server has closed is lost
SendUpdate(m, cmd, s) ==
    LET up == {l \in msg_open \intersect g_route_conn_map : peer[l] = m}
    IN  /\ \A l \in up : Len(queue[l]) < MaxQueue
        /\ queue' = [l \in Links |-> IF l \in up THEN Append(queue[l], [cmd |-> cmd, of |-> {s}])
                                     ELSE queue[l]]

(* Sessions!Login.  A login request needs a link; the link may be lost     *)
(* again before the db_proxy validates the user.                           *)
Login(m, h, u, c) ==
    LET s == [srv |-> m, handle |-> h, uid |-> u, type |-> c]
    IN  /\ m \in dropped \/ \E l \in msg_open : peer[l] = m
        /\ \A t \in SessionsOn(m) : t.handle # h
        /\ session' = session \union {s}
        /\ SendUpdate(m, "online", s)
        /\ UNCHANGED <<peer, msg_open, g_route_conn_map, tableVars, told, dropped, noticeVars>>

\* Sessions!Logout
Logout(s) ==
    /\ session' = session \ {s}
    /\ SendUpdate(s.srv, "offline", s)
    /\ UNCHANGED <<peer, msg_open, g_route_conn_map, tableVars, told, dropped, noticeVars>>

\* CRouteServConn::Close: the peer has closed, or SERVER_TIMEOUT without a pdu
MsgClose(l) ==
    /\ l \in msg_open
    /\ msg_open' = msg_open \ {l}
    /\ dropped' = dropped \union {peer[l]}
    /\ UNCHANGED <<session, peer, g_route_conn_map, queue, tableVars, told, noticeVars>>

-----------------------------------------------------------------------------
(* The route_server *)

Head1(l, cmd) == l \in g_route_conn_map /\ queue[l] # <<>> /\ Head(queue[l]).cmd = cmd

Take(l) ==
    /\ queue' = [queue EXCEPT ![l] = Tail(@)]
    /\ UNCHANGED <<session, peer, msg_open, g_route_conn_map, dropped>>

\* A slip in the query: any client counts.
AnyClientLogin(t) == \E c \in ClientTypes : t[c] > 0

IsPCClientLogin(t) == \E c \in PC : t[c] > 0
GetStatus(u) == IF conns[u] # {} /\ IsPCClientLogin(types[u]) THEN "online" ELSE "offline"

\* A slip in AddClientType: it only marks the type.
MarkClientType(t, c) == [t EXCEPT ![c] = 1]

AddClientType(t, c) == [t EXCEPT ![c] = @ + 1]

\* _HandleOnlineUserInfo: each session of the list makes the link and its type known
OnlineUserInfo(l) ==
    /\ Head1(l, "info")
    /\ Take(l)
    /\ LET S == Head(queue[l]).of
       IN  /\ conns' = [u \in UserIds |-> IF \E s \in S : s.uid = u THEN conns[u] \union {l} ELSE conns[u]]
           /\ types' = [u \in UserIds |-> [c \in ClientTypes |->
                            types[u][c] + Cardinality(SessionsOf(S, u, c))]]
           /\ told' = [told EXCEPT ![l] = @ \union S]
    /\ UNCHANGED noticeVars

\* _HandleUserStatusUpdate of an ONLINE update
UserOnline(l) ==
    /\ Head1(l, "online")
    /\ Take(l)
    /\ \E s \in Head(queue[l]).of :
        /\ conns' = [conns EXCEPT ![s.uid] = @ \union {l}]
        /\ types' = [types EXCEPT ![s.uid] = AddClientType(@, s.type)]
        /\ told' = [told EXCEPT ![l] = @ \union {s}]
        /\ status_notice' = IF s.type \in PC THEN status_notice \union {s.uid} ELSE status_notice
        /\ pc_notice' = IF IsPCClientLogin(types'[s.uid]) THEN pc_notice \union {s.uid} ELSE pc_notice

\* Slips in RemoveClientType: it counts every type down; it forgets the type at once.
RemoveFromAll(t, c) == [d \in ClientTypes |-> t[d] - 1]
ForgetClientType(t, c) == [t EXCEPT ![c] = 0]

\* RemoveClientType: a type that is not in the list stays out of it
RemoveClientType(t, c) == [t EXCEPT ![c] = IF @ > 0 THEN @ - 1 ELSE 0]

(* _HandleUserStatusUpdate of an OFFLINE update.  The link is forgotten    *)
(* when the user's type list, which all links share, becomes empty, and    *)
(* the user when that was the last link; with the user go the CImUsers     *)
(* that heard the LOGIN_STATUS_NOTIFY.                                     *)
UserOffline(l) ==
    /\ Head1(l, "offline")
    /\ Take(l)
    /\ \E s \in Head(queue[l]).of :
        LET u    == s.uid
            left == RemoveClientType(types[u], s.type)
        IN  /\ types' = IF l \in conns[u] THEN [types EXCEPT ![u] = left] ELSE types
            /\ conns' = IF l \in conns[u] /\ left = NoTypes THEN [conns EXCEPT ![u] = @ \ {l}] ELSE conns
            /\ told' = [told EXCEPT ![l] = @ \ {s}]
            /\ status_notice' = IF s.type \in PC /\ (conns'[u] = {} \/ ~IsPCClientLogin(types'[u]))
                                THEN status_notice \ {u} ELSE status_notice
            /\ pc_notice' = IF conns'[u] = {} \/ (s.type \in PC /\ ~IsPCClientLogin(types'[u]))
                            THEN pc_notice \ {u} ELSE pc_notice

(* CRouteConn::Close: the peer has closed, or SERVER_TIMEOUT without a     *)
(* pdu.  The pdus that were not read are lost; a user with another link    *)
(* keeps its whole type list.                                              *)
RouteClose(l) ==
    LET gone == {u \in UserIds : conns[u] \subseteq {l}}
    IN  /\ l \in g_route_conn_map
        /\ g_route_conn_map' = g_route_conn_map \ {l}
        /\ conns' = [u \in UserIds |-> conns[u] \ {l}]
        /\ types' = [u \in UserIds |-> IF u \in gone THEN NoTypes ELSE types[u]]
        /\ queue' = [queue EXCEPT ![l] = <<>>]
        /\ told' = [told EXCEPT ![l] = {}]
        /\ pc_notice' = pc_notice \ gone
        /\ dropped' = dropped \union {peer[l]}
        /\ UNCHANGED <<session, peer, msg_open, status_notice>>

Next ==
    \/ \E m \in Servers :
        \/ \E l \in Links : Connect(m, l)
        \/ \E h \in Handles, u \in UserIds, c \in ClientTypes : Login(m, h, u, c)
    \/ \E s \in session : Logout(s)
    \/ \E l \in Links :
        \/ MsgClose(l)
        \/ OnlineUserInfo(l) \/ UserOnline(l) \/ UserOffline(l)
        \/ RouteClose(l)

Spec == Init /\ [][Next]_vars

-----------------------------------------------------------------------------
(* Properties *)

TypeOK ==
    /\ session \subseteq Session
    /\ peer \in [Links -> Servers \union {NoServer}]
    /\ msg_open \subseteq Links
    /\ g_route_conn_map \subseteq Links
    /\ queue \in [Links -> Seq([cmd : {"info", "online", "offline"}, of : SUBSET Session])]
    /\ conns \in [UserIds -> SUBSET Links]
    /\ types \in [UserIds -> [ClientTypes -> Nat]]
    /\ told \in [Links -> SUBSET Session]
    /\ dropped \subseteq Servers
    /\ status_notice \subseteq UserIds
    /\ pc_notice \subseteq UserIds

\* The sessions of a user and client type that the live links have told of, link by link.
Known(u, c) == {p \in Links \X Session : p[2] \in told[p[1]] /\ p[2].uid = u /\ p[2].type = c}

\* A user of the table holds links that are open, no deleted CRouteConn, and every link
\* that told of one of its sessions; a user without a link is gone with its type list.
TableSound ==
    \A u \in UserIds :
        /\ conns[u] \subseteq g_route_conn_map
        /\ conns[u] = {} => types[u] = NoTypes
        /\ \A l \in Links : (\E s \in told[l] : s.uid = u) => l \in conns[u]

\* The table never counts fewer clients of a type than its links have told of: an OFFLINE
\* update of one msg_server takes nothing from the clients of another.  It counts more only after
\* a link was lost: Close leaves the client types that the link told of while the user has another.
NeverUndercounted ==
    \A u \in UserIds, c \in ClientTypes :
        /\ types[u][c] >= Cardinality(Known(u, c))
        /\ dropped = {} => types[u][c] = Cardinality(Known(u, c))

\* A client logged in with a pc, on a msg_server whose link is up and has no pdu under way,
\* is reported ONLINE to whoever asks (_HandleUsersStatusRequest), whatever was lost before.
PresentWhenSettled ==
    \A s \in session, l \in msg_open \intersect g_route_conn_map :
        peer[l] = s.srv /\ queue[l] = <<>> =>
            /\ s \in told[l] /\ types[s.uid][s.type] > 0
            /\ s.type \in PC => GetStatus(s.uid) = "online"

\* Until a link is lost, what the last broadcasts said of a user is what the table holds: friends
\* see it online, and its other clients see its pc logged in, exactly when it has a pc client.
NoticesAgree ==
    dropped = {} => \A u \in UserIds :
        /\ u \in status_notice <=> \E c \in PC : types[u][c] > 0
        /\ u \in pc_notice <=> \E c \in PC : types[u][c] > 0
=============================================================================
