-------------------------------- MODULE Chat --------------------------------
(***************************************************************************)
(* Messages between users on several msg_servers.  A message goes from its *)
(* sender to the db_proxy, which stores it and answers in any order; the   *)
(* msg_server of the sender gives the answer to its own connections and to *)
(* the route_server, which passes it on to the other msg_servers.  Group   *)
(* messages take one more round to the db_proxy, at every msg_server, for  *)
(* the members.  Kicks of a user's earlier client, read notices and direct *)
(* commands take the same way over the route_server.                       *)
(*                                                                         *)
(* A connection is its msg_server and its handle there; a handle is taken  *)
(* again after a close.  Links are as in RouteServer: each end notices on  *)
(* its own that a link is lost.                                            *)
(*                                                                         *)
(* What a client sent behind a pdu for which it is closed is handled all   *)
(* the same (CImConn::OnRead), with the ids of the closed connection: a    *)
(* message there is like one right before the close, and is not modelled   *)
(* apart; a login there is (MsgServer).  A client fills in its own id as   *)
(* the from_user_id of a direct command.                                   *)
(***************************************************************************)
EXTENDS Integers, Sequences, FiniteSets

CONSTANTS
    Servers,       \* the msg_servers
    Conns,         \* a msg_server and a socket handle there
    Users,
    Clients,       \* a user and the class of a client that the user has
    Group,         \* the id of a group
    Members,       \* and its members
    First,         \* the clients that are logged in at the start, by connection
    None,          \* no session on a connection, no message, no sender
    Links,         \* a msg_server and the number of a link that it makes; bound: links ever made
    Kinds,         \* the kinds of message that occur
    MaxKicks,      \* bound: logins, and kicks of pc clients by mobile ones, ever
    MaxCloses,     \* bound: ends of links ever closed
    Msgs           \* bound: messages and notices ever sent

Classes == {"pc", "mobile"}     \* client types that exclude each other

\* "single" and "group" messages are stored; a "notice" goes to the user's other clients, a "p2p"
\* command to those and to another user.
AllKinds == {"single", "group", "notice", "p2p"}

ASSUME ConnsAssumption == Conns \subseteq Servers \X Nat
ASSUME ClientsAssumption == Clients \subseteq Users \X Classes
ASSUME FirstAssumption ==
    /\ DOMAIN First \subseteq Conns
    /\ \A c \in DOMAIN First : First[c] \in Clients
    /\ \A c, d \in DOMAIN First : First[c] = First[d] => c = d
ASSUME LinksAssumption ==
    /\ Links \subseteq Servers \X (Nat \ {0})
    /\ \A s \in Servers : <<s, 1>> \in Links     \* the link that is up at the start
ASSUME MembersAssumption == Members \subseteq Users
ASSUME NamesAssumption == Group \notin Users /\ None \notin Users \cup Conns \cup Nat
ASSUME FiniteAssumption == IsFiniteSet(Conns) /\ IsFiniteSet(Links)
ASSUME KindsAssumption == Kinds \subseteq AllKinds
ASSUME BoundAssumption == MaxKicks \in Nat /\ MaxCloses \in Nat

VARIABLES
    conns,     \* the validated connections, m_conn_map of all users
    msgs,      \* each message: where it came from and how far the db_proxy is with it
    infos,     \* requests of the members of a group, with the message attached
    link,      \* which ends of each link are open
    up, down,  \* pdus under way to and from the route_server
    got,       \* history: how often each connection was sent each message
    kicks,     \* history: the number of logins and of kicks by mobile clients
    rekicked,  \* history: users of whom a kick hit a client already kicked
    left       \* history: messages whose sending session was closed since

linkVars == <<link, up, down>>
vars == <<conns, msgs, infos, linkVars, got, kicks, rekicked, left>>

(* due and old are histories: whether a kick of the client is in order,    *)
(* since a later login of the user and class, or the user's mobile client, *)
(* asked for one, or one was under way at this login; the messages stored  *)
(* before it, which the client asks the database for.                      *)
Session == [user : Users, class : Classes, kicked : BOOLEAN, due : BOOLEAN, old : SUBSET Msgs]

Msg == [via : Conns, from : Users, to : Users \cup {Group}, kind : Kinds,
        state : {"asked", "stored", "done"}]

Info == [server : Servers, msg : Msgs, handle : Nat \cup {None}]
Pdu == [kind : {"data"}, msg : Msgs] \cup
       [kind : {"kick"}, user : Users, class : Classes]

ASSUME RecordsAssumption == None \notin Session \cup Msg

\* A link is open at both ends, at one, or at none
Link == {"new", "open", "route_only", "msg_only", "closed"}
MsgOpen == {"open", "msg_only"}

Init ==
    /\ conns = [c \in Conns |-> IF c \in DOMAIN First
                                THEN [user |-> First[c][1], class |-> First[c][2], kicked |-> FALSE,
                                      due |-> FALSE, old |-> {}]
                                ELSE None]
    /\ msgs = [m \in Msgs |-> None]
    /\ infos = {}
    /\ link = [l \in Links |-> IF l[2] = 1 THEN "open" ELSE "new"]
    /\ up = [l \in Links |-> <<>>]
    /\ down = [l \in Links |-> <<>>]
    /\ got = [c \in Conns |-> [m \in Msgs |-> 0]]
    /\ kicks = 0
    /\ rekicked = {}
    /\ left = {}

-----------------------------------------------------------------------------
(* Helpers *)

\* The msg_servers that have lost a link, at either end
dropped == {s \in Servers : \E l \in Links : l[1] = s /\ link[l] \notin {"new", "open"}}
Closes == Cardinality({l \in Links : link[l] \in {"route_only", "closed"}})
             + Cardinality({l \in Links : link[l] \in {"msg_only", "closed"}})

\* get_route_serv_conn()->SendPdu: what the route_server has closed reads no more
ToRoute(s, pdu) ==
    up' = [l \in Links |->
             IF l[1] = s /\ link[l] = "open"
             THEN Append(up[l], pdu) ELSE up[l]]

SessionsOf(u, s) == {c \in Conns : c[1] = s /\ conns[c] # None /\ conns[c].user = u}

\* Send message m to the connections C, after what g has recorded
Send(g, m, C) == [c \in Conns |-> IF c \in C THEN [g[c] EXCEPT ![m] = @ + 1] ELSE g[c]]

\* BroadcastClientMsgData or BroadcastPdu for the sender, except on connection from, and then
\* for the receiver
ToBoth(g, m, s, from) ==
    Send(Send(g, m, SessionsOf(msgs[m].from, s) \ {from}),
         m, SessionsOf(msgs[m].to, s))

\* KickOutSameClientType: the first connection of the class in handle order
SameClass(u, k, s) == {c \in SessionsOf(u, s) : conns[c].class = k}
Target(C) == CHOOSE c \in C : \A d \in C : c[2] <= d[2]

KickOut(u, k, s) ==
    LET C == SameClass(u, k, s)
    IN IF C = {} THEN conns ELSE [conns EXCEPT ![Target(C)].kicked = TRUE]

NoteRekick(u, k, s) ==
    LET C == SameClass(u, k, s)
    IN rekicked' = IF C # {} /\ conns[Target(C)].kicked THEN rekicked \cup {u} ELSE rekicked

KickPdu(u, k) == [kind |-> "kick", user |-> u, class |-> k]

InQueue(q, pdu) == \E i \in DOMAIN q : q[i] = pdu
UnderWay(pdu) ==
    \E l \in Links : InQueue(up[l], pdu) \/ InQueue(down[l], pdu)

Stored == {m \in Msgs : msgs[m] # None /\ msgs[m].state # "asked"}

-----------------------------------------------------------------------------
(* Clients come and go *)

NewSession(u, k) ==
    [user |-> u, class |-> k, kicked |-> FALSE, due |-> UnderWay(KickPdu(u, k)),
     old |-> Stored]

\* The earlier connections of the same user and class, on any msg_server
Supersede(cs, u, k) ==
    [d \in Conns |-> IF cs[d] # None /\ cs[d].user = u /\ cs[d].class = k
                     THEN [cs[d] EXCEPT !.due = TRUE] ELSE cs[d]]

\* A slip in the success of a login: the route_server is not told.
LoginKicksHere(c, u, k) ==
    /\ conns[c] = None /\ kicks < MaxKicks /\ <<u, k>> \in Clients
    /\ conns' = [Supersede(KickOut(u, k, c[1]), u, k) EXCEPT ![c] = NewSession(u, k)]
    /\ NoteRekick(u, k, c[1])
    /\ kicks' = kicks + 1
    /\ UNCHANGED <<msgs, infos, linkVars, got, left>>

\* A slip in the success of a login: the connection is in the user's map before the kick.
LoginKicksItself(c, u, k) ==
    /\ conns[c] = None /\ kicks < MaxKicks /\ <<u, k>> \in Clients
    /\ LET joined == [Supersede(conns, u, k) EXCEPT ![c] = NewSession(u, k)]
       IN conns' = [joined EXCEPT ![Target(SameClass(u, k, c[1]) \cup {c})].kicked = TRUE]
    /\ NoteRekick(u, k, c[1])
    /\ ToRoute(c[1], KickPdu(u, k))
    /\ kicks' = kicks + 1
    /\ UNCHANGED <<msgs, infos, link, down, got, left>>

\* _HandleValidateResponse, success: kick the user's client of the class here, have the others
\* kick theirs, take the connection into the user's map
Login(c, u, k) ==
    /\ conns[c] = None /\ kicks < MaxKicks /\ <<u, k>> \in Clients
    /\ conns' = [Supersede(KickOut(u, k, c[1]), u, k) EXCEPT ![c] = NewSession(u, k)]
    /\ NoteRekick(u, k, c[1])
    /\ ToRoute(c[1], KickPdu(u, k))
    /\ kicks' = kicks + 1
    /\ UNCHANGED <<msgs, infos, link, down, got, left>>

\* Close: a client leaves, because it was kicked or for any other reason
Close(c) ==
    /\ conns[c] # None
    /\ conns' = [conns EXCEPT ![c] = None]
    /\ got' = [got EXCEPT ![c] = [m \in Msgs |-> 0]]
    /\ left' = left \cup {m \in Msgs : msgs[m] # None /\ msgs[m].via = c}
    /\ UNCHANGED <<msgs, infos, linkVars, kicks, rekicked>>

\* _HandleKickPCClient: a mobile client has the user's pc clients kicked
KickPCClient(c) ==
    /\ conns[c] # None /\ conns[c].class = "mobile" /\ kicks < MaxKicks
    /\ LET u == conns[c].user
       IN /\ conns' = Supersede(KickOut(u, "pc", c[1]), u, "pc")
          /\ NoteRekick(u, "pc", c[1])
          /\ ToRoute(c[1], KickPdu(u, "pc"))
    /\ kicks' = kicks + 1
    /\ UNCHANGED <<msgs, infos, link, down, got, left>>

-----------------------------------------------------------------------------
(* A message on its way to the database and back.  A request or an answer  *)
(* that is lost with a connection to the db_proxy, a refusal, and an       *)
(* answer with message id 0 are a message that takes no further step.      *)

NewMsg(c, to, kind, state) ==
    [via |-> c, from |-> conns[c].user, to |-> to, kind |-> kind, state |-> state]

\* _HandleClientMsgData: to a user or to the group.  A message to oneself is turned away only if
\* the client put its own id into from_user_id.
ClientMsgData(c, m, to) ==
    /\ conns[c] # None /\ msgs[m] = None
    /\ (IF to = Group THEN "group" ELSE "single") \in Kinds
    /\ msgs' = [msgs EXCEPT ![m] = NewMsg(c, to, IF to = Group THEN "group" ELSE "single", "asked")]
    /\ UNCHANGED <<conns, infos, linkVars, got, kicks, rekicked, left>>

\* The db_proxy stores the message, the workers in any order; it refuses one to oneself
Store(m) ==
    /\ msgs[m] # None /\ msgs[m].state = "asked"
    /\ msgs[m].to # msgs[m].from
    /\ msgs[m].kind = "group" => msgs[m].from \in Members
    /\ msgs' = [msgs EXCEPT ![m].state = "stored"]
    /\ UNCHANGED <<conns, infos, linkVars, got, kicks, rekicked, left>>

\* A slip in the search for the sender's connection: whoever has the handle now is taken for it.
AskerOnHandle(u, s, h) ==
    IF \E c \in Conns : c = <<s, h>> /\ conns[c] # None THEN <<s, h>> ELSE None

\* The connection that GetMsgConnByHandle finds for the sender: its own, or one that the same user
\* has made since on the same handle
Asker(u, s, h) == LET C == {c \in SessionsOf(u, s) : c[2] = h}
                  IN IF C = {} THEN None ELSE CHOOSE c \in C : TRUE

\* _HandleMsgData: the answer to a message for a user
MsgDataAnswer(m) ==
    /\ msgs[m] # None /\ msgs[m].state = "stored" /\ msgs[m].kind = "single"
    /\ LET s == msgs[m].via[1]
       IN /\ ToRoute(s, [kind |-> "data", msg |-> m])
          /\ got' = ToBoth(got, m, s, Asker(msgs[m].from, s, msgs[m].via[2]))
    /\ msgs' = [msgs EXCEPT ![m].state = "done"]
    /\ UNCHANGED <<conns, infos, link, down, kicks, rekicked, left>>

\* HandleGroupMessage: the answer to a message for the group; ask for its members
GroupMsgAnswer(m) ==
    /\ msgs[m] # None /\ msgs[m].state = "stored" /\ msgs[m].kind = "group"
    /\ ToRoute(msgs[m].via[1], [kind |-> "data", msg |-> m])
    /\ infos' = infos \cup {[server |-> msgs[m].via[1], msg |-> m, handle |-> msgs[m].via[2]]}
    /\ msgs' = [msgs EXCEPT ![m].state = "done"]
    /\ UNCHANGED <<conns, link, down, got, kicks, rekicked, left>>

\* HandleGroupInfoResponse with a message attached: to all members here but the sending connection
GroupInfoAnswer(i) ==
    /\ infos' = infos \ {i}
    /\ got' = Send(got, i.msg, (UNION {SessionsOf(u, i.server) : u \in Members})
                                 \ {Asker(msgs[i.msg].from, i.server, i.handle)})
    /\ UNCHANGED <<conns, msgs, linkVars, kicks, rekicked, left>>

\* _HandleClientMsgReadAck, _HandleClientRemoveSessionRequest: a notice to the user's other clients
Notice(c, m) ==
    /\ "notice" \in Kinds
    /\ conns[c] # None /\ msgs[m] = None
    /\ msgs' = [msgs EXCEPT ![m] = NewMsg(c, conns[c].user, "notice", "done")]
    /\ got' = Send(got, m, SessionsOf(conns[c].user, c[1]) \ {c})
    /\ ToRoute(c[1], [kind |-> "data", msg |-> m])
    /\ UNCHANGED <<conns, infos, link, down, kicks, rekicked, left>>

\* _HandleClientP2PCmdMsg: a command to a user, oneself too, which nobody stores
P2PCmdMsg(c, m, to) ==
    /\ "p2p" \in Kinds
    /\ conns[c] # None /\ msgs[m] = None
    /\ to \in Users
    /\ msgs' = [msgs EXCEPT ![m] = NewMsg(c, to, "p2p", "done")]
    /\ got' = Send(Send(got, m, SessionsOf(conns[c].user, c[1]) \ {c}), m, SessionsOf(to, c[1]))
    /\ ToRoute(c[1], [kind |-> "data", msg |-> m])
    /\ UNCHANGED <<conns, infos, link, down, kicks, rekicked, left>>

-----------------------------------------------------------------------------
(* The links *)

\* A slip in the connecting: a link that the msg_server still has does not keep it from the next.
ConnectAgain(s) ==
    /\ \E l \in Links :
         /\ l[1] = s /\ link[l] = "new"
         /\ link' = [link EXCEPT ![l] = "open"]
    /\ UNCHANGED <<conns, msgs, infos, up, down, got, kicks, rekicked, left>>

\* serv_check_reconnect, OnConfirm and the accept: a msg_server without a link makes its next one
Connect(s) ==
    /\ \A l \in Links : l[1] = s => link[l] \notin MsgOpen
    /\ \E l \in Links :
         /\ l[1] = s /\ link[l] = "new"
         /\ \A k \in Links : k[1] = s /\ link[k] = "new" => k[2] >= l[2]
         /\ link' = [link EXCEPT ![l] = "open"]
    /\ UNCHANGED <<conns, msgs, infos, up, down, got, kicks, rekicked, left>>

\* CRouteServConn::Close: what is under way to the route_server may still arrive
MsgClose(l) ==
    /\ link[l] \in MsgOpen /\ Closes < MaxCloses
    /\ link' = [link EXCEPT ![l] = IF @ = "open" THEN "route_only" ELSE "closed"]
    /\ down' = [down EXCEPT ![l] = <<>>]
    /\ UNCHANGED <<conns, msgs, infos, up, got, kicks, rekicked, left>>

\* CRouteConn::Close
RouteClose(l) ==
    /\ link[l] \in {"open", "route_only"} /\ Closes < MaxCloses
    /\ link' = [link EXCEPT ![l] = IF @ = "open" THEN "msg_only" ELSE "closed"]
    /\ up' = [up EXCEPT ![l] = <<>>]
    /\ UNCHANGED <<conns, msgs, infos, down, got, kicks, rekicked, left>>

\* A slip in the broadcast: it goes to the link that it came from as well.
BroadcastToAll(l) ==
    /\ up[l] # <<>>
    /\ up' = [up EXCEPT ![l] = Tail(@)]
    /\ down' = [k \in Links |->
                  IF link[k] = "open"
                  THEN Append(down[k], Head(up[l])) ELSE down[k]]
    /\ UNCHANGED <<conns, msgs, infos, link, got, kicks, rekicked, left>>

\* HandlePdu of the route_server with _BroadcastMsg(pPdu, this): every other link, of whichever
\* msg_server; what a msg_server has closed is read by nobody
RouteRead(l) ==
    /\ up[l] # <<>>
    /\ up' = [up EXCEPT ![l] = Tail(@)]
    /\ down' = [k \in Links |->
                  IF k # l /\ link[k] = "open"
                  THEN Append(down[k], Head(up[l])) ELSE down[k]]
    /\ UNCHANGED <<conns, msgs, infos, link, got, kicks, rekicked, left>>

\* _HandleKickUser
ReadKick(l, s, pdu) ==
    /\ pdu.kind = "kick"
    /\ conns' = KickOut(pdu.user, pdu.class, s)
    /\ NoteRekick(pdu.user, pdu.class, s)
    /\ UNCHANGED <<infos, got>>

\* _HandleMsgData for a user, _HandleP2PMsg, _HandleMsgReadNotify, _HandleRemoveSessionNotify
ReadData(l, s, pdu) ==
    /\ pdu.kind = "data" /\ msgs[pdu.msg].kind # "group"
    /\ got' = IF msgs[pdu.msg].kind = "notice"
              THEN Send(got, pdu.msg, SessionsOf(msgs[pdu.msg].from, s))
              ELSE ToBoth(got, pdu.msg, s, None)
    /\ UNCHANGED <<conns, infos, rekicked>>

\* _HandleMsgData for a group, HandleGroupMessageBroadcast: ask for them, with handle 0
ReadGroupData(l, s, pdu) ==
    /\ pdu.kind = "data" /\ msgs[pdu.msg].kind = "group"
    /\ infos' = infos \cup {[server |-> s, msg |-> pdu.msg, handle |-> None]}
    /\ UNCHANGED <<conns, got, rekicked>>

\* HandlePdu of the msg_server's end
ServerRead(l) ==
    /\ down[l] # <<>>
    /\ down' = [down EXCEPT ![l] = Tail(@)]
    /\ LET s == l[1]
           pdu == Head(down[l])
       IN ReadKick(l, s, pdu) \/ ReadData(l, s, pdu) \/ ReadGroupData(l, s, pdu)
    /\ UNCHANGED <<msgs, link, up, kicks, left>>

-----------------------------------------------------------------------------
Next ==
    \/ \E c \in Conns :
         \/ \E u \in Users, k \in Classes : Login(c, u, k)
         \/ Close(c) \/ KickPCClient(c)
         \/ \E m \in Msgs : \/ \E to \in Users \cup {Group} : ClientMsgData(c, m, to) \/ P2PCmdMsg(c, m, to)
                            \/ Notice(c, m)
    \/ \E m \in Msgs : Store(m) \/ MsgDataAnswer(m) \/ GroupMsgAnswer(m)
    \/ \E i \in infos : GroupInfoAnswer(i)
    \/ \E s \in Servers : Connect(s)
    \/ \E l \in Links : MsgClose(l) \/ RouteClose(l) \/ RouteRead(l) \/ ServerRead(l)

Spec == Init /\ [][Next]_vars

-----------------------------------------------------------------------------
(* Properties *)

\* Types; two open links of a msg_server do not exist.
TypeOK ==
    /\ conns \in [Conns -> Session \cup {None}]
    /\ msgs \in [Msgs -> Msg \cup {None}]
    /\ infos \subseteq Info
    /\ link \in [Links -> Link]
    /\ up \in [Links -> Seq(Pdu)] /\ down \in [Links -> Seq(Pdu)]
    /\ got \in [Conns -> [Msgs -> Nat]]
    /\ kicks \in 0..MaxKicks
    /\ rekicked \subseteq Users
    /\ left \subseteq Msgs
    /\ \A k, l \in Links : link[k] \in MsgOpen /\ link[l] \in MsgOpen /\ k[1] = l[1] => k = l

\* A direct command to oneself is broadcast to one user twice, as the sender and as the receiver
ToOneself(m) == msgs[m].kind = "p2p" /\ msgs[m].to = msgs[m].from

\* How often message m may be given to the session on c
Copies(c, m) ==
    (IF c = msgs[m].via /\ conns[c].user = msgs[m].from THEN 0 ELSE 1)
      + (IF ToOneself(m) THEN 1 ELSE 0)

\* A message is given to a session at most once, and not to the one that sent it, or its
\* successor of the same user on the handle: though it goes to the sender's and the receiver's
\* clients, here and over the route_server.  Of a direct command to oneself, the sender has one
\* copy and the user's other clients, on every msg_server, have two.  The exception is the
\* msg_server that a message comes from after its link was lost: the route_server may read it from
\* the old link with the new one in its table, and passes it back (RouteConn.cpp _BroadcastMsg
\* excludes the link, not the peer).
AtMostOnce ==
    \A c \in Conns, m \in Msgs :
        conns[c] # None /\ msgs[m] # None =>
            \/ c[1] = msgs[m].via[1] /\ c[1] \in dropped
            \/ got[c][m] <= Copies(c, m)

\* The users whose clients are to see a message
Audience(m) ==
    CASE msgs[m].kind = "notice" -> {msgs[m].from}
      [] msgs[m].kind = "group" -> Members
      [] OTHER -> {msgs[m].from, msgs[m].to}

Settled(m) ==
    /\ msgs[m] # None /\ msgs[m].state = "done"
    /\ \A i \in infos : i.msg # m
    /\ ~UnderWay([kind |-> "data", msg |-> m])

\* The session on c sent message m
SentBy(c, m) == c = msgs[m].via /\ m \notin left

\* It is the same user's next one on the handle: GetMsgConnByHandle takes it for the sender
Succeeds(c, m) == c = msgs[m].via /\ m \in left /\ conns[c].user = msgs[m].from

\* When nothing of a message is under way any more, every client that is to see it, on either
\* msg_server, was sent it, finds it in the database, or is the session that sent it; unless a
\* link of the sender's or the client's msg_server was lost, or the db_proxy's.  This joins three
\* ways to the same client (the answer, the broadcast, the group's members) with logins at any
\* moment, on the sender's handle too.  One client does miss it: the sender's user, logged in
\* again on the sender's handle before the message was stored, is left out of the broadcast as if
\* it had sent the message (DBServConn.cpp _HandleMsgData, GroupChat.cpp).
NothingMissed ==
    \A c \in Conns, m \in Msgs :
        conns[c] # None /\ Settled(m) =>
            \/ conns[c].user \notin Audience(m)
            \/ got[c][m] >= 1 \/ m \in conns[c].old
            \/ SentBy(c, m)
            \/ Succeeds(c, m)
            \/ {c[1], msgs[m].via[1]} \cap dropped # {}

\* A client is told to go only when a later one of the class has logged in, or the user's mobile
\* client wants it, or its login crossed such a kick: of two logins that cross, both are kicked
\* (_HandleValidateResponse sends a kick that names no connection).  A msg_server whose link was
\* lost may have its own kick back, and kick the client that has just logged in.
LatestStays ==
    \A c \in Conns :
        conns[c] # None /\ conns[c].kicked =>
            conns[c].due \/ c[1] \in dropped

\* With no kick under way, a user has at most one client of a class, on all msg_servers, that was
\* not told to go; unless a link was lost, or a kick hit a client that was already kicked (the
\* loop of KickOutSameClientType stops at the first).
OneActive ==
    \A c, d \in Conns :
        /\ c # d /\ conns[c] # None /\ conns[d] # None
        /\ conns[c].user = conns[d].user /\ conns[c].class = conns[d].class
        /\ ~UnderWay(KickPdu(conns[c].user, conns[c].class))
        => \/ conns[c].kicked \/ conns[d].kicked
           \/ {c[1], d[1]} \cap dropped # {}
           \/ conns[c].user \in rekicked
=============================================================================
