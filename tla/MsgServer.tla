----------------------------- MODULE MsgServer ------------------------------
(***************************************************************************)
(* The client side of one msg_server process: the connections              *)
(* (CMsgConn, keyed by socket handle in g_msg_conn_map), the users         *)
(* (CImUser, found by login name and by user id in CImUserManager) and the *)
(* handlers that move a connection through them: accept, login request,    *)
(* the db_proxy's validate answer, kick, time-out, close.                  *)
(*                                                                         *)
(* The process is one reactor thread, so each handler is one action; what  *)
(* interleaves is the order of events and, above all, the answers of the   *)
(* db_proxy, which come back to a connection named only by its login name  *)
(* and its handle, after the connection may have closed and the handle may *)
(* have been taken by another one.                                         *)
(*                                                                         *)
(* A handler that calls Close does not end its connection: CImConn::OnRead *)
(* goes on to the pdus that are in the buffer already, and the object is   *)
(* deleted when OnRead returns.  closing is the connection in between.     *)
(* The model stops where the process is left with a pointer to a deleted   *)
(* connection or does what C++ leaves undefined.                           *)
(*                                                                         *)
(* A CImUser is identified by its login name: the only constructor call    *)
(* puts the object into m_im_user_map_by_name under that name when the     *)
(* name is free, and every delete erases that entry in the same handler.   *)
(***************************************************************************)
EXTENDS Integers, FiniteSets

CONSTANTS
    Handles,      \* socket handles, reused after close
    Names,        \* login names that clients send
    UserIds,      \* ids of the IMUser rows
    UserOf,       \* the id of the row the database finds for a login name, or NoUser
    ClientTypes,  \* IM.BaseDefine.ClientType
    Mobile,       \* the client types with bit 0x10 set
    MaxRequests,  \* bound: validate requests in flight for one handle and name
    MaxWaiting    \* bound: handles and names with validate requests in flight

\* The empty m_login_name of a connection that has not sent a login request.
NoName == ""
\* The m_user_id of a connection or user that is not validated.
NoUser == 0
\* A user id under which m_im_user_map holds no CImUser.
NoImUser == "null"
\* m_client_type before the login request: uninitialised in the code.
NoType == "unset"

ASSUME HandlesAssumption == Handles \subseteq Nat /\ IsFiniteSet(Handles)
ASSUME NamesAssumption == NoImUser \notin Names
ASSUME UserIdsAssumption == UserIds \subseteq Nat \ {NoUser}
\* Clients may send an empty login name, but the table IMUser has no user without a name.
ASSUME UserOfAssumption == /\ UserOf \in [Names -> UserIds \union {NoUser}]
                           /\ NoName \in Names => UserOf[NoName] = NoUser
ASSUME TypesAssumption == NoType \notin ClientTypes /\ Mobile \subseteq ClientTypes
ASSUME MaxRequestsAssumption == MaxRequests \in Nat
ASSUME MaxWaitingAssumption == MaxWaiting \in Nat

VARIABLES
    g_msg_conn_map,        \* handles of the live connections
    login_name,            \* m_login_name of each connection
    user_id,               \* m_user_id of each connection
    client_type,           \* m_client_type of each connection
    open,                  \* connections with m_bOpen
    kicked,                \* connections with m_bKickOff
    m_im_user_map_by_name, \* login names with a live CImUser
    m_im_user_map,         \* user id -> login name of the CImUser filed under it
    imuser_id,             \* m_user_id of each CImUser
    conn_map,              \* m_conn_map of each CImUser
    unvalidated,           \* m_unvalidate_conn_set of each CImUser
    requests,              \* validate requests and answers between msg_server and db_proxy
    announced,             \* ONLINE minus OFFLINE announcements sent, per user and client type
    closing,               \* the connection that its own OnRead has closed and still runs on
    late,                  \* history: the login names that a closed connection asked for
    undefined              \* whether the process has done what C++ leaves undefined

connVars == <<g_msg_conn_map, login_name, user_id, client_type, open, kicked>>
userVars == <<m_im_user_map_by_name, m_im_user_map, imuser_id, conn_map, unvalidated>>
readVars == <<closing, late, undefined>>
vars == <<connVars, userVars, requests, announced, readVars>>

\* A connection as its own Close sees it.
Conn(h) == [handle |-> h, name |-> login_name[h], uid |-> user_id[h],
            type |-> client_type[h], open |-> h \in open]
NoConn == [handle |-> -1, name |-> NoName, uid |-> NoUser, type |-> NoType, open |-> FALSE]

Init ==
    /\ g_msg_conn_map = {}
    /\ login_name = [h \in Handles |-> NoName]
    /\ user_id = [h \in Handles |-> NoUser]
    /\ client_type = [h \in Handles |-> NoType]
    /\ open = {}
    /\ kicked = {}
    /\ m_im_user_map_by_name = {}
    /\ m_im_user_map = [u \in UserIds |-> NoImUser]
    /\ imuser_id = [n \in Names |-> NoUser]
    /\ conn_map = [n \in Names |-> {}]
    /\ unvalidated = [n \in Names |-> {}]
    /\ requests = [r \in Handles \X Names |-> 0]
    /\ announced = [u \in UserIds |-> [c \in ClientTypes |-> 0]]
    /\ closing = NoConn
    /\ late = {}
    /\ undefined = FALSE

-----------------------------------------------------------------------------
(* Helpers *)

SameClass(c1, c2) == (c1 \in Mobile) <=> (c2 \in Mobile)

\* GetImUserById, as a set of at most one login name
UserById(u) == {n \in Names : u \in UserIds /\ m_im_user_map[u] = n}

\* SendUserStatusUpdate to every open login_server and route_server connection
Announce(u, c, d) == [announced EXCEPT ![u][c] = @ + d]

\* KickOutSameClientType: of the connections in cs, the first in map order of c's class
FirstOfClass(cs, c) ==
    {g \in cs : /\ SameClass(client_type[g], c)
                /\ \A k \in cs : SameClass(client_type[k], c) => g <= k}

\* Slips in the OFFLINE announcement: not for a kicked connection; only for a user's last one.
AnnouncesUnlessKicked(c) == UserById(c.uid) # {} /\ c.open /\ c.handle \notin kicked
AnnouncesLast(c) == c.open /\ \E n \in UserById(c.uid) : conn_map[n] = {c.handle}

\* The early returns of SendUserStatusUpdate: an open connection of a known user announces
Announces(c) == UserById(c.uid) # {} /\ c.open

(* CMsgConn::Close of connection c.  The CImUser filed under its user id   *)
(* loses it from both of its tables, the one filed under its login name    *)
(* from the unvalidated set, and each is deleted when its m_conn_map is    *)
(* empty, whatever its unvalidated set still holds.                        *)
CloseConn(c) ==
    LET h       == c.handle
        byId    == UserById(c.uid)
        byName  == {c.name} \intersect m_im_user_map_by_name
        left    == [n \in Names |-> IF n \in byId THEN conn_map[n] \ {h} ELSE conn_map[n]]
        removed == {n \in byId \union byName : left[n] = {}}
    IN  /\ g_msg_conn_map' = g_msg_conn_map \ {h}
        /\ open' = open \ {h}
        /\ kicked' = kicked \ {h}
        /\ login_name' = [login_name EXCEPT ![h] = NoName]
        /\ user_id' = [user_id EXCEPT ![h] = NoUser]
        /\ client_type' = [client_type EXCEPT ![h] = NoType]
        /\ announced' = IF Announces(c) THEN Announce(c.uid, c.type, -1) ELSE announced
        /\ conn_map' = left
        /\ m_im_user_map_by_name' = m_im_user_map_by_name \ removed
        /\ m_im_user_map' = [u \in UserIds |-> IF \E n \in removed : imuser_id[n] = u
                                               THEN NoImUser ELSE m_im_user_map[u]]
        /\ imuser_id' = [n \in Names |-> IF n \in removed THEN NoUser ELSE imuser_id[n]]
        /\ unvalidated' = [n \in Names |-> IF n \in removed THEN {}
                                           ELSE IF n \in byId \union byName THEN unvalidated[n] \ {h}
                                           ELSE unvalidated[n]]

\* The login names whose CImUser holds a connection that has been deleted
Dangling == {n \in Names : unvalidated[n] \ (g_msg_conn_map \union {closing.handle}) # {}}

\* The model goes on, and the reactor is ready for the next event.
Defined == ~undefined /\ Dangling = {}
Idle == closing = NoConn /\ Defined

-----------------------------------------------------------------------------
(* Handlers *)

OnConnect(h) ==
    /\ Idle /\ h \notin g_msg_conn_map
    /\ g_msg_conn_map' = g_msg_conn_map \union {h}
    /\ UNCHANGED <<login_name, user_id, client_type, open, kicked, userVars, requests, announced, readVars>>

\* What a login request for n does to the users and the db_proxy, with all servers available
AskValidate(h, n) ==
    /\ requests[<<h, n>>] < MaxRequests
    /\ Cardinality({r \in Handles \X Names : requests[r] > 0}) < MaxWaiting
    /\ m_im_user_map_by_name' = m_im_user_map_by_name \union {n}
    /\ unvalidated' = [unvalidated EXCEPT ![n] = @ \union {h}]
    /\ requests' = [requests EXCEPT ![<<h, n>>] = @ + 1]
    /\ UNCHANGED <<g_msg_conn_map, user_id, open, kicked, m_im_user_map, imuser_id, conn_map, announced, undefined>>

\* _HandleLoginRequest: a second one is refused by the login name of the first, if it had one
LoginRequest(h, n, c) ==
    /\ Idle /\ h \in g_msg_conn_map
    /\ login_name[h] = NoName
    /\ AskValidate(h, n)
    /\ login_name' = [login_name EXCEPT ![h] = n]
    /\ client_type' = [client_type EXCEPT ![h] = c]
    /\ UNCHANGED <<closing, late>>

\* The same, out of the buffer of a connection that has closed
LateLogin(n, c) ==
    /\ closing # NoConn /\ ~undefined
    /\ closing.name = NoName
    /\ AskValidate(closing.handle, n)
    /\ closing' = [closing EXCEPT !.name = n, !.type = c]
    /\ late' = late \union {n}
    /\ UNCHANGED <<login_name, client_type>>

\* A Close inside OnRead: what is left in the buffer is handled next
CloseInRead(h) == CloseConn(Conn(h)) /\ closing' = Conn(h)

\* _HandleLoginRequest with one of the three servers missing: refuse and close
LoginRefused(h) ==
    /\ Idle /\ h \in g_msg_conn_map
    /\ login_name[h] = NoName
    /\ CloseInRead(h)
    /\ UNCHANGED <<requests, late, undefined>>

\* _HandleLoginOutRequest, of a connection that is logged in or not
LoginOut(h) ==
    /\ Idle /\ h \in g_msg_conn_map
    /\ CloseInRead(h)
    /\ UNCHANGED <<requests, late, undefined>>

\* A second log-out or refused login, or a pdu that cannot be read, in the buffer of a
\* connection that has closed: Close once more, whose ReleaseRef deletes what OnRead runs on
LateClose ==
    /\ closing # NoConn /\ ~undefined
    /\ CloseConn(closing)
    /\ undefined' = TRUE
    /\ UNCHANGED <<requests, closing, late>>

\* OnRead of a connection that has closed returns: the object is deleted
ReadEnd ==
    /\ closing # NoConn /\ ~undefined
    /\ closing' = NoConn
    /\ UNCHANGED <<connVars, userVars, requests, announced, late, undefined>>

\* A slip in the match: any connection of the handle that is not open.
AnswerMatchesHandle(h, n) == n \in m_im_user_map_by_name /\ h \in g_msg_conn_map \ open

\* GetUnValidateMsgConn under the name in the answer finds a connection that is not open
AnswerMatches(h, n) ==
    n \in m_im_user_map_by_name /\ h \in unvalidated[n] /\ h \notin open

\* A slip of the db_proxy or its channel: an answer that nobody asked for.
TakeAnyAnswer(h, n) == requests' = [requests EXCEPT ![<<h, n>>] = @ - 1]

\* The answer of the db_proxy to a request of (h, n) is taken from the channel.
TakeAnswer(h, n) ==
    /\ Idle /\ requests[<<h, n>>] > 0
    /\ requests' = [requests EXCEPT ![<<h, n>>] = @ - 1]

(* _HandleValidateResponse, result 0.  If another CImUser is filed under   *)
(* the user id, the connection moves to it and the CImUser of its login    *)
(* name is deleted when it has no validated connection.                    *)
ValidateOk(h, n) ==
    LET u     == UserOf[n]
        found == UserById(u)
        owner == IF found = {} THEN n ELSE CHOOSE m \in found : TRUE
        gone  == IF found # {} /\ conn_map[n] = {} THEN {n} ELSE {}
    IN  /\ TakeAnswer(h, n)
        /\ AnswerMatches(h, n) /\ u # NoUser
        /\ m_im_user_map_by_name' = m_im_user_map_by_name \ gone
        /\ imuser_id' = [m \in Names |-> IF m \in gone THEN NoUser
                                         ELSE IF m = owner THEN u ELSE imuser_id[m]]
        /\ m_im_user_map' = IF found = {} THEN [m_im_user_map EXCEPT ![u] = owner] ELSE m_im_user_map
        /\ kicked' = kicked \union FirstOfClass(conn_map[owner] \ {h}, client_type[h])
        /\ user_id' = [user_id EXCEPT ![h] = u]
        /\ open' = open \union {h}
        /\ announced' = Announce(u, client_type[h], 1)
        /\ conn_map' = [conn_map EXCEPT ![owner] = @ \union {h}]
        /\ unvalidated' = [m \in Names |-> IF m \in gone THEN {}
                                           ELSE IF m \in {n, owner} THEN unvalidated[m] \ {h}
                                           ELSE unvalidated[m]]
        /\ UNCHANGED <<g_msg_conn_map, login_name, client_type, readVars>>

\* _HandleValidateResponse, any other result: refuse and close
ValidateFail(h, n) ==
    /\ TakeAnswer(h, n)
    /\ AnswerMatches(h, n)
    /\ CloseConn(Conn(h))
    /\ UNCHANGED readVars

\* _HandleValidateResponse, result 0 for a name without a row: doLogin of the db_proxy does not
\* look whether there was one, and answers with a user id that nobody has set
ValidateUnset(h, n) ==
    /\ TakeAnswer(h, n)
    /\ AnswerMatches(h, n) /\ UserOf[n] = NoUser
    /\ undefined' = TRUE
    /\ UNCHANGED <<connVars, userVars, announced, closing, late>>

\* _HandleValidateResponse when no such connection waits; or the db_proxy connection is lost
AnswerDropped(h, n) ==
    /\ TakeAnswer(h, n)
    /\ UNCHANGED <<connVars, userVars, announced, readVars>>

\* CRouteServConn::_HandleKickUser: user u logged in with a client of type c on another msg_server
RouteKickUser(u, c) ==
    /\ Idle
    /\ \E n \in UserById(u) : kicked' = kicked \union FirstOfClass(conn_map[n], c)
    /\ UNCHANGED <<g_msg_conn_map, login_name, user_id, client_type, open, userVars, requests, announced, readVars>>

\* CMsgConn::_HandleKickPCClient: a mobile client asks to kick the user's pc client
KickPCClient(c) ==
    /\ ~undefined /\ c.type \in Mobile
    /\ \E n \in UserById(c.uid), pc \in ClientTypes \ Mobile :
           kicked' = kicked \union FirstOfClass(conn_map[n] \ {c.handle}, pc)
    /\ UNCHANGED <<g_msg_conn_map, login_name, user_id, client_type, open, userVars, requests, announced, readVars>>

\* OnTimer: a connection that is not open 15 s after it was accepted
LoginTimeout(h) ==
    /\ Idle /\ h \in g_msg_conn_map \ open
    /\ CloseConn(Conn(h))
    /\ UNCHANGED <<requests, readVars>>

\* OnClose of the peer or after a pdu that cannot be read, or the receive time-out of OnTimer
PeerClose(h) ==
    /\ Idle /\ h \in g_msg_conn_map
    /\ CloseConn(Conn(h))
    /\ UNCHANGED <<requests, readVars>>

Next ==
    \/ \E h \in Handles :
        \/ OnConnect(h)
        \/ \E n \in Names, c \in ClientTypes : LoginRequest(h, n, c)
        \/ LoginRefused(h)
        \/ LoginOut(h)
        \/ \E n \in Names : \/ ValidateOk(h, n) \/ ValidateFail(h, n)
                            \/ ValidateUnset(h, n) \/ AnswerDropped(h, n)
        \/ Idle /\ h \in g_msg_conn_map /\ KickPCClient(Conn(h))
        \/ LoginTimeout(h)
        \/ PeerClose(h)
    \/ \E u \in UserIds, c \in ClientTypes : RouteKickUser(u, c)
    \/ \E n \in Names, c \in ClientTypes : LateLogin(n, c)
    \/ closing # NoConn /\ KickPCClient(closing)
    \/ LateClose
    \/ ReadEnd

Spec == Init /\ [][Next]_vars

-----------------------------------------------------------------------------
(* Properties *)

Closing == [handle : Handles, name : Names \union {NoName}, uid : UserIds \union {NoUser},
            type : ClientTypes \union {NoType}, open : BOOLEAN]

TypeOK ==
    /\ g_msg_conn_map \subseteq Handles
    /\ login_name \in [Handles -> Names \union {NoName}]
    /\ user_id \in [Handles -> UserIds \union {NoUser}]
    /\ client_type \in [Handles -> ClientTypes \union {NoType}]
    /\ open \subseteq Handles
    /\ kicked \subseteq Handles
    /\ m_im_user_map_by_name \subseteq Names
    /\ m_im_user_map \in [UserIds -> Names \union {NoImUser}]
    /\ imuser_id \in [Names -> UserIds \union {NoUser}]
    /\ conn_map \in [Names -> SUBSET Handles]
    /\ unvalidated \in [Names -> SUBSET Handles]
    /\ requests \in [Handles \X Names -> 0..MaxRequests]
    /\ announced \in [UserIds -> [ClientTypes -> Int]]
    /\ closing \in Closing \union {NoConn}
    /\ late \subseteq Names
    /\ undefined \in BOOLEAN

\* A CImUser found by user id is alive, carries that id and has a connection:
\* a validate answer that finds it does not delete it while it still uses it.
FiledUserAlive ==
    \A u \in UserIds, n \in Names : m_im_user_map[u] = n =>
        n \in m_im_user_map_by_name /\ imuser_id[n] = u /\ conn_map[n] # {}

\* An open connection is held by the CImUser filed under its user id, so that
\* messages reach it and its Close can announce it OFFLINE.
OpenConnOwned ==
    \A h \in open : /\ h \in g_msg_conn_map
                    /\ \E n \in UserById(user_id[h]) : h \in conn_map[n]

\* m_conn_map holds open connections only, and of its own user: no pointer to a closed one.
ConnMapSound ==
    \A n \in Names : \A h \in conn_map[n] :
        h \in open /\ n \in UserById(user_id[h])

\* m_unvalidate_conn_set holds live connections that asked for this name and wait for the
\* answer, whatever connection took their handle since.  A pointer to a closed one is left in
\* two ways only: a login request behind the pdu that closed the connection, and one with an
\* empty name, which does not keep the next from filing the connection a second time.
PendingSound ==
    \A n \in Names : \A h \in unvalidated[n] :
        /\ n \in m_im_user_map_by_name
        /\ \/ n \in late \union {NoName}
           \/ h \in g_msg_conn_map \ open /\ login_name[h] = n

\* No CImUser is leaked: one that has neither a connection nor a waiting one is gone.
NoLeakedUser ==
    \A n \in m_im_user_map_by_name : conn_map[n] # {} \/ unvalidated[n] # {}

UserTables ==
    FiledUserAlive /\ OpenConnOwned /\ ConnMapSound /\ PendingSound /\ NoLeakedUser

\* The open connections as the sessions of the abstract specification.
Sessions == INSTANCE Sessions WITH
    session <- {[handle |-> h, uid |-> user_id[h], type |-> client_type[h]] : h \in open},
    ended <- undefined

\* The announcements to the login_servers and route_servers add up to the open connections,
\* until a second Close of one connection.
AnnouncedOnce == Sessions!AnnouncedOnce

\* Each step of msg_server opens or closes one announced session, or none, or ends what it promises.
ImplementsSessions == Sessions!Spec

\* A connection is opened as the user whose name it sent, though answers name no connection but
\* a handle, which may have had another owner when the question was asked.
OpensAsAsked ==
    [][\A h \in open' \ open : login_name[h] \in Names /\ user_id'[h] = UserOf[login_name[h]]]_vars
=============================================================================
