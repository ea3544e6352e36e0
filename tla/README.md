# TeamTalk server: a verification project

TLA+ specifications of the TeamTalk instant-messaging servers
(`src/TeamTalk/server/src`), the TLC runs that check them on small instances, and
theorems about them that TLAPS proves for every instance. Paths below are relative to
`src/TeamTalk/server/src` unless they begin with `src/`.

The repository also holds the unfinished rewrite of the network layer (`net_modify`,
`new_server`), the client applications, and third-party code (protobuf, jsoncpp, log4z,
zlib, hiredis). They are left aside: the servers that the build script makes are the
program.

## 1. Inventory

Every server is one process with one reactor thread (`base/EventDispatch.cpp`): an event
of a socket, or a timer, runs one handler to its end before the next. Only the
db_proxy_server has worker threads (and a synchronisation thread). Servers talk over TCP
connections that carry pdus in order; each end notices the loss of a connection on its
own, by the peer's close or by a time-out without a heartbeat.

| component | state it keeps | operations | what must hold |
|---|---|---|---|
| **msg_server, clients** (`msg_server/MsgConn.cpp`, `ImUser.cpp`) | connections by handle; per connection login name, user id, client type, `m_bOpen`, `m_bKickOff`, unanswered messages; users by name and by id, each with validated and unvalidated connections | accept, login request, log-out, kick, time-outs, close, and some forty requests that are passed on | no table points to a closed connection or a deleted user; a session is announced to the other servers once and taken back once; a connection is opened as the user that it named; one client per class and user |
| **msg_server, answers** (`DBServConn.cpp`) | db_proxy connections in two halves: login and the rest | one handler per response | an answer reaches the connection that asked or nobody |
| **msg_server, other servers** (`base/ServInfo.h`, `RouteServConn.cpp`, `LoginServConn.cpp`) | a slot per configured server: connection, idle count, delay; the master route_server | connect, confirm, close, the one-second timer, broadcasts | a lost server is tried again; the master is an open connection |
| **route_server** (`RouteConn.cpp`, `UserInfo.cpp`) | per user: the connections of msg_servers that told of it, and a count per client type | online list, status update, status query, broadcast, close | who is online is reported online; a lost msg_server's users are forgotten |
| **login_server** (`LoginConn.cpp`, `HttpConn.cpp`) | per msg_server connection its limit and client count; the total | msg_server info, count update, close; a client's question over HTTP or TCP | the counts follow the logins; a client gets the least loaded msg_server; every question is answered |
| **msg_server, messages** (`MsgConn.cpp`, `DBServConn.cpp`, `GroupChat.cpp`, `RouteServConn.cpp`) | none of its own: pdus under way to the db_proxy and the route_server | message to a user or a group, read and removal notices, commands, kick of the pc client | a client that is to see a message gets it once; of a user's clients of a class the latest stays, alone |
| **db_proxy_server** (`ProxyConn.cpp`, `DBPool.cpp`, `SyncCenter.cpp`, `business/`) | connections by uuid, the task queues of the workers, the response list, pools of database and cache connections, the synchronisation times | one task per request, answer, stop on SIGTERM, the synchronisation rounds | every request is answered once, to its asker; a pool never hands a connection out twice; ids are unique, rows are not doubled, what is answered is stored; no change of a group is missed |
| **file_server** (`transfer_task.cpp`, ...) | a task per transfer with its state and its two connections; a file per offline task | add, log in, pull, push, leave, timers, restart | blocks arrive whole and in order; no connection outlives its task or waits for a peer that left; abandoned tasks go away |
| **http_msg_server, push_server, msfs** | connections only | an HTTP front end, a sender of APNS packets, a store of files | pure input and output |

How they interact. A client asks the login_server for a msg_server, connects to it and
sends a login request. The msg_server asks the db_proxy, and the answer comes back named by
login name and socket handle. On success the msg_server tells every login_server
(`IMUserCntUpdate`) and every route_server (`IMUserStatusUpdate`), kicks the user's earlier
client of the same class, and asks the master route_server to broadcast the kick to the other
msg_servers. A connection of a msg_server to a route_server or a login_server starts with
the complete list or count (`OnConfirm`) and continues with changes.

Which behaviours are hard: answers that come after their connection has closed and its handle
has been taken by another; pdus that a connection handles after its own close, since they were in its
buffer (`CImConn::OnRead`); several spellings of one login name, which the database resolves to
one user; worker threads that hold one pooled connection and wait for another, that give one back and go on using
it, or never give it back; a connection
that one end has made again before the other has noticed the loss of
the old one; type lists shared by several msg_servers; counters without sign; delays that
grow and fall back; objects that deletion leaves behind in another table; three ways of a
message to the same client; look and insert as two statements of a database without keys;
a clock that is read after the query it stands for. PROJECT.json lists
them as hazards at their lines.

## 2. Modules

`Sessions` is what one msg_server promises the other servers: a set of sessions, each
announced ONLINE once when it opens and OFFLINE once when it closes, until a step (`End`) after which
it promises nothing more. `MsgServer` implements it; `RouteServer` and `LoginServer` take its Login and Logout as the steps of the msg_servers
at the other end of their links. So the chain is: the handlers of a client connection
(MsgServer) produce a well-behaved stream of announcements (Sessions), and from such a stream,
over links that fail, the presence table and the counts are right (RouteServer, LoginServer).
`Chat` composes two msg_servers and the route_server's broadcast: what one msg_server sends about
a message or a kick is what the other one does. The db_proxy is there as the step that stores a
message, in any order; `DbProxy` has its threads and pools, `MessageStore` its statements, and
`SyncCenter` the thread that works next to them.

| module | models | extends / uses |
|---|---|---|
| `Sessions` | abstract specification | |
| `MsgServer` | `MsgConn.cpp`, `ImUser.cpp`, the validate answer of `DBServConn.cpp` | INSTANCE Sessions |
| `RouteServer` | `RouteConn.cpp`, `UserInfo.cpp`, and the msg_server's end in `RouteServConn.cpp` | |
| `LoginServer` | `LoginConn.cpp`, `HttpConn.cpp`, and the msg_server's end in `LoginServConn.cpp` | |
| `DbProxy` | `ProxyConn.cpp`, `ThreadPool.cpp`, `DBPool.cpp`, `CachePool.cpp`, and seven handlers of `business/` as sequences of pool operations | |
| `FileTransfer` | `transfer_task.cpp`, its manager, and the client connections of the file_server | |
| `Chat` | messages, notices, commands and kicks between msg_servers: `MsgConn.cpp`, `ImUser.cpp`, `DBServConn.cpp`, `GroupChat.cpp`, `RouteServConn.cpp`, `RouteConn.cpp` | |
| `MessageStore` | what a message between two users, a removal and a reading do to the database and redis: `MessageContent.cpp`, `RecentSession.cpp`, the models they call | |
| `SyncCenter` | `SyncCenter.cpp`, `Condition.cpp`, `CGroupModel::updateGroupChat` | |
| `ServConn` | `ServInfo.h` with `RouteServConn.cpp` Connect, OnConfirm, Close, master | |
| `MsgServerProofs` | theorems about a msg_server: its connections, what it promises the others, its connections to them | EXTENDS MsgServer, ServConn; those of Sessions by INSTANCE |
| `RouteServerProofs`, `LoginServerProofs`, `DbProxyProofs`, `FileTransferProofs`, `ChatProofs`, `MessageStoreProofs`, `SyncCenterProofs` | theorems | each EXTENDS its module |
| `MCMsgServer`, `MCRouteServer`, `MCLoginServer`, `MCDbProxy`, `MCFileTransfer`, `MCServConn`, `MCChat`, `MCMessageStore`, `MCSyncCenter` | instances for TLC | |

Operators commented as slips (`AnnouncesLast`, `FirstOpen`, ...) are not part of any
specification. Each is the operator above or below it with one plausible error; put in its
place it makes a run fail, which shows that the property of that run depends on that piece of
code. PROJECT.json ("mutants") says which.

### MsgServer

A connection is its socket handle; handles are reused after a close, as the kernel does.
A `CImUser` is identified with its login name: the constructor files it under that name only
when the name is free, and every delete erases that entry. The variables keep the names of the
code's maps. One action is one handler, with everything it calls: `CloseConn` is
`CMsgConn::Close` with the removal of the connection from the user's two tables, the deletion
of the user, and `SendUserStatusUpdate`; `ValidateOk` is the success branch of
`_HandleValidateResponse` with the move of the connection to the user filed under its id and
the kick of the earlier client. `requests` counts the validate requests under way for each
(handle, name): the db_proxy's workers answer in any order, and an answer whose connection is
gone, or whose db_proxy connection is lost, is dropped (`AnswerDropped`).

A `Close` in a handler of a pdu (`CloseInRead`: a log-out, a refused login) does not end the
connection: `CImConn::OnRead` (`base/imconn.cpp:144`) goes on to the pdus behind it in the buffer, and the
object is deleted when `imconn_callback` lets go of it. `closing` is the connection in between, with the
name, user and flags that it keeps. It may still send a login request (`LateLogin`), which files a connection
that is about to be deleted, or have the user's pc client kicked; `ReadEnd` deletes it. The model stops in
two cases. After `ReadEnd` a `CImUser` may be left with a pointer to the deleted connection (`Dangling`): what
the process does when it follows that is not defined. And it stops when `undefined` holds: a second `Close` in
the same read (`LateClose`) deletes the object under `OnRead`, after it has announced OFFLINE again; an
answer of success for a name without a row (`ValidateUnset`) carries a user id that `doLogin`
(`business/InterLogin.cpp:54`) has not set. Clients may send an empty login name (`NoName`), which the test
for a second login request takes for none.

Messages are in `Chat`; they, the send list and the requests that are only passed on touch none of these tables.
`client_type` of a connection without a login request is uninitialised in the code; it is
`NoType`, which no property and no guard of an open connection can see.

### RouteServer

`peer`, `msg_open`, `g_route_conn_map` and `queue` are the links: open in the msg_server, open in
the route_server, and the pdus in between. `MsgClose` and `RouteClose` are independent, so a
msg_server can be back on a new link while its old one is still in the table. `conns` and
`types` are `m_RouteConnSet` and `m_ClientTypeList` of each user, 0 standing for a type that is
not in the list. `told` is a history of the sessions known from each link: the reference that
the table is compared with. `dropped` remembers which msg_servers have lost a link; some
properties hold only until then, and they say so. `status_notice` and `pc_notice` remember the
last broadcasts about each user. Clients log in with an online status other than OFFLINE (a
client that logs in as OFFLINE is counted at login but left out of the list of a new link);
with several route_servers each has its own links and table.

### LoginServer

As in RouteServer, links with two ends. Links are reused after both ends have closed.
`cur_conn_cnt` and `total` wrap at `Wrap`, the number of values of their `uint32_t`.
A client is assigned a msg_server (`Assign`, over HTTP) and may log in there later, or never, and
a msg_server takes clients beyond its limit: the limit is known to the login_server only.
`TcpConnect` and `TcpEvent` model the TCP port next to it, as the code has it: `OnConnect2` does
not insert a client's connection into `g_client_conn_map`.

### DbProxy

The reactor thread reads a request and pushes it on the list of a random worker (`HandlePduBuf`);
the worker runs its handler and puts the answer on `s_response_pdu_list`, which the loop sends out
to the connection with the request's uuid, if there still is one. Workers meet in the pools, so
a handler is the list of its borrowings, releases and failing statements, in the order of the code,
nested calls included: `Handler` has seven, one for each pattern of borrowing. `GetConn` is
`GetDBConn` and `GetCacheConn`, which are the same: a free connection, a new one within the
limit, or a wait for the condition variable; `GetNull` is the path on which the new connection
cannot be made. A release goes to the connection's own pool (`CDBManager::RelDBConn`). Two operations
are errors that the code makes. `Free` gives the connection back while the handler goes on using it: `clearMessageCount`
between its two commands, and `removeRepeatUser` after each user. `Drop` forgets it: the end of the use
of a connection that is back in the pool already or, for an empty set of users in `removeRepeatUser`, the loss of
one that is not. `spoilt` is the history of the connections that this happened to. A handler may also return
without an answer, at once (`RefuseTask`: the pdu does not parse, the group, type or length is invalid) or
because its request has none (`EndSilently`); `silent` is their history. After SIGTERM, nothing changes until `Exit`.
`asked`, `got` and `requests` are histories.

### FileTransfer

One task, since tasks do not interact. The connections are those that the two users ever make, numbered in
that order:
a client whose connection breaks makes another one, often before the server has noticed. `ptr` is
`transfer_task_` of each connection; deleting the task makes every other pointer to it "freed",
and the model ends at the first use of such a pointer (`UseFreed`), or of one to a deleted connection
(`undefined`). `reading` is a connection that has closed in a read with more pdus in its buffer, as `closing` in
MsgServer: it may log in again (`LateLogin`) or close again (`CloseTwice`) before `ReadEnd` deletes it. A
connection that has logged in may do so again, to the task or to another one (`LoginElsewhere`); that overwrites
`transfer_task_` and leaves the place in the first task as it is. `strayed` is the history of the
connections that went astray in one of these ways, `shared` of a login that found another connection in its
place. `self` is a transfer from a user to itself, which nobody turns away: both roles then have `from_conn_` for
their place (`IsFrom`), the receiver of an online one is never found, and the second login closes its own
connection (`LoginAlone`). `ChangePullState` returns TRUE in states that
it calls invalid, as the code does. `Close` is `FileClientConn::Close` with
`DeleteTransferTaskByConnClose`. Offsets are counted in blocks of `SEGMENT_SIZE`. The file
survives a `Restart`, and a download finds its task in it again (`Loads`). A client asks
for blocks in order and answers what it is asked; it may leave at any point.

### ServConn

A slot of `serv_info_t` is null, connecting, open, or dead: an object whose `netlib_connect`
failed at once. `Tick` is a round of the one-second timer over all slots. The clock is
`get_tick_count`, which two confirmations may read in the same millisecond. It is the time of day
(`util.cpp:65`), which is assumed not to be set back.

### Chat

A connection is its msg_server and its handle there, and `conns` holds the validated ones: how they
become so is `MsgServer`'s. A message (`msgs`) is "asked" until the db_proxy has stored it, "stored"
until its answer is handled, then "done"; a lost request, a lost answer, a refusal (as of a message to
oneself, in `Store`) and an answer with message id 0 are all a message that takes no further step. A direct
command to oneself is turned away by nobody (`P2PCmdMsg`). `MsgDataAnswer` is `_HandleMsgData`
of `DBServConn`: to the route_server, to the sender's other clients, to the receiver's clients.
`GroupMsgAnswer` asks for the members of the group with the message attached (`infos`), as
`ReadGroupData` does on every other msg_server, and `GroupInfoAnswer` gives it to the members. The
sender's connection is found again by user and handle (`Asker`), and so may be a successor of the
same user. `up` and `down` are the links to the route_server, as in RouteServer; `RouteRead` is
`_BroadcastMsg`, which leaves out the link that a pdu came from, and so sends a pdu back to its
msg_server when that is on a new link already.

`KickOut` is `KickOutSameClientType` with the order of the handles. `due` and `old` of a session,
`got`, `rekicked` and `left` are histories: whether a kick of the client is in order, which messages it
finds in the database, how often it was sent each, whether a kick hit a client that was
already kicked, and the messages whose sending session has closed since. What a client sent behind its own
close is a message like one right before it, and is not modelled apart. The members of the group do not change. Left out: the list of unacknowledged
messages, which feeds only a counter of the log; the limit of 20 messages a second; push.

### MessageStore

An action is one SQL statement or redis command of a worker, with the code up to the next one;
`works` says whether it succeeds. `Look` and `Add` are the two halves of `addSession`, for the sender's
session and the receiver's, whose result `sendMessage` stores in the same variable
(`nSessionId`); `FindRelation` ... `Reset` are `getRelationId` with `addRelation`. What a failure leads
to is what the code does: a query without a result is an empty one, an insertion of a message that
failed is not looked at, nor is an audio message that is turned away (`SkipAudio`) or whose audio could not be
saved (`SaveAudio`), after its id was taken, and redis' -1 is a message id like any other (`ErrId`). `raced` and `early` are
histories of the two races that the properties delimit, `failed` and `over` of what
`AckedReaches` excuses. The slave database is the master in the shipped configuration; a slave
that lags is not modelled.

### SyncCenter

`pc` is the step of `doSyncGroupChat`. A message of a group reads the clock and then writes
`lastChated` (`ReadTime`, `UpdateGroupChat`); the thread queries, then reads the clock for the time of the
last update (`Query`, `UpdateLast`), then brings the members' sessions up to date. The members of
a group are alike, and `updated` is the time in their sessions. `missed` is the history of the
groups that a round may pass over, and each place that adds to it says why. A session that a member has
removed gets its time too, but stays hidden. `exhausted` are the pools all of whose connections are held by
workers that wait for ever, as DbProxy shows that they may: the thread (`Asks`, `Served`) and the workers
wait for those without a time-out (`DBPool.cpp:348`). The wait of 5 s is
untimed: it may end at any point. The condition variable is waited on without its mutex, and a
signal without a waiter is lost.

## 3. Runs

| run | question | bounds, and why they are enough |
|---|---|---|
| `MsgServer` | Do the tables stay sound, is each session announced once, does MsgServer implement Sessions, is a connection opened as the user that it named? | Two handles, four names (two spellings of one user, another user, the empty name), two client types of different classes, three requests under way, of different handles or names. Two handles are a connection and the one that takes its place or shares its user; two spellings are enough for the move between two `CImUser`s; one request with the empty name and one without it file a connection twice. Proved without bounds. |
| `RouteServer` | Does the table hold what the live links told, never less; is a user online when its msg_server's link is settled; do the notices agree with the table? | Two msg_servers, two links, two handles, one user, a pc and a mobile type, two pdus under way on a link. Links are not reused, so two of them give either one link of each msg_server or the second life of one; users do not interact, so one is enough. |
| `LoginServer` | Do the counts converge to the logins and never wrap; is the least loaded msg_server chosen? | Limits 2 and 1, three clients: one msg_server can be full, both can be, and the counts can be equal or different. `Wrap = 8` is out of reach of three clients in any correct execution, so that a wrap violates TypeOK. |
| `LoginServerTcp` | Is a TCP client answered? **No.** | One client. |
| `DbProxy` | Is no pooled connection lent twice or lost, does each answer reach its asker, can workers wait on each other, is every request answered? | Two workers, pools of one connection (the master's of one or two), two connections of msg_servers in sequence or at once, two requests of any of four kinds. Two workers are the least that can wait on each other or share a connection; of the three kinds left out two do nothing that a group message does not, and one is a further order of two pools. |
| `FileTransfer` | Do blocks arrive in order and whole over second logins and restarts, are pointers between task and connections sound, is nobody left waiting, does an upload end? | Three connections, at most two of one user, files of no, one and two blocks, one unanswered request at a login: a first, a last and an only block, a second login of either side on the same or another connection, and the peer that leaves. A connection logs in in one role only; behind its own close, another login, another close or the end of the read follows. |
| `ServConn` | Is the master the oldest open connection, are delays bounded, is every lost server tried again? | Three slots, delays 2, 4, 8, 4 ..., confirmation times 0..2: with three slots the master can fall and leave two candidates, of the same or different age. |
| `ServConnStuck` | Does a slot keep trying? **No.** | One slot. |
| `Chat` | Does each client that is to see a message get it, once; is only a superseded client kicked, and is one left? | Two msg_servers, one with two handles and one end of a link that closes, two users of whom one has a pc and a mobile client, two logins or kicks, one message of each of four kinds. Messages do not interact but through connections, so one is enough; two handles are a successor, a second client on the sender's msg_server, or a kick that stops at the first; two logins cross. |
| `MessageStore` | Are message ids unique, rows not doubled, and is what is answered where the receiver looks for it? | Two workers, two users, three requests (texts one way, audio the other, a removal, a reading), one statement that fails. Two workers race each other, and the third request meets what they left. That redis fails to give an id twice (the first exception of `IdsUnique`) takes one fault more than the run has. |
| `SyncCenter` | Is a message of a group forgotten, does it reach the members, does the stop end? | Two workers, one group, two seconds, one restart, one fault, one exhausted pool: groups do not interact; two workers are a message before a round's update and one across it; two seconds are the times of a message and of a round that is before, at the same time or after it. |
| `SyncCenterInit` | Does a new process go on from the saved time? **No.** | The same over three seconds. |

The models of LoginServer, RouteServer and ServConn are checked with deadlock detection: no
state is without a next step. MsgServer and FileTransfer stop where the process has done what is not
defined. DbProxy may exit, in FileTransfer all connections may have
come and gone, in Chat nobody may be logged in any more, and in MessageStore and SyncCenter all requests
may be answered or the thread have ended. MsgServer uses symmetry over the two spellings, RouteServer and
LoginServer over links and clients or handles, MessageStore over workers; the runs with liveness use none.

### Bounds in the guards

`MaxRequests` (validate requests under way for one handle and name), `MaxWaiting` (handles and names that have some) and `MaxQueue` (pdus under
way on a link) stop a sender; the code has no such limit. In FileTransfer `MaxBlocks` bounds the blocks of a
file, `MaxAsked` the requests that a client owes an answer to when it logs in again, and `MaxConns` the connections
that the two users make. A login that would overfill a
queue is not lost but waits for a receiver. `MaxTime` ends the growth of the clock that stamps
confirmations. In DbProxy `MaxUuid` bounds the connections ever accepted and
`MaxRequests` the requests ever read. `Links` in RouteServer and Chat is a bound on the number of links ever made.
In Chat `Msgs` are the messages ever sent, `MaxKicks` bounds logins and kicks and `MaxCloses` the ends of
links that close; in MessageStore `MaxRequests` bounds the requests ever taken and `MaxFaults`, as in SyncCenter,
the statements that ever fail; in SyncCenter `MaxClock` ends the time, `MaxRestarts` bounds the restarts and `MaxExhausted` the pools that
are exhausted in the life of a process.

### Fairness

Safety is checked under the specifications without fairness. Liveness assumes only what the
event loop gives. In ServConn, that the timer goes on firing and that a connecting socket is
confirmed, refused or timed out. In DbProxy, that the loop goes round and that a worker
thread that can run does; since the requests are bounded, a worker that waits for a pool is
passed over only so often, and starvation under an endless load is not shown. In FileTransfer, that the timer
goes round, that the handling of a read ends, and that a client answers what it is asked or its connection ends (a silent one is
closed after `CLIENT_TIMEOUT`). In SyncCenter, that the thread runs where no exhausted pool keeps it
waiting, its wait included, which ends after 5 s, and that the signal handler goes on once it has begun;
nothing is assumed of the workers, that they ever give a connection back, of the signal, or of a restart. In LoginServer, that the event loop hands a readable socket
to its callback; this makes the counterexample of `TcpAnswered` a fault of the callback and not
of a loop that stopped.

### What the failing runs show

* **TCP client** (`LoginServerTcp`). The `else` before the insertion in `OnConnect2`
  (`LoginConn.cpp:85`) has no braces. A client's connection is never in the map in which
  `imconn_callback` looks for it: no event of it is handled, and no time-out either. HTTP is not
  concerned.
* **Dead slot** (`ServConnStuck`). `serv_check_reconnect` stores the new object whether its
  `Connect` obtained a socket or not (`ServInfo.h:47`). Without a socket there is no event, and
  without an entry in the connection map no timer, to close it: the slot never becomes NULL again.
* **Synchronisation after a restart** (`SyncCenterInit`). The condition of `init` (`SyncCenter.cpp:138`) is
  inverted: a saved time is overwritten with the current one, and a missing one is read, as 0. Groups
  that chatted between the last round of a process and the start of the next are passed over.

Others are delimited by properties of passing runs, which say where the good behaviour ends:

* **Pdus behind a close** (`UserTables`, `ImplementsSessions`, `SlotsLive`). `CImConn::OnRead` hands the next
  pdu in its buffer to a connection that has just closed. A login request there files a connection in
  `m_unvalidate_conn_set`, or in the place of a transfer, that is deleted when `OnRead` returns; a second
  log-out announces OFFLINE again and deletes the connection under `OnRead`.
* **The empty login name** (`UserTables`). `_HandleLoginRequest` (`MsgConn.cpp:398`) takes a connection with the
  empty name for one that has not asked. Its `Close` does find the user of the empty name and takes the
  connection out; but a second request under another name files the connection a second time, and `Close`
  looks under that name only.
* **Early and missing releases** (`OneHolder`, `HangsInTwoWays`). `clearMessageCount` (`GroupMessageModel.cpp:185`)
  and `removeRepeatUser` (`GroupModel.cpp:684`) give a redis connection back and use it again, so that two
  workers may use it at once; for an empty set of users, `removeRepeatUser` never gives it back. No other
  handler of the seven does so, and none does with a connection of a database.
* **Requests without an answer** (`Served`). Handlers return without one when a pdu does not parse or is invalid
  (`MessageContent.cpp:133`, `:157`, `:243`).
* **A kick that stops too early** (`OneActive`, `rekicked`). `KickOutSameClientType` (`ImUser.cpp:162`) leaves
  its loop at the first connection of the class in handle order. A kicked connection is not closed
  by the server (`HandleKickUser` sends the pdu; its `Close` is commented out) but by the client. Until
  then a further login of the class kicks the same one again, and two active clients are left.
* **Crossing logins** (`LatestStays`). The kick that a login sends to the other msg_servers names no
  connection: of two logins that cross each kicks the other, and none is left.
* **Echoes** (`AtMostOnce`, `LatestStays`). A pdu that the route_server reads when its sender is on a new link
  already goes back to the sender: a message twice, or a kick of the client that has just logged in.
* **Ghost clients** (`NeverUndercounted`). `CRouteConn::Close` (`RouteConn.cpp:63`) removes the link from a
  user's set; the client types that the link told of are shared with the user's other links and stay,
  so that the count is exact only until a link is lost.
* **Logins in an invalid state** (`FreedOnlyWhenShared`). `ChangePullState` (`transfer_task.cpp:126`, `:297`)
  breaks out with `rv` still TRUE. It lets a sender that lost its connection before the first block
  come back, but also a second connection take the place of a live one, after which the close of
  either deletes the task under the other. In an online transfer to oneself, the receiver's login finds the
  sender in its place, closes, and deletes the task under it. There is no other way to that.
* **Second logins to another task** (`SlotsLive`, `PeerLeaves`). A connection that logs in to another task leaves
  the first with a pointer to itself, and does not tell it when it closes (`file_client_conn.cpp:264`).
* **Commands to oneself** (`AtMostOnce`). A direct command to oneself is broadcast to the user's clients twice,
  as the sender's and as the receiver's, and comes back to the client that sent it (`MsgConn.cpp:743`).
* **A successor on the handle** (`NothingMissed`). The sender's connection is found by user and handle when the
  answer comes (`DBServConn.cpp:510`). A client of the same user that has logged in on that handle since the message
  was sent, and before it was stored, is taken for the sender and never sees the message.
* **Doubled rows and ids** (`OneRow`, `IdsUnique`, `AckedReaches`). Two workers that look before either inserts
  make two rows; a relation's ids are reset when others can see it; a look or an insertion that fails
  counts as one that did its work. An audio message of four bytes at most, or whose audio could not be saved
  (`MessageModel.cpp:169`), is answered with its id and not stored.
* **The window of a round** (`NotForgotten`). A message noted between the query of a round and its update of
  the time, or across that update, is passed over until the group's next one. And after a spurious wake-up, which
  `waitTime` takes for the signal, no round comes any more.
* **The stop hangs** (`StopReturns`, `ChatSpreads`). When a pool that the thread waits for is exhausted, it never
  ends its round, and `stopSync` (`SyncCenter.cpp:110`) keeps the reactor in its signal handler for ever.
* **The pool hangs** (`HangsInTwoWays`) on group messages. `sendMessage`
  (`GroupMessageModel.cpp:105`) holds a master connection while `updateGroupChat` asks for another. As
  many of them at once as the pool has connections wait for ever, and the shipped configuration has
  48 workers and 16 connections. The lost connections of `removeRepeatUser` drain a pool in the end. No other
  mix of the modelled handlers hangs, and otherwise every request is answered or its handler sends no
  answer (`Served`).

## 4. Theorems

Every invariant and action property that a passing run checks is also proved, for every value
of the constants: any numbers of msg_servers, links, clients, workers, users and messages, any
pool limits and files, and any values of the bounds. The runs came first, and the inductive
invariants below were checked on their instances before they were proved.

| theorem | says | argument |
|---|---|---|
| `SessionsAnnouncedOnce` | announcements add up to sessions | one session more or less changes one cardinality by one |
| `MsgServerTypeOK`, `MsgServerUserTables` | types; no dangling pointer but for a login behind a close and the empty name, no leaked user, open connections are found by user id | `UserTables` is the conjunction of five parts that are inductive only together |
| `MsgServerOpensAsAsked` | a connection is opened as the user that it named | an action property, from the invariant of the tables |
| `MsgServerImplementsSessions` | every step of MsgServer is a step of Sessions or a stutter | refinement mapping: the open connections are the sessions, and what is not defined is the end |
| `MsgServerAnnouncedOnce` | announcements add up to open connections | from the two above, without an induction of its own |
| `ServConnTypeOK`, `ServConnMasterIsOldest`, `ServConnDelayBounded` | the master is an open connection that none is older than; delays are bounded | needs that confirmation times are not after the clock |
| `RouteServerTypeOK`, `RouteServerTableSound`, `RouteServerNeverUndercounted`, `RouteServerNoticesAgree`, `RouteServerPresentWhenSettled` | the presence table holds what the live links told, never less; it follows the logins; the broadcasts say the same | by what the pdus of a link lead to |
| `LoginServerTypeOK`, `LoginServerCountsConverge` | counts stay within 0..number of clients; a settled link's count is exact | by the chain of counts on a link |
| `LoginServerAssignsLeastLoaded` | when all links are settled, a client is only assigned a msg_server with the fewest clients of those that are not full | an action property: the minimum over the counts is one over the msg_servers, since the counts have converged |
| `DbProxyAnswerToAsker` | a connection is sent answers to its own requests only | by the way of a request |
| `DbProxyTypeOK`, `DbProxyOneHolder`, `DbProxyHangsInTwoWays` | a pooled connection is in one place, but for the redis connections that two functions spoil; workers that all wait were hung by group messages or a drained pool | by what a handler holds at each of its steps |
| `FileTransferTypeOK`, `FileTransferSlotsLive`, `FileTransferFreedOnlyWhenShared` | no pointer between a task and its connections dangles, but for connections that went astray and unless a login finds another in its place | by who is in which place |
| `FileTransferDownloadsComplete`, `FileTransferInOrder` | what is offered is whole; blocks come in order, each once | by what each state of a task says of the blocks |
| `ChatTypeOK`, `ChatLatestStays`, `ChatOneActive` | only a superseded client is kicked, and of two clients of a class one is, but for lost links | by the way of a kick |
| `ChatAtMostOnce`, `ChatNothingMissed` | a message is given to a client once (a command to oneself once more), and to every client that is to see it, but for lost links and the sender's successor on its handle | by the way of a message |
| `MessageStoreTypeOK`, `MessageStoreIdsUnique`, `MessageStoreOneRow`, `MessageStoreAckedReaches` | row ids are rows; ids are unique, rows not doubled, and what is answered reaches its receiver, but for the named races and failures | by what a worker holds between two statements |
| `SyncCenterTypeOK`, `SyncCenterNotForgotten` | no time is ahead of the clock; a group message is forgotten only as the property says | by a group's way through a round |

### The inductive invariants

**MsgServer.** Why `UserTables` needs its parts together: a validate answer looks the connection up by
name and handle; that it finds the asker or nobody is `PendingSound` (the unvalidated set holds only live
connections that asked under that name). When the user's id is already taken, the connection
moves to that user; that the user found is alive is `FiledUserAlive`, whose preservation by
`Close` needs `ConnMapSound`; that `Close` announces OFFLINE exactly for what was announced ONLINE
is `OpenConnOwned`. `PendingSound` excepts the names that a connection asked for behind its own close
(`late`) and the empty one; `ClosingInv` says that while that connection is being read it is in no map, and
that the `CImUser`s of those names hold it: so when it is deleted nothing is left of them, or the model has
reached `Dangling`. A second close of it is the last step that Sessions allows (`End`). For `MsgServerOpensAsAsked`,
`FiledByName`: a user filed under an id has a name that the database maps to that id.

**RouteServer** (`LinkInv`, `TableInv`). That an OFFLINE update never takes down another's count needs that
its session is counted: so the invariant says what the pdus under way on a link will make of the
sessions that the link told of. `UnderWay`: read one after the other they lead (`Leads`) from
those to the present sessions of the link's msg_server, each pdu adding a session that is not known
or taking away one that is. It holds for a link whose msg_server is gone as well, but for where
the pdus lead. A settled link has none under way, so what it told is what there is, and the table
holds it. `FirstLists` is for the exact counts and the notices: a list of a msg_server that has lost
no link is empty, and so hides no login from the broadcasts.

**LoginServer** (`Chain`, `Latest`). After each pdu of a link the receiver's count is the one the sender
had when it sent the pdu, consecutive pdus differ by one in the right direction, and the last
one carries the present number of clients. A link is settled exactly when the chain is empty.
To state it, each pdu carries the sender's count at the time as a ghost (`now`); for the
increments the code sends no number and the receiver reads none.

**DbProxy** (`WayInv`, `PoolInv`). A request is in a worker's list, in a worker or in the response list,
and there it names a uuid that was given out, on which it was read. Uuids only grow, so a connection that
comes later is never named by it; closing a connection takes nothing away from what is under way.
For the pools, `Follows`: what a worker holds is what its handler has borrowed up to its step
(`Borrowed`), early releases and lost connections included (`Flows`), so that any other return with a connection
still borrowed would not fit. `Places` is `OneHolder` connection by connection, and lists where one that
is not spoilt can be: only those of `unread` and `group_member` are ever spoilt (`Spoils`). The handlers borrow in the order master, unread, slave,
group_member (`Rank`), except that a group message asks for a second connection of the master pool. So of
workers that all wait, take the one that waits for the pool of the highest rank: whoever holds a connection of
that pool waits for one of the same pool, which only a group message does; or nobody holds one, so that all of
them were lost and the pool is drained (`Drained`). That a pool has a connection at all is `MinConn >= 1`; the code's is 2
(`DBPool.cpp:17`, `CachePool.cpp:18`).

**FileTransfer** (`PtrInv`, `BlocksInv`). `HoldersOpen`: who holds the task is open, or is
the closed connection that is being read and has gone astray. `PlacesByUser`: a place holds a connection of its
role, and an online transfer to oneself has none for the receiver. `AloneInPlace`: without
shared places the connections that hold an online task are those that the task names, and an offline task has
one; so a close that deletes the task leaves nobody with it. `BothThere`: a transfer that runs has both its
connections, so that the login that closes for want of the other one is that of a transfer to oneself. The blocks are numbered in
the order of the file (`DiskInOrder`), and the state of the task says how many there are (`Fresh`,
`UploadCounts`). An online transfer keeps them in order because one is under way at a time: `OneAsked`
relates the pull that the sender owes to the number of blocks that the receiver was given.

**Chat, kicks** (`KicksUp`, `KicksDown`, `ActiveInv`). A session is endangered by a queue when it is not due and
a kick in the queue would hit it. On the way to the route_server a kick endangers only the
msg_server that it comes from, where the client that asked for it is; a client of the class that logs in while
one is under way is due itself (`NewSession`). The broadcast leaves out the link the kick came on,
and `TypeOK` says it is the msg_server's only one, unless that end was closed: so on the way to a
msg_server a kick endangers nobody there, unless that msg_server lost a link. `UpSound` says
that a link with something under way was made. Conversely, of two clients of a class that no kick
has hit, on different msg_servers, one asked for a kick that is still coming to the other (`KickPending`); on the
same msg_server there are no two, since the login kicks the other at once, unless that kick
hit one that was already kicked (`rekicked`).

**Chat, messages** (`OnceInv`, `MissInv`). At most once: before its answer nothing of a message is under
way and nobody was sent it (`Quiet`); on the way to the route_server it is there once, and
no other msg_server has sent it or asked for its members (`UpFirst`); on the way to a msg_server it is
there once, ahead of everything else there (`DownOnce`), and so is a request for the members (`InfoOnce`).
Never missed: a client that is to see an answered message and was not sent it has it coming
(`NotMissed`): as a request for the members at its own msg_server (`Asked`) or on a link from the sender's
msg_server or to its own (`Travels`), unless one of the two lost a link. When nothing is under way,
neither can be.

**MessageStore** (`IdInv`, `RowInv`, `ReachInv`). For each relation whose ids were not reset too late: no
message and no id in a worker's hands is above the counter, and no two are
the same (`Ids`); while a worker is about to reset the counter, there is no message and nobody
holds an id, since the worker that takes one notes the relation in `early` (`ResetEarly`). A worker that
is about to insert a row, having looked, still finds none, unless another one is about to insert the
same (`Unseen`): which is what `raced` notes at the first of the two insertions. For `AckedReaches`, each
statement leaves something for the next: the rows that a worker holds are its users' (`OwnRows`), an id is
in a worker's hands from the save of an audio on (`Holding`) and comes with a session (`Numbered`), from then on the receiver's session is shown (`Seen`), the message stored
(`Stored`, unless an audio was turned away or not saved) and counted (`Counted`), unless the receiver's own removal or reading undid it, which knows
whose row and count it touches. The relation is the one that the receiver's client is shown by
`OneRow`.

**SyncCenter.** A message that no update of the time has overtaken is found by the next query (`Fresh`).
Between the query and the update, a group that is behind is in hand, or may be missed (`Seen`).
After the update what is in hand is the group's last message, or a later one has come that
the next query finds (`InHand`).

### What the proofs assume

Only what the modules ASSUME of their constants, which TLC evaluates on every run. Handles are
natural numbers and finitely many; user id 0 is no row, the database maps each
login name to a row or to none, and the empty name to none; `Wrap` exceeds the number of clients; 2 <= MIN <= MAX delay; a pool is made
with at least one connection. In Chat, a user has at most one client of a class at the start, and
every msg_server has one link then, which is up: the state that the servers come to before anybody
logs in twice. A client of the file_server logs in in one role per
connection. The values that stand for "nothing" (`None`, `NoTask`, `NoServer`) are none of the values
that they are told from.

Two limits are in the actions rather than in assumptions. The theorems about the msg_server and the file_server
say what holds up to the step after which the process is undefined, at which the models stop. And the clock of
ServConn and SyncCenter does not go back, whereas theirs (`gettimeofday` in `base/util.cpp`, `time`) is the
time of day, which an operator may set back.

### Only model-checked

The liveness properties `RetriesEventually`, `Served`, `PeerLeaves`, `UploadEnds`, `StopReturns`
and `ChatSpreads`: liveness under fairness is out of this prover's reach. The expected violations are
TLC's as well.

## 5. Not modelled

* of the msg_server, the requests that are passed on to the db_proxy and whose answers go to the one
  that asked (contacts, history, users, switches, changes of groups), file requests, status and
  signature notifications, the list of unacknowledged messages and the push of messages;
* of the db_proxy, the data of group messages, groups, users and logins, the total update time, and the first
  call of `getInstance`; of the file_server, pdus that name another user or task than the connection's
  own, connections that log in in both roles, and failing reads and writes;
* http_msg_server and push_server: they keep connections and no other state; msfs: files;
* the reactor, the buffers of connections and the encoding of pdus: taken by their effect;
* passwords, tokens, encryption, logging, configuration.

## 6. Plan

Done: the life of a client connection and what the other servers make of it, which everything
else stands on; messages between msg_servers (`Chat`); the db_proxy as a machine for requests, what it
does with messages (`MessageStore`) and its synchronisation (`SyncCenter`); the file_server. Next, in
this order:

1. Abstract specifications of what is now only stated by invariants, with the detailed ones shown to
   implement them: the pools as a lender of connections, the presence table as the multiset of the sessions that
   its links told of, and Chat as in 3. The inductive invariants of section 4 are what these need.
2. The data of group messages, by the side of MessageStore: their ids, the counts of each member, and
   the members that are added and removed meanwhile.
3. A refinement of Chat: that a message is given to the connections of its audience as if at once,
   with the links as the only reason to miss it.
