------------------------------ MODULE DbProxy -------------------------------
(***************************************************************************)
(* The db_proxy_server as a machine for answering requests: the reactor    *)
(* thread reads requests from its connections and hands each to a random   *)
(* worker thread; a worker runs the request's handler, which borrows       *)
(* connections from the pools of MySQL and redis connections, and puts the *)
(* answer into a list that the reactor thread sends out.                   *)
(*                                                                         *)
(* A handler is abstracted to what it does with the pools, since that is   *)
(* where workers meet: a row of Handler below.  What the statements do to  *)
(* the data is left out.                                                   *)
(***************************************************************************)
EXTENDS Integers, Sequences, FiniteSets

CONSTANTS
    Workers,       \* the worker threads (ThreadNum)
    Kinds,         \* the kinds of request that occur
    MinConn,       \* MIN_DB_CONN_CNT, MIN_CACHE_CONN_CNT: connections made at start
    MaxConn,       \* maxconncnt of each pool's configuration
    NoTask,        \* the task of a worker that waits for one
    MaxUuid,       \* bound: connections ever accepted, below 2^32
    MaxRequests    \* bound: requests ever read

Pools == {"master", "slave", "unread", "group_member"}
Uuids == 1..MaxUuid
Requests == 1..MaxRequests

\* Borrow a connection of pool p, or go on at step j without one; give back the last one
\* borrowed; a statement that fails, or a condition that does not hold, goes on at step j.
Get(p, j) == [op |-> "get", pool |-> p, else |-> j]
Rel(p) == [op |-> "rel", pool |-> p, else |-> 0]
Try(j) == [op |-> "try", pool |-> "master", else |-> j]

\* Two errors of the code: the last connection is given back and the handler goes on using it, or
\* its pointer goes out of scope at step j without being given back.
Free(p) == [op |-> "free", pool |-> p, else |-> 0]
Drop(p, j) == [op |-> "drop", pool |-> p, else |-> j]

(* What the handlers do with the pools while they hold a connection.  Left *)
(* out is what a handler borrows and gives back while it holds nothing: it *)
(* can only wait as the first step of a row does.                          *)

\* Send a message to a group: CGroupMessageModel.sendMessage with the updateGroupChat,
\* incMessageCount and clearMessageCount that it calls.  The last gives its connection back
\* between its two commands.
GroupSend ==
    <<Get("master", 11), Try(10), Get("master", 5), Rel("master"), Get("unread", 7), Rel("unread"),
      Get("unread", 10), Free("unread"), Drop("unread", 10), Rel("master")>>

\* Send a message to a user: CMessageModel.sendMessage, with incMsgCount after the release
SingleSend == <<Get("master", 6), Rel("master"), Try(6), Get("unread", 6), Rel("unread")>>

\* Count the unread messages of a group: getUnreadMsgCount with getLastMsg
UnreadCount == <<Get("unread", 5), Get("slave", 4), Rel("slave"), Rel("unread")>>

\* A slip that would mend the early release: the connection is kept until all is inserted.
AddMemberKeepsCache ==
    <<Get("group_member", 2), Get("slave", 6), Rel("slave"), Get("master", 6), Rel("master"), Rel("group_member")>>

\* Add members to a group: removeRepeatUser, for none, one or two users, and insertNewMember of
\* those that are left.  The first gives its connection back once for each user.
AddMember ==
    <<Get("group_member", 7), Try(4), Drop("group_member", 14), Try(6), Free("group_member"),
      Rel("group_member"), Try(14), Get("slave", 14), Rel("slave"), Get("master", 14),
      Get("group_member", 13), Rel("group_member"), Rel("master")>>

\* Read the messages of a group: getMessage with getUserJoinTime
GroupHistory == <<Get("slave", 5), Get("group_member", 4), Rel("group_member"), Rel("slave")>>

\* Change a user's signature: updateUserSignInfo with updateTotalUpdate
ChangeSign == <<Get("master", 6), Try(5), Get("unread", 5), Rel("unread"), Rel("master")>>

\* Clear a counter of unread messages: clearUserCounter
ClearUnread == <<Get("unread", 3), Rel("unread")>>

Handler ==
    [group |-> GroupSend, single |-> SingleSend, unread |-> UnreadCount, member |-> AddMember,
     history |-> GroupHistory, sign |-> ChangeSign, read |-> ClearUnread]

\* Requests that have no answer: IMMsgDataReadAck
Unanswered == {"read"}

Task == [uuid : Uuids, req : Requests, kind : Kinds]

ASSUME WorkersAssumption == IsFiniteSet(Workers)
ASSUME KindsAssumption == Kinds \subseteq DOMAIN Handler /\ NoTask \notin Task
ASSUME ConnAssumption == MinConn \in Nat \ {0} /\ MaxConn \in [Pools -> Nat]
ASSUME BoundsAssumption == MaxUuid \in Nat /\ MaxRequests \in Nat

VARIABLES
    g_uuid_conn_map,     \* uuids of the live connections
    s_uuid_alloctor,     \* the last uuid given out
    asked,               \* history: requests read from each connection
    got,                 \* history: requests answered on each connection
    requests,            \* history: the number of requests read
    m_task_list,         \* the tasks of each worker
    task,                \* the task that each worker runs
    step,                \* and the step of its handler to take next
    held,                \* connections borrowed by each worker, the last one last
    m_free_list,         \* free connections of each pool
    cur_conn_cnt,        \* connections made for each pool
    s_response_pdu_list, \* answers to send
    exited,              \* whether the process has exited
    spoilt,              \* history: connections that a Free or a Drop was done to
    silent               \* history: requests whose handler returned without an answer

connVars == <<g_uuid_conn_map, s_uuid_alloctor, asked, got, requests>>
workVars == <<m_task_list, task, step>>
poolVars == <<held, m_free_list, cur_conn_cnt, spoilt>>
vars == <<connVars, workVars, poolVars, s_response_pdu_list, exited, silent>>

Init ==
    /\ g_uuid_conn_map = {}
    /\ s_uuid_alloctor = 0
    /\ asked = [u \in Uuids |-> {}]
    /\ got = [u \in Uuids |-> {}]
    /\ requests = 0
    /\ m_task_list = [w \in Workers |-> <<>>]
    /\ task = [w \in Workers |-> NoTask]
    /\ step = [w \in Workers |-> 1]
    /\ held = [w \in Workers |-> <<>>]
    /\ m_free_list = [p \in Pools |-> 1..MinConn]
    /\ cur_conn_cnt = [p \in Pools |-> MinConn]
    /\ s_response_pdu_list = <<>>
    /\ exited = FALSE
    /\ spoilt = {}
    /\ silent = {}

-----------------------------------------------------------------------------
(* The reactor thread *)

\* A slip in the choice of a uuid: the smallest that no connection has.
SmallestUuid == CHOOSE u \in 1..MaxUuid + 1 :
    u \notin g_uuid_conn_map /\ \A v \in 1..u - 1 : v \in g_uuid_conn_map

\* The constructor's uuid, never given twice in 2^32
NextUuid == s_uuid_alloctor + 1

OnConnect ==
    /\ ~exited
    /\ NextUuid <= MaxUuid /\ Cardinality(g_uuid_conn_map) < MaxUuid
    /\ s_uuid_alloctor' = NextUuid
    /\ g_uuid_conn_map' = g_uuid_conn_map \union {NextUuid}
    /\ asked' = [asked EXCEPT ![NextUuid] = {}]
    /\ got' = [got EXCEPT ![NextUuid] = {}]
    /\ UNCHANGED <<requests, workVars, poolVars, s_response_pdu_list, exited, silent>>

\* Close: the peer has closed, or SERVER_TIMEOUT without a pdu
Close(u) ==
    /\ ~exited
    /\ u \in g_uuid_conn_map
    /\ g_uuid_conn_map' = g_uuid_conn_map \ {u}
    /\ UNCHANGED <<s_uuid_alloctor, asked, got, requests, workVars, poolVars, s_response_pdu_list, exited, silent>>

\* HandlePduBuf: the request becomes a task of some worker
HandlePduBuf(u, k, w) ==
    /\ ~exited
    /\ u \in g_uuid_conn_map
    /\ requests < MaxRequests
    /\ requests' = requests + 1
    /\ asked' = [asked EXCEPT ![u] = @ \union {requests'}]
    /\ m_task_list' = [m_task_list EXCEPT ![w] = Append(@, [uuid |-> u, req |-> requests', kind |-> k])]
    /\ UNCHANGED <<g_uuid_conn_map, s_uuid_alloctor, got, task, step, poolVars, s_response_pdu_list, exited, silent>>

\* A slip in the round of the loop: the list is kept.
SendAndKeep ==
    /\ ~exited
    /\ s_response_pdu_list # <<>>
    /\ UNCHANGED s_response_pdu_list
    /\ got' = [u \in Uuids |-> IF u \in g_uuid_conn_map
                               THEN got[u] \union {s_response_pdu_list[i].req :
                                        i \in {j \in DOMAIN s_response_pdu_list : s_response_pdu_list[j].uuid = u}}
                               ELSE got[u]]
    /\ UNCHANGED <<g_uuid_conn_map, s_uuid_alloctor, asked, requests, workVars, poolVars, exited, silent>>

\* A round of the loop callback, SendResponsePduList: the answers go to the connections that
\* still are there
SendResponsePduList ==
    /\ ~exited
    /\ s_response_pdu_list # <<>>
    /\ s_response_pdu_list' = <<>>
    /\ got' = [u \in Uuids |-> IF u \in g_uuid_conn_map
                               THEN got[u] \union {s_response_pdu_list[i].req :
                                        i \in {j \in DOMAIN s_response_pdu_list : s_response_pdu_list[j].uuid = u}}
                               ELSE got[u]]
    /\ UNCHANGED <<g_uuid_conn_map, s_uuid_alloctor, asked, requests, workVars, poolVars, exited, silent>>

\* exit_callback, 4 s after SIGTERM, whatever is still under way; until then nothing changes
Exit ==
    /\ ~exited
    /\ exited' = TRUE
    /\ UNCHANGED <<connVars, workVars, poolVars, s_response_pdu_list, silent>>

-----------------------------------------------------------------------------
(* A worker thread *)

At(w, op) ==
    /\ ~exited
    /\ task[w] # NoTask
    /\ step[w] \in DOMAIN Handler[task[w].kind]
    /\ Handler[task[w].kind][step[w]].op = op

This(w) == Handler[task[w].kind][step[w]]

GoTo(w, j) ==
    /\ step' = [step EXCEPT ![w] = j]
    /\ UNCHANGED <<connVars, m_task_list, task, s_response_pdu_list, exited, silent>>

\* Execute takes the next task
TakeTask(w) ==
    /\ ~exited
    /\ task[w] = NoTask /\ m_task_list[w] # <<>>
    /\ task' = [task EXCEPT ![w] = Head(m_task_list[w])]
    /\ m_task_list' = [m_task_list EXCEPT ![w] = Tail(@)]
    /\ UNCHANGED <<connVars, step, poolVars, s_response_pdu_list, exited, silent>>

\* Execute takes a task whose handler returns at once, without an answer: a pdu that does not
\* parse, an invalid group, message type or length
RefuseTask(w) ==
    /\ ~exited
    /\ task[w] = NoTask /\ m_task_list[w] # <<>>
    /\ silent' = silent \union {Head(m_task_list[w]).req}
    /\ m_task_list' = [m_task_list EXCEPT ![w] = Tail(@)]
    /\ UNCHANGED <<connVars, task, step, poolVars, s_response_pdu_list, exited>>

\* Whether GetDBConn may make another connection
MayMake(p) == cur_conn_cnt[p] < MaxConn[p]

(* GetDBConn, GetCacheConn: a free connection, or a new one when there is  *)
(* none and the limit allows it.  Without either the worker waits on the   *)
(* pool's condition variable, which every release signals.                 *)
GetConn(w) ==
    LET p   == This(w).pool
        new == cur_conn_cnt[p] + 1
    IN  /\ At(w, "get")
        /\ \/ /\ \E i \in m_free_list[p] :
                    /\ held' = [held EXCEPT ![w] = Append(@, <<p, i>>)]
                    /\ m_free_list' = [m_free_list EXCEPT ![p] = @ \ {i}]
              /\ UNCHANGED cur_conn_cnt
           \/ /\ m_free_list[p] = {} /\ MayMake(p)
              /\ cur_conn_cnt' = [cur_conn_cnt EXCEPT ![p] = new]
              /\ held' = [held EXCEPT ![w] = Append(@, <<p, new>>)]
              /\ UNCHANGED m_free_list
        /\ GoTo(w, step[w] + 1)
        /\ UNCHANGED spoilt

\* A slip after the failure: it takes back an increment that was not made.
GetNullCounted(w) ==
    /\ At(w, "get")
    /\ m_free_list[This(w).pool] = {} /\ MayMake(This(w).pool)
    /\ GoTo(w, This(w).else)
    /\ cur_conn_cnt' = [cur_conn_cnt EXCEPT ![This(w).pool] = @ - 1]
    /\ UNCHANGED <<held, m_free_list, spoilt>>

\* GetDBConn, GetCacheConn: Init of the new connection fails, the handler goes on without it
GetNull(w) ==
    /\ At(w, "get")
    /\ m_free_list[This(w).pool] = {} /\ MayMake(This(w).pool)
    /\ GoTo(w, This(w).else)
    /\ UNCHANGED poolVars

\* A slip in the release: the first connection borrowed is given back.
FirstHeld(w) == held[w][1]

\* The connection that a handler gives back: the last one borrowed
LastHeld(w) == held[w][Len(held[w])]

\* RelDBConn, RelCacheConn: back to the pool that the connection is of
RelConn(w) ==
    /\ At(w, "rel")
    /\ m_free_list' = [m_free_list EXCEPT ![LastHeld(w)[1]] = @ \union {LastHeld(w)[2]}]
    /\ held' = [held EXCEPT ![w] = SubSeq(@, 1, Len(@) - 1)]
    /\ GoTo(w, step[w] + 1)
    /\ UNCHANGED <<cur_conn_cnt, spoilt>>

\* RelCacheConn of a connection that the handler goes on using
FreeConn(w) ==
    /\ At(w, "free")
    /\ m_free_list' = [m_free_list EXCEPT ![LastHeld(w)[1]] = @ \union {LastHeld(w)[2]}]
    /\ spoilt' = spoilt \union {LastHeld(w)}
    /\ GoTo(w, step[w] + 1)
    /\ UNCHANGED <<held, cur_conn_cnt>>

\* A pointer to a connection is forgotten, and with it the connection where it is not free.
DropConn(w) ==
    /\ At(w, "drop")
    /\ held' = [held EXCEPT ![w] = SubSeq(@, 1, Len(@) - 1)]
    /\ spoilt' = spoilt \union {LastHeld(w)}
    /\ GoTo(w, This(w).else)
    /\ UNCHANGED <<m_free_list, cur_conn_cnt>>

\* A statement succeeds, or fails; a condition on the data holds, or does not
Execute(w) ==
    /\ At(w, "try")
    /\ GoTo(w, step[w] + 1) \/ GoTo(w, This(w).else)
    /\ UNCHANGED poolVars

\* Whether the handler of worker w has come to its end
AtEnd(w) == ~exited /\ task[w] # NoTask /\ step[w] \notin DOMAIN Handler[task[w].kind]

\* AddResponsePdu at the end of a handler
AddResponsePdu(w) ==
    /\ AtEnd(w) /\ task[w].kind \notin Unanswered
    /\ s_response_pdu_list' = Append(s_response_pdu_list, [uuid |-> task[w].uuid, req |-> task[w].req])
    /\ task' = [task EXCEPT ![w] = NoTask]
    /\ step' = [step EXCEPT ![w] = 1]
    /\ UNCHANGED <<connVars, m_task_list, poolVars, exited, silent>>

\* The end of a handler that sends no answer
EndSilently(w) ==
    /\ AtEnd(w) /\ task[w].kind \in Unanswered
    /\ silent' = silent \union {task[w].req}
    /\ task' = [task EXCEPT ![w] = NoTask]
    /\ step' = [step EXCEPT ![w] = 1]
    /\ UNCHANGED <<connVars, m_task_list, poolVars, s_response_pdu_list, exited>>

WorkerStep(w) ==
    \/ TakeTask(w) \/ RefuseTask(w) \/ GetConn(w) \/ GetNull(w) \/ RelConn(w) \/ FreeConn(w)
    \/ DropConn(w) \/ Execute(w) \/ AddResponsePdu(w) \/ EndSilently(w)

Next ==
    \/ OnConnect
    \/ \E u \in Uuids : Close(u) \/ \E k \in Kinds, w \in Workers : HandlePduBuf(u, k, w)
    \/ SendResponsePduList
    \/ Exit
    \/ \E w \in Workers : WorkerStep(w)

\* Every thread that can run does, and the loop goes round.
Fairness == WF_vars(SendResponsePduList) /\ \A w \in Workers : WF_vars(WorkerStep(w))

Spec == Init /\ [][Next]_vars
FairSpec == Spec /\ Fairness

-----------------------------------------------------------------------------
(* Properties *)

Conns(p) == 1..cur_conn_cnt[p]
HeldBy(w) == {held[w][i] : i \in DOMAIN held[w]}

TypeOK ==
    /\ g_uuid_conn_map \subseteq Uuids
    /\ s_uuid_alloctor \in 0..MaxUuid
    /\ asked \in [Uuids -> SUBSET Requests]
    /\ got \in [Uuids -> SUBSET Requests]
    /\ requests \in 0..MaxRequests
    /\ m_task_list \in [Workers -> Seq(Task)]
    /\ task \in [Workers -> Task \union {NoTask}]
    /\ step \in [Workers -> Nat]
    /\ held \in [Workers -> Seq(Pools \X Nat)]
    /\ m_free_list \in [Pools -> SUBSET Nat]
    /\ cur_conn_cnt \in [Pools -> Nat]
    /\ s_response_pdu_list \in Seq([uuid : Uuids, req : Requests])
    /\ exited \in BOOLEAN
    /\ spoilt \subseteq Pools \X Nat
    /\ silent \subseteq Requests

\* The connections of pool p that are lost: neither free nor held
Lost(p) == {n \in Conns(p) : n \notin m_free_list[p] /\ \A w \in Workers : <<p, n>> \notin HeldBy(w)}

\* Each connection of a pool is in one place, whatever fails: free, or borrowed by one worker,
\* once, so that two threads never use one mysql object (SessionModel.cpp: several threads on a
\* mysql object would crash), and none is lost.  The connections that clearMessageCount or
\* removeRepeatUser gave back too early, or never, are the only exception, and those are never of
\* a database.  A worker without a task holds none, and a pool stays within its configured limit.
OneHolder ==
    /\ \A w \in Workers : \A i, j \in DOMAIN held[w] : held[w][i] = held[w][j] => i = j \/ held[w][i] \in spoilt
    /\ \A v, w \in Workers : v # w => HeldBy(v) \intersect HeldBy(w) \subseteq spoilt
    /\ \A w \in Workers : \A c \in HeldBy(w) : c[2] \in m_free_list[c[1]] => c \in spoilt
    /\ \A p \in Pools : \A n \in Lost(p) : <<p, n>> \in spoilt
    /\ \A c \in spoilt : c[1] \in {"unread", "group_member"}
    /\ \A w \in Workers : task[w] = NoTask => held[w] = <<>>
    /\ \A p \in Pools : cur_conn_cnt[p] = MinConn \/ cur_conn_cnt[p] <= MaxConn[p]

\* A connection is told only of requests that were read from it: an answer that comes late never
\* reaches another connection.
AnswerToAsker == \A u \in Uuids : got[u] \subseteq asked[u]

Waits(w) == /\ At(w, "get")
            /\ m_free_list[This(w).pool] = {} /\ ~MayMake(This(w).pool)

\* Group messages that hold a connection of the master database and wait for a second one.
GroupChatWaits ==
    {w \in Workers : Waits(w) /\ task[w].kind = "group" /\ This(w).pool = "master" /\ held[w] # <<>>}

\* Every connection of the master database is held by such a message: nobody can go on.
Exhausted == Cardinality(GroupChatWaits) >= cur_conn_cnt["master"]

\* Every connection of pool p is lost, and no other may be made.
Drained(p) == Lost(p) = Conns(p) /\ ~MayMake(p)

Hung == Exhausted \/ \E w \in Workers : Waits(w) /\ Drained(This(w).pool)

\* Workers wait for ever in two ways only: group messages exhaust the master pool while each asks
\* it for a second connection in updateGroupChat, or requests to add nobody to a group have drained
\* a pool that somebody waits for.  The order in which handlers borrow rules out any other.
HangsInTwoWays ==
    (\E w \in Workers : Waits(w)) /\ (\A w \in Workers : held[w] # <<>> => Waits(w)) => Hung

Pending(r) ==
    \/ \E w \in Workers : \/ \E i \in DOMAIN m_task_list[w] : m_task_list[w][i].req = r
                          \/ task[w] # NoTask /\ task[w].req = r
    \/ \E i \in DOMAIN s_response_pdu_list : s_response_pdu_list[i].req = r

\* Request r was answered on the connection that it came from, where that still is there.
Told(r) == \A u \in g_uuid_conn_map : r \in asked[u] => r \in got[u]

\* Each request that was read is answered on its connection, if that still is there, or its handler
\* returned without an answer, unless the process exits or hangs as above.
Served ==
    \A r \in Requests : Pending(r) ~> (~Pending(r) /\ (Told(r) \/ r \in silent)) \/ exited \/ Hung
=============================================================================
