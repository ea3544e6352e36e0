--------------------------- MODULE DbProxyProofs ----------------------------
(***************************************************************************)
(* Two facts of the db_proxy.  Answers never reach a connection that did   *)
(* not ask: the invariant follows a request from the connection that it    *)
(* was read from through the workers' queues and the response list; on the *)
(* way it carries a uuid that was given out, so no later connection has    *)
(* it.  And the pools' connections are neither lost nor shared, but for    *)
(* those that two functions spoil, and workers wait for ever in two ways   *)
(* only: what a worker holds follows from its handler and step, and is     *)
(* borrowed in the order of the pools.                                     *)
(***************************************************************************)
EXTENDS DbProxy, FiniteSetTheorems, TLAPS

\* Tasks and answers whose request was read from the connection that they name.
KnownTasks == {t \in [uuid : Uuids, req : Nat, kind : Kinds] :
                   t.uuid <= s_uuid_alloctor /\ t.req \in asked[t.uuid]}
KnownAnswers == {a \in [uuid : Uuids, req : Nat] : a.uuid <= s_uuid_alloctor /\ a.req \in asked[a.uuid]}

ConnsOK ==
    /\ s_uuid_alloctor \in 0..MaxUuid
    /\ g_uuid_conn_map \subseteq 1..s_uuid_alloctor
    /\ asked \in [Uuids -> SUBSET Nat]
    /\ got \in [Uuids -> SUBSET Nat]
    /\ requests \in Nat

QueuedKnown == m_task_list \in [Workers -> Seq(KnownTasks)]
RunningKnown == task \in [Workers -> KnownTasks \union {NoTask}]
AnswersKnown == s_response_pdu_list \in Seq(KnownAnswers)

WayInv == ConnsOK /\ QueuedKnown /\ RunningKnown /\ AnswersKnown /\ AnswerToAsker

LEMMA SeqWidens == ASSUME NEW S, NEW T, S \subseteq T PROVE Seq(S) \subseteq Seq(T)
  OBVIOUS

\* What is known stays known while uuids and requests only grow.
LEMMA KnownGrows ==
    ASSUME ConnsOK, s_uuid_alloctor' \in Nat, s_uuid_alloctor <= s_uuid_alloctor',
           \A u \in 1..s_uuid_alloctor : asked[u] \subseteq asked'[u]
    PROVE  /\ KnownTasks \subseteq KnownTasks' /\ KnownAnswers \subseteq KnownAnswers'
           /\ Seq(KnownTasks) \subseteq Seq(KnownTasks') /\ Seq(KnownAnswers) \subseteq Seq(KnownAnswers')
  <1>1. KnownTasks \subseteq KnownTasks'
    <2> SUFFICES ASSUME NEW t \in KnownTasks PROVE t \in KnownTasks'
      OBVIOUS
    <2>1. t.uuid \in 1..s_uuid_alloctor /\ t.uuid <= s_uuid_alloctor'
      BY DEF KnownTasks, ConnsOK, Uuids
    <2> QED
      BY <2>1 DEF KnownTasks
  <1>2. KnownAnswers \subseteq KnownAnswers'
    <2> SUFFICES ASSUME NEW a \in KnownAnswers PROVE a \in KnownAnswers'
      OBVIOUS
    <2>1. a.uuid \in 1..s_uuid_alloctor /\ a.uuid <= s_uuid_alloctor'
      BY DEF KnownAnswers, ConnsOK, Uuids
    <2> QED
      BY <2>1 DEF KnownAnswers
  <1> HIDE DEF KnownTasks, KnownAnswers
  <1> QED
    BY <1>1, <1>2, SeqWidens

\* What is under way stays known in the steps that leave it alone.
LEMMA WayWidens ==
    ASSUME QueuedKnown, RunningKnown, AnswersKnown,
           KnownTasks \subseteq KnownTasks', Seq(KnownTasks) \subseteq Seq(KnownTasks'),
           Seq(KnownAnswers) \subseteq Seq(KnownAnswers')
    PROVE  /\ m_task_list \in [Workers -> Seq(KnownTasks')]
           /\ task \in [Workers -> KnownTasks' \union {NoTask}]
           /\ s_response_pdu_list \in Seq(KnownAnswers')
  BY DEF QueuedKnown, RunningKnown, AnswersKnown

LEMMA InitWay == Init => WayInv
  <1> SUFFICES ASSUME Init PROVE WayInv
    OBVIOUS
  <1>1. ConnsOK /\ AnswerToAsker
    BY BoundsAssumption DEF Init, ConnsOK, AnswerToAsker, Uuids
  <1>2. QueuedKnown /\ RunningKnown /\ AnswersKnown
    BY DEF Init, QueuedKnown, RunningKnown, AnswersKnown
  <1> QED
    BY <1>1, <1>2 DEF WayInv

\* The steps that leave requests, answers and connections alone keep the invariant.
LEMMA WayUnchanged ==
    ASSUME WayInv, UNCHANGED <<connVars, m_task_list, task, s_response_pdu_list>>
    PROVE  WayInv'
  <1>1. UNCHANGED <<s_uuid_alloctor, asked, got, g_uuid_conn_map, requests>>
    BY DEF connVars
  <1>2. KnownTasks' = KnownTasks /\ KnownAnswers' = KnownAnswers
    BY <1>1 DEF KnownTasks, KnownAnswers
  <1> QED
    BY <1>1, <1>2 DEF WayInv, ConnsOK, QueuedKnown, RunningKnown, AnswersKnown, AnswerToAsker

LEMMA ConnectWay ==
    ASSUME WayInv, OnConnect
    PROVE  WayInv'
  <1> USE DEF WayInv
  <1>1. s_uuid_alloctor' = s_uuid_alloctor + 1 /\ s_uuid_alloctor' \in Uuids
    BY BoundsAssumption DEF OnConnect, NextUuid, ConnsOK, Uuids
  <1>2. ConnsOK'
    BY <1>1, BoundsAssumption DEF OnConnect, NextUuid, ConnsOK, Uuids
  <1>3. \A u \in 1..s_uuid_alloctor : asked[u] \subseteq asked'[u]
    BY <1>1, BoundsAssumption DEF OnConnect, NextUuid, ConnsOK, Uuids
  <1>4. UNCHANGED <<m_task_list, task, s_response_pdu_list>>
    BY DEF OnConnect, workVars
  <1>5. QueuedKnown' /\ RunningKnown' /\ AnswersKnown'
    <2>1. s_uuid_alloctor' \in Nat /\ s_uuid_alloctor <= s_uuid_alloctor'
      BY <1>1 DEF ConnsOK
    <2> QED
      BY <1>3, <1>4, <2>1, KnownGrows, WayWidens DEF QueuedKnown, RunningKnown, AnswersKnown
  <1>6. AnswerToAsker'
    BY <1>1 DEF OnConnect, NextUuid, AnswerToAsker, ConnsOK
  <1> QED
    BY <1>2, <1>5, <1>6

LEMMA CloseWay ==
    ASSUME WayInv, NEW u \in Uuids, Close(u)
    PROVE  WayInv'
  <1>1. /\ UNCHANGED <<s_uuid_alloctor, asked, got, requests, m_task_list, task, s_response_pdu_list>>
        /\ g_uuid_conn_map' \subseteq g_uuid_conn_map
    BY DEF Close, workVars
  <1>2. KnownTasks' = KnownTasks /\ KnownAnswers' = KnownAnswers
    BY <1>1 DEF KnownTasks, KnownAnswers
  <1> QED
    BY <1>1, <1>2 DEF WayInv, ConnsOK, QueuedKnown, RunningKnown, AnswersKnown, AnswerToAsker

LEMMA RequestWay ==
    ASSUME WayInv, NEW u \in Uuids, NEW k \in Kinds, NEW w \in Workers, HandlePduBuf(u, k, w)
    PROVE  WayInv'
  <1> USE DEF WayInv
  <1> DEFINE t == [uuid |-> u, req |-> requests', kind |-> k]
  <1>1. /\ u \in 1..s_uuid_alloctor
        /\ requests' \in Nat
        /\ asked' = [asked EXCEPT ![u] = @ \union {requests'}]
        /\ m_task_list' = [m_task_list EXCEPT ![w] = Append(@, t)]
        /\ UNCHANGED <<g_uuid_conn_map, s_uuid_alloctor, got, task, s_response_pdu_list>>
    BY DEF HandlePduBuf, ConnsOK
  <1>2. ConnsOK'
    BY <1>1 DEF ConnsOK
  <1>3. \A v \in Uuids : asked[v] \subseteq asked'[v]
    BY <1>1 DEF ConnsOK
  <1>4. t \in KnownTasks'
    BY <1>1 DEF KnownTasks, ConnsOK
  <1> HIDE DEF t
  <1>5. /\ m_task_list \in [Workers -> Seq(KnownTasks')]
        /\ task \in [Workers -> KnownTasks' \union {NoTask}]
        /\ s_response_pdu_list \in Seq(KnownAnswers')
    <2>1. s_uuid_alloctor' \in Nat /\ s_uuid_alloctor <= s_uuid_alloctor' /\ 1..s_uuid_alloctor \subseteq Uuids
      BY <1>1, BoundsAssumption DEF ConnsOK, Uuids
    <2> QED
      BY <1>3, <2>1, KnownGrows, WayWidens
  <1>6. QueuedKnown'
    <2>1. Append(m_task_list[w], t) \in Seq(KnownTasks')
      BY <1>4, <1>5
    <2> QED
      BY <1>1, <1>5, <2>1 DEF QueuedKnown
  <1>7. RunningKnown' /\ AnswersKnown'
    BY <1>1, <1>5 DEF RunningKnown, AnswersKnown
  <1>8. AnswerToAsker'
    BY <1>1, <1>3 DEF AnswerToAsker
  <1> QED
    BY <1>2, <1>6, <1>7, <1>8

LEMMA SendWay ==
    ASSUME WayInv, SendResponsePduList
    PROVE  WayInv'
  <1> USE DEF WayInv
  <1> DEFINE answers(u) ==
        {s_response_pdu_list[i].req : i \in {j \in DOMAIN s_response_pdu_list : s_response_pdu_list[j].uuid = u}}
  <1>1. /\ s_response_pdu_list' = <<>>
        /\ got' = [u \in Uuids |-> IF u \in g_uuid_conn_map THEN got[u] \union answers(u) ELSE got[u]]
        /\ UNCHANGED <<g_uuid_conn_map, s_uuid_alloctor, asked, requests, m_task_list, task>>
    BY DEF SendResponsePduList, workVars
  <1>2. \A i \in DOMAIN s_response_pdu_list : s_response_pdu_list[i] \in KnownAnswers
    BY DEF AnswersKnown
  <1>3. ASSUME NEW u \in Uuids
        PROVE  answers(u) \subseteq asked[u] /\ answers(u) \subseteq Nat
    BY <1>2 DEF KnownAnswers
  <1> HIDE DEF answers
  <1>4. ConnsOK'
    BY <1>1, <1>3 DEF ConnsOK
  <1>5. QueuedKnown' /\ RunningKnown' /\ AnswersKnown'
    <2>1. KnownTasks' = KnownTasks
      BY <1>1 DEF KnownTasks
    <2> QED
      BY <1>1, <2>1 DEF QueuedKnown, RunningKnown, AnswersKnown
  <1>6. AnswerToAsker'
    BY <1>1, <1>3 DEF AnswerToAsker
  <1> QED
    BY <1>4, <1>5, <1>6

LEMMA TakeWay ==
    ASSUME WayInv, NEW w \in Workers, TakeTask(w)
    PROVE  WayInv'
  <1> USE DEF WayInv
  <1>1. /\ m_task_list[w] # <<>> /\ m_task_list[w] \in Seq(KnownTasks)
        /\ task' = [task EXCEPT ![w] = Head(m_task_list[w])]
        /\ m_task_list' = [m_task_list EXCEPT ![w] = Tail(m_task_list[w])]
        /\ UNCHANGED <<s_uuid_alloctor, asked, got, g_uuid_conn_map, requests, s_response_pdu_list>>
    BY DEF TakeTask, QueuedKnown, connVars
  <1>2. Head(m_task_list[w]) \in KnownTasks /\ Tail(m_task_list[w]) \in Seq(KnownTasks)
    BY <1>1
  <1>3. KnownTasks' = KnownTasks /\ KnownAnswers' = KnownAnswers
    BY <1>1 DEF KnownTasks, KnownAnswers
  <1>4. QueuedKnown' /\ RunningKnown' /\ AnswersKnown'
    BY <1>1, <1>2, <1>3 DEF QueuedKnown, RunningKnown, AnswersKnown
  <1>5. ConnsOK' /\ AnswerToAsker'
    BY <1>1 DEF ConnsOK, AnswerToAsker
  <1> QED
    BY <1>4, <1>5

LEMMA RespondWay ==
    ASSUME WayInv, NEW w \in Workers, AddResponsePdu(w)
    PROVE  WayInv'
  <1> USE DEF WayInv
  <1> DEFINE a == [uuid |-> task[w].uuid, req |-> task[w].req]
  <1>1. /\ task[w] # NoTask
        /\ s_response_pdu_list' = Append(s_response_pdu_list, a)
        /\ task' = [task EXCEPT ![w] = NoTask]
        /\ UNCHANGED <<s_uuid_alloctor, asked, got, g_uuid_conn_map, requests, m_task_list>>
    BY DEF AddResponsePdu, AtEnd, connVars
  <1>2. KnownTasks' = KnownTasks /\ KnownAnswers' = KnownAnswers
    BY <1>1 DEF KnownTasks, KnownAnswers
  <1>3. a \in KnownAnswers
    <2>1. task[w] \in KnownTasks
      BY <1>1 DEF RunningKnown
    <2> QED
      BY <2>1 DEF KnownTasks, KnownAnswers
  <1> HIDE DEF a
  <1>4. Append(s_response_pdu_list, a) \in Seq(KnownAnswers)
    BY <1>3 DEF AnswersKnown
  <1>5. QueuedKnown' /\ RunningKnown' /\ AnswersKnown'
    BY <1>1, <1>2, <1>4 DEF QueuedKnown, RunningKnown, AnswersKnown
  <1>6. ConnsOK' /\ AnswerToAsker'
    BY <1>1 DEF ConnsOK, AnswerToAsker
  <1> QED
    BY <1>5, <1>6

LEMMA RefuseWay ==
    ASSUME WayInv, NEW w \in Workers, RefuseTask(w)
    PROVE  WayInv'
  <1> USE DEF WayInv
  <1>1. /\ m_task_list[w] # <<>> /\ m_task_list[w] \in Seq(KnownTasks)
        /\ m_task_list' = [m_task_list EXCEPT ![w] = Tail(m_task_list[w])]
        /\ UNCHANGED <<s_uuid_alloctor, asked, got, g_uuid_conn_map, requests, task, s_response_pdu_list>>
    BY DEF RefuseTask, QueuedKnown, connVars
  <1>2. Tail(m_task_list[w]) \in Seq(KnownTasks)
    BY <1>1
  <1>3. KnownTasks' = KnownTasks /\ KnownAnswers' = KnownAnswers
    BY <1>1 DEF KnownTasks, KnownAnswers
  <1>4. QueuedKnown' /\ RunningKnown' /\ AnswersKnown'
    BY <1>1, <1>2, <1>3 DEF QueuedKnown, RunningKnown, AnswersKnown
  <1>5. ConnsOK' /\ AnswerToAsker'
    BY <1>1 DEF ConnsOK, AnswerToAsker
  <1> QED
    BY <1>4, <1>5

LEMMA SilentWay ==
    ASSUME WayInv, NEW w \in Workers, EndSilently(w)
    PROVE  WayInv'
  <1> USE DEF WayInv
  <1>1. /\ task' = [task EXCEPT ![w] = NoTask]
        /\ UNCHANGED <<s_uuid_alloctor, asked, got, g_uuid_conn_map, requests, m_task_list, s_response_pdu_list>>
    BY DEF EndSilently, connVars
  <1>2. KnownTasks' = KnownTasks /\ KnownAnswers' = KnownAnswers
    BY <1>1 DEF KnownTasks, KnownAnswers
  <1>3. QueuedKnown' /\ RunningKnown' /\ AnswersKnown'
    BY <1>1, <1>2 DEF QueuedKnown, RunningKnown, AnswersKnown
  <1>4. ConnsOK' /\ AnswerToAsker'
    BY <1>1 DEF ConnsOK, AnswerToAsker
  <1> QED
    BY <1>3, <1>4

LEMMA StepWay == WayInv /\ [Next]_vars => WayInv'
  <1> SUFFICES ASSUME WayInv, [Next]_vars PROVE WayInv'
    OBVIOUS
  <1>1. CASE OnConnect
    BY <1>1, ConnectWay
  <1>2. ASSUME NEW u \in Uuids, Close(u) PROVE WayInv'
    BY <1>2, CloseWay
  <1>3. ASSUME NEW u \in Uuids, NEW k \in Kinds, NEW w \in Workers, HandlePduBuf(u, k, w) PROVE WayInv'
    BY <1>3, RequestWay
  <1>4. CASE SendResponsePduList
    BY <1>4, SendWay
  <1>5. CASE Exit
    BY <1>5, WayUnchanged DEF Exit, workVars
  <1>6. ASSUME NEW w \in Workers, TakeTask(w) PROVE WayInv'
    BY <1>6, TakeWay
  <1>7. ASSUME NEW w \in Workers, GetConn(w) \/ GetNull(w) \/ RelConn(w) \/ FreeConn(w) \/ DropConn(w) \/ Execute(w)
        PROVE  WayInv'
    BY <1>7, WayUnchanged DEF GetConn, GetNull, RelConn, FreeConn, DropConn, Execute, GoTo
  <1>8. ASSUME NEW w \in Workers, AddResponsePdu(w) PROVE WayInv'
    BY <1>8, RespondWay
  <1>9. ASSUME NEW w \in Workers, RefuseTask(w) \/ EndSilently(w) PROVE WayInv'
    BY <1>9, RefuseWay, SilentWay
  <1>10. CASE UNCHANGED vars
    BY <1>10, WayUnchanged DEF vars, workVars
  <1> QED
    BY <1>1, <1>2, <1>3, <1>4, <1>5, <1>6, <1>7, <1>8, <1>9, <1>10 DEF Next, WorkerStep

\* Whatever closes and reconnects meanwhile, a connection only gets answers to requests that
\* were read from it (get_proxy_conn_by_uuid), for any number of workers and connections.
THEOREM DbProxyAnswerToAsker == Spec => []AnswerToAsker
  <1>1. WayInv => AnswerToAsker
    BY DEF WayInv
  <1> QED
    BY InitWay, StepWay, <1>1, PTL DEF Spec

-----------------------------------------------------------------------------
(* The pools.  What a worker has borrowed follows from its handler and the *)
(* step to take next, on every path that failures leave through it.        *)

\* The connections that a worker holds: how many, the pools of the first and of the last one.
None == [len |-> 0, first |-> "none", last |-> "none"]
One(p) == [len |-> 1, first |-> p, last |-> p]
Two(p, q) == [len |-> 2, first |-> p, last |-> q]

\* What is borrowed before each step of a handler, and at its end.
Borrowed ==
    [group   |-> <<None, One("master"), One("master"), Two("master", "master"), One("master"),
                    Two("master", "unread"), One("master"), Two("master", "unread"),
                    Two("master", "unread"), One("master"), None>>,
     single  |-> <<None, One("master"), None, None, One("unread"), None>>,
     unread  |-> <<None, One("unread"), Two("unread", "slave"), One("unread"), None>>,
     member  |-> <<None, One("group_member"), One("group_member"), One("group_member"), One("group_member"),
                    One("group_member"), None, None, One("slave"), None, One("master"),
                    Two("master", "group_member"), One("master"), None>>,
     history |-> <<None, One("slave"), Two("slave", "group_member"), One("slave"), None>>,
     sign    |-> <<None, One("master"), One("master"), Two("master", "unread"), One("master"), None>>,
     read    |-> <<None, One("unread"), None>>]

\* The order in which handlers borrow from the pools.
Rank == [master |-> 1, unread |-> 2, slave |-> 3, group_member |-> 4]

\* The pools that connections are spoilt of.
Spoils == {"unread", "group_member"}

\* Of what is borrowed, b, the last one is gone in a.
Popped(b, a) ==
    /\ b.len = a.len + 1 /\ a.len \in Nat
    /\ a.len > 0 => a.len = 1 /\ a.first = b.first /\ a.last = b.first

\* One of pool p more is borrowed in a than in b.
Pushed(b, a, p) ==
    b.len \in 0..1 /\ a.len = b.len + 1 /\ a.last = p /\ a.first = IF b.len = 0 THEN p ELSE b.first

\* What a step of handler h makes of b, which is borrowed before it.
Flows(h, b, j) ==
    /\ h[j].op \in {"get", "rel", "try", "free", "drop"}
    /\ h[j].pool \in Pools
    /\ h[j].op \in {"get", "try"} => h[j].else \in 1..Len(h) + 1 /\ b[h[j].else] = b[j]
    /\ h[j].op = "get" => Pushed(b[j], b[j + 1], h[j].pool)
    /\ h[j].op = "rel" => Popped(b[j], b[j + 1])
    /\ h[j].op = "try" => b[j + 1] = b[j]
    /\ h[j].op = "free" => b[j].len > 0 /\ b[j].last \in Spoils /\ b[j + 1] = b[j]
    /\ h[j].op = "drop" => /\ b[j].last \in Spoils /\ h[j].else \in 1..Len(h) + 1
                           /\ Popped(b[j], b[h[j].else])

\* A handler asks for a second connection in the order of the pools; only a group message asks for
\* a second one of the master database.
InOrder(k, h, b, j) ==
    h[j].op = "get" =>
        \/ b[j].len = 0
        \/ Rank[b[j].first] < Rank[h[j].pool]
        \/ k = "group" /\ h[j].pool = "master" /\ b[j] = One("master")

LEMMA GroupSendFlows ==
  /\ Len(GroupSend) = 10 /\ DOMAIN GroupSend = 1..10
  /\ Borrowed.group[1] = None /\ Borrowed.group[11] = None
  /\ \A j \in 1..10 : /\ Flows(GroupSend, Borrowed.group, j)
                      /\ InOrder("group", GroupSend, Borrowed.group, j)
  <1> DEFINE h == GroupSend
             b == Borrowed.group
  <1>1. /\ Len(h) = 10 /\ DOMAIN h = 1..10
        /\ b[1] = None /\ b[2] = One("master") /\ b[3] = One("master")
        /\ b[4] = Two("master", "master") /\ b[5] = One("master") /\ b[6] = Two("master", "unread")
        /\ b[7] = One("master") /\ b[8] = Two("master", "unread") /\ b[9] = Two("master", "unread")
        /\ b[10] = One("master") /\ b[11] = None
    BY DEF GroupSend, Borrowed
  <1>2. /\ h[1] = Get("master", 11) /\ h[2] = Try(10) /\ h[3] = Get("master", 5)
        /\ h[4] = Rel("master") /\ h[5] = Get("unread", 7) /\ h[6] = Rel("unread")
        /\ h[7] = Get("unread", 10) /\ h[8] = Free("unread") /\ h[9] = Drop("unread", 10)
        /\ h[10] = Rel("master")
    BY DEF GroupSend
  <1> HIDE DEF h, b
  <1>3. Flows(h, b, 1) /\ InOrder("group", h, b, 1)
    BY <1>1, <1>2 DEF Flows, Popped, Pushed, InOrder, Rank, Get, Rel, Try, Free, Drop, Pools, Spoils, None, One, Two
  <1>4. Flows(h, b, 2) /\ InOrder("group", h, b, 2)
    BY <1>1, <1>2 DEF Flows, Popped, Pushed, InOrder, Rank, Get, Rel, Try, Free, Drop, Pools, Spoils, None, One, Two
  <1>5. Flows(h, b, 3) /\ InOrder("group", h, b, 3)
    BY <1>1, <1>2 DEF Flows, Popped, Pushed, InOrder, Rank, Get, Rel, Try, Free, Drop, Pools, Spoils, None, One, Two
  <1>6. Flows(h, b, 4) /\ InOrder("group", h, b, 4)
    BY <1>1, <1>2 DEF Flows, Popped, Pushed, InOrder, Rank, Get, Rel, Try, Free, Drop, Pools, Spoils, None, One, Two
  <1>7. Flows(h, b, 5) /\ InOrder("group", h, b, 5)
    BY <1>1, <1>2 DEF Flows, Popped, Pushed, InOrder, Rank, Get, Rel, Try, Free, Drop, Pools, Spoils, None, One, Two
  <1>8. Flows(h, b, 6) /\ InOrder("group", h, b, 6)
    BY <1>1, <1>2 DEF Flows, Popped, Pushed, InOrder, Rank, Get, Rel, Try, Free, Drop, Pools, Spoils, None, One, Two
  <1>9. Flows(h, b, 7) /\ InOrder("group", h, b, 7)
    BY <1>1, <1>2 DEF Flows, Popped, Pushed, InOrder, Rank, Get, Rel, Try, Free, Drop, Pools, Spoils, None, One, Two
  <1>10. Flows(h, b, 8) /\ InOrder("group", h, b, 8)
    BY <1>1, <1>2 DEF Flows, Popped, Pushed, InOrder, Rank, Get, Rel, Try, Free, Drop, Pools, Spoils, None, One, Two
  <1>11. Flows(h, b, 9) /\ InOrder("group", h, b, 9)
    BY <1>1, <1>2 DEF Flows, Popped, Pushed, InOrder, Rank, Get, Rel, Try, Free, Drop, Pools, Spoils, None, One, Two
  <1>12. Flows(h, b, 10) /\ InOrder("group", h, b, 10)
    BY <1>1, <1>2 DEF Flows, Popped, Pushed, InOrder, Rank, Get, Rel, Try, Free, Drop, Pools, Spoils, None, One, Two
  <1> QED
    BY <1>1, <1>3, <1>4, <1>5, <1>6, <1>7, <1>8, <1>9, <1>10, <1>11, <1>12 DEF h, b

LEMMA SingleSendFlows ==
  /\ Len(SingleSend) = 5 /\ DOMAIN SingleSend = 1..5
  /\ Borrowed.single[1] = None /\ Borrowed.single[6] = None
  /\ \A j \in 1..5 : /\ Flows(SingleSend, Borrowed.single, j)
                     /\ InOrder("single", SingleSend, Borrowed.single, j)
  <1> DEFINE h == SingleSend
             b == Borrowed.single
  <1>1. /\ Len(h) = 5 /\ DOMAIN h = 1..5
        /\ b[1] = None /\ b[2] = One("master") /\ b[3] = None /\ b[4] = None
        /\ b[5] = One("unread") /\ b[6] = None
    BY DEF SingleSend, Borrowed
  <1>2. /\ h[1] = Get("master", 6) /\ h[2] = Rel("master") /\ h[3] = Try(6)
        /\ h[4] = Get("unread", 6) /\ h[5] = Rel("unread")
    BY DEF SingleSend
  <1> HIDE DEF h, b
  <1>3. Flows(h, b, 1) /\ InOrder("single", h, b, 1)
    BY <1>1, <1>2 DEF Flows, Popped, Pushed, InOrder, Rank, Get, Rel, Try, Free, Drop, Pools, Spoils, None, One, Two
  <1>4. Flows(h, b, 2) /\ InOrder("single", h, b, 2)
    BY <1>1, <1>2 DEF Flows, Popped, Pushed, InOrder, Rank, Get, Rel, Try, Free, Drop, Pools, Spoils, None, One, Two
  <1>5. Flows(h, b, 3) /\ InOrder("single", h, b, 3)
    BY <1>1, <1>2 DEF Flows, Popped, Pushed, InOrder, Rank, Get, Rel, Try, Free, Drop, Pools, Spoils, None, One, Two
  <1>6. Flows(h, b, 4) /\ InOrder("single", h, b, 4)
    BY <1>1, <1>2 DEF Flows, Popped, Pushed, InOrder, Rank, Get, Rel, Try, Free, Drop, Pools, Spoils, None, One, Two
  <1>7. Flows(h, b, 5) /\ InOrder("single", h, b, 5)
    BY <1>1, <1>2 DEF Flows, Popped, Pushed, InOrder, Rank, Get, Rel, Try, Free, Drop, Pools, Spoils, None, One, Two
  <1> QED
    BY <1>1, <1>3, <1>4, <1>5, <1>6, <1>7 DEF h, b

LEMMA UnreadCountFlows ==
  /\ Len(UnreadCount) = 4 /\ DOMAIN UnreadCount = 1..4
  /\ Borrowed.unread[1] = None /\ Borrowed.unread[5] = None
  /\ \A j \in 1..4 : /\ Flows(UnreadCount, Borrowed.unread, j)
                     /\ InOrder("unread", UnreadCount, Borrowed.unread, j)
  <1> DEFINE h == UnreadCount
             b == Borrowed.unread
  <1>1. /\ Len(h) = 4 /\ DOMAIN h = 1..4
        /\ b[1] = None /\ b[2] = One("unread") /\ b[3] = Two("unread", "slave")
        /\ b[4] = One("unread") /\ b[5] = None
    BY DEF UnreadCount, Borrowed
  <1>2. /\ h[1] = Get("unread", 5) /\ h[2] = Get("slave", 4) /\ h[3] = Rel("slave")
        /\ h[4] = Rel("unread")
    BY DEF UnreadCount
  <1> HIDE DEF h, b
  <1>3. Flows(h, b, 1) /\ InOrder("unread", h, b, 1)
    BY <1>1, <1>2 DEF Flows, Popped, Pushed, InOrder, Rank, Get, Rel, Try, Free, Drop, Pools, Spoils, None, One, Two
  <1>4. Flows(h, b, 2) /\ InOrder("unread", h, b, 2)
    BY <1>1, <1>2 DEF Flows, Popped, Pushed, InOrder, Rank, Get, Rel, Try, Free, Drop, Pools, Spoils, None, One, Two
  <1>5. Flows(h, b, 3) /\ InOrder("unread", h, b, 3)
    BY <1>1, <1>2 DEF Flows, Popped, Pushed, InOrder, Rank, Get, Rel, Try, Free, Drop, Pools, Spoils, None, One, Two
  <1>6. Flows(h, b, 4) /\ InOrder("unread", h, b, 4)
    BY <1>1, <1>2 DEF Flows, Popped, Pushed, InOrder, Rank, Get, Rel, Try, Free, Drop, Pools, Spoils, None, One, Two
  <1> QED
    BY <1>1, <1>3, <1>4, <1>5, <1>6 DEF h, b

LEMMA AddMemberFlows ==
  /\ Len(AddMember) = 13 /\ DOMAIN AddMember = 1..13
  /\ Borrowed.member[1] = None /\ Borrowed.member[14] = None
  /\ \A j \in 1..13 : /\ Flows(AddMember, Borrowed.member, j)
                      /\ InOrder("member", AddMember, Borrowed.member, j)
  <1> DEFINE h == AddMember
             b == Borrowed.member
  <1>1. /\ Len(h) = 13 /\ DOMAIN h = 1..13
        /\ b[1] = None /\ b[2] = One("group_member") /\ b[3] = One("group_member")
        /\ b[4] = One("group_member") /\ b[5] = One("group_member") /\ b[6] = One("group_member")
        /\ b[7] = None /\ b[8] = None /\ b[9] = One("slave") /\ b[10] = None
        /\ b[11] = One("master") /\ b[12] = Two("master", "group_member") /\ b[13] = One("master")
        /\ b[14] = None
    BY DEF AddMember, Borrowed
  <1>2. /\ h[1] = Get("group_member", 7) /\ h[2] = Try(4) /\ h[3] = Drop("group_member", 14)
        /\ h[4] = Try(6) /\ h[5] = Free("group_member") /\ h[6] = Rel("group_member")
        /\ h[7] = Try(14) /\ h[8] = Get("slave", 14) /\ h[9] = Rel("slave")
        /\ h[10] = Get("master", 14) /\ h[11] = Get("group_member", 13)
        /\ h[12] = Rel("group_member") /\ h[13] = Rel("master")
    BY DEF AddMember
  <1> HIDE DEF h, b
  <1>3. Flows(h, b, 1) /\ InOrder("member", h, b, 1)
    BY <1>1, <1>2 DEF Flows, Popped, Pushed, InOrder, Rank, Get, Rel, Try, Free, Drop, Pools, Spoils, None, One, Two
  <1>4. Flows(h, b, 2) /\ InOrder("member", h, b, 2)
    BY <1>1, <1>2 DEF Flows, Popped, Pushed, InOrder, Rank, Get, Rel, Try, Free, Drop, Pools, Spoils, None, One, Two
  <1>5. Flows(h, b, 3) /\ InOrder("member", h, b, 3)
    BY <1>1, <1>2 DEF Flows, Popped, Pushed, InOrder, Rank, Get, Rel, Try, Free, Drop, Pools, Spoils, None, One, Two
  <1>6. Flows(h, b, 4) /\ InOrder("member", h, b, 4)
    BY <1>1, <1>2 DEF Flows, Popped, Pushed, InOrder, Rank, Get, Rel, Try, Free, Drop, Pools, Spoils, None, One, Two
  <1>7. Flows(h, b, 5) /\ InOrder("member", h, b, 5)
    BY <1>1, <1>2 DEF Flows, Popped, Pushed, InOrder, Rank, Get, Rel, Try, Free, Drop, Pools, Spoils, None, One, Two
  <1>8. Flows(h, b, 6) /\ InOrder("member", h, b, 6)
    BY <1>1, <1>2 DEF Flows, Popped, Pushed, InOrder, Rank, Get, Rel, Try, Free, Drop, Pools, Spoils, None, One, Two
  <1>9. Flows(h, b, 7) /\ InOrder("member", h, b, 7)
    BY <1>1, <1>2 DEF Flows, Popped, Pushed, InOrder, Rank, Get, Rel, Try, Free, Drop, Pools, Spoils, None, One, Two
  <1>10. Flows(h, b, 8) /\ InOrder("member", h, b, 8)
    BY <1>1, <1>2 DEF Flows, Popped, Pushed, InOrder, Rank, Get, Rel, Try, Free, Drop, Pools, Spoils, None, One, Two
  <1>11. Flows(h, b, 9) /\ InOrder("member", h, b, 9)
    BY <1>1, <1>2 DEF Flows, Popped, Pushed, InOrder, Rank, Get, Rel, Try, Free, Drop, Pools, Spoils, None, One, Two
  <1>12. Flows(h, b, 10) /\ InOrder("member", h, b, 10)
    BY <1>1, <1>2 DEF Flows, Popped, Pushed, InOrder, Rank, Get, Rel, Try, Free, Drop, Pools, Spoils, None, One, Two
  <1>13. Flows(h, b, 11) /\ InOrder("member", h, b, 11)
    BY <1>1, <1>2 DEF Flows, Popped, Pushed, InOrder, Rank, Get, Rel, Try, Free, Drop, Pools, Spoils, None, One, Two
  <1>14. Flows(h, b, 12) /\ InOrder("member", h, b, 12)
    BY <1>1, <1>2 DEF Flows, Popped, Pushed, InOrder, Rank, Get, Rel, Try, Free, Drop, Pools, Spoils, None, One, Two
  <1>15. Flows(h, b, 13) /\ InOrder("member", h, b, 13)
    BY <1>1, <1>2 DEF Flows, Popped, Pushed, InOrder, Rank, Get, Rel, Try, Free, Drop, Pools, Spoils, None, One, Two
  <1> QED
    BY <1>1, <1>3, <1>4, <1>5, <1>6, <1>7, <1>8, <1>9, <1>10, <1>11, <1>12, <1>13, <1>14, <1>15 DEF h, b

LEMMA GroupHistoryFlows ==
  /\ Len(GroupHistory) = 4 /\ DOMAIN GroupHistory = 1..4
  /\ Borrowed.history[1] = None /\ Borrowed.history[5] = None
  /\ \A j \in 1..4 : /\ Flows(GroupHistory, Borrowed.history, j)
                     /\ InOrder("history", GroupHistory, Borrowed.history, j)
  <1> DEFINE h == GroupHistory
             b == Borrowed.history
  <1>1. /\ Len(h) = 4 /\ DOMAIN h = 1..4
        /\ b[1] = None /\ b[2] = One("slave") /\ b[3] = Two("slave", "group_member")
        /\ b[4] = One("slave") /\ b[5] = None
    BY DEF GroupHistory, Borrowed
  <1>2. /\ h[1] = Get("slave", 5) /\ h[2] = Get("group_member", 4) /\ h[3] = Rel("group_member")
        /\ h[4] = Rel("slave")
    BY DEF GroupHistory
  <1> HIDE DEF h, b
  <1>3. Flows(h, b, 1) /\ InOrder("history", h, b, 1)
    BY <1>1, <1>2 DEF Flows, Popped, Pushed, InOrder, Rank, Get, Rel, Try, Free, Drop, Pools, Spoils, None, One, Two
  <1>4. Flows(h, b, 2) /\ InOrder("history", h, b, 2)
    BY <1>1, <1>2 DEF Flows, Popped, Pushed, InOrder, Rank, Get, Rel, Try, Free, Drop, Pools, Spoils, None, One, Two
  <1>5. Flows(h, b, 3) /\ InOrder("history", h, b, 3)
    BY <1>1, <1>2 DEF Flows, Popped, Pushed, InOrder, Rank, Get, Rel, Try, Free, Drop, Pools, Spoils, None, One, Two
  <1>6. Flows(h, b, 4) /\ InOrder("history", h, b, 4)
    BY <1>1, <1>2 DEF Flows, Popped, Pushed, InOrder, Rank, Get, Rel, Try, Free, Drop, Pools, Spoils, None, One, Two
  <1> QED
    BY <1>1, <1>3, <1>4, <1>5, <1>6 DEF h, b

LEMMA ChangeSignFlows ==
  /\ Len(ChangeSign) = 5 /\ DOMAIN ChangeSign = 1..5
  /\ Borrowed.sign[1] = None /\ Borrowed.sign[6] = None
  /\ \A j \in 1..5 : /\ Flows(ChangeSign, Borrowed.sign, j)
                     /\ InOrder("sign", ChangeSign, Borrowed.sign, j)
  <1> DEFINE h == ChangeSign
             b == Borrowed.sign
  <1>1. /\ Len(h) = 5 /\ DOMAIN h = 1..5
        /\ b[1] = None /\ b[2] = One("master") /\ b[3] = One("master")
        /\ b[4] = Two("master", "unread") /\ b[5] = One("master") /\ b[6] = None
    BY DEF ChangeSign, Borrowed
  <1>2. /\ h[1] = Get("master", 6) /\ h[2] = Try(5) /\ h[3] = Get("unread", 5)
        /\ h[4] = Rel("unread") /\ h[5] = Rel("master")
    BY DEF ChangeSign
  <1> HIDE DEF h, b
  <1>3. Flows(h, b, 1) /\ InOrder("sign", h, b, 1)
    BY <1>1, <1>2 DEF Flows, Popped, Pushed, InOrder, Rank, Get, Rel, Try, Free, Drop, Pools, Spoils, None, One, Two
  <1>4. Flows(h, b, 2) /\ InOrder("sign", h, b, 2)
    BY <1>1, <1>2 DEF Flows, Popped, Pushed, InOrder, Rank, Get, Rel, Try, Free, Drop, Pools, Spoils, None, One, Two
  <1>5. Flows(h, b, 3) /\ InOrder("sign", h, b, 3)
    BY <1>1, <1>2 DEF Flows, Popped, Pushed, InOrder, Rank, Get, Rel, Try, Free, Drop, Pools, Spoils, None, One, Two
  <1>6. Flows(h, b, 4) /\ InOrder("sign", h, b, 4)
    BY <1>1, <1>2 DEF Flows, Popped, Pushed, InOrder, Rank, Get, Rel, Try, Free, Drop, Pools, Spoils, None, One, Two
  <1>7. Flows(h, b, 5) /\ InOrder("sign", h, b, 5)
    BY <1>1, <1>2 DEF Flows, Popped, Pushed, InOrder, Rank, Get, Rel, Try, Free, Drop, Pools, Spoils, None, One, Two
  <1> QED
    BY <1>1, <1>3, <1>4, <1>5, <1>6, <1>7 DEF h, b

LEMMA ClearUnreadFlows ==
  /\ Len(ClearUnread) = 2 /\ DOMAIN ClearUnread = 1..2
  /\ Borrowed.read[1] = None /\ Borrowed.read[3] = None
  /\ \A j \in 1..2 : /\ Flows(ClearUnread, Borrowed.read, j)
                     /\ InOrder("read", ClearUnread, Borrowed.read, j)
  <1> DEFINE h == ClearUnread
             b == Borrowed.read
  <1>1. /\ Len(h) = 2 /\ DOMAIN h = 1..2
        /\ b[1] = None /\ b[2] = One("unread") /\ b[3] = None
    BY DEF ClearUnread, Borrowed
  <1>2. /\ h[1] = Get("unread", 3) /\ h[2] = Rel("unread")
    BY DEF ClearUnread
  <1> HIDE DEF h, b
  <1>3. Flows(h, b, 1) /\ InOrder("read", h, b, 1)
    BY <1>1, <1>2 DEF Flows, Popped, Pushed, InOrder, Rank, Get, Rel, Try, Free, Drop, Pools, Spoils, None, One, Two
  <1>4. Flows(h, b, 2) /\ InOrder("read", h, b, 2)
    BY <1>1, <1>2 DEF Flows, Popped, Pushed, InOrder, Rank, Get, Rel, Try, Free, Drop, Pools, Spoils, None, One, Two
  <1> QED
    BY <1>1, <1>3, <1>4 DEF h, b

\* Every kind of request has one of these handlers.
LEMMA HandlerFlows ==
  ASSUME NEW k \in Kinds
  PROVE  /\ Len(Handler[k]) \in Nat /\ DOMAIN Handler[k] = 1..Len(Handler[k])
         /\ Borrowed[k][1] = None /\ Borrowed[k][Len(Handler[k]) + 1] = None
         /\ \A j \in 1..Len(Handler[k]) : /\ Flows(Handler[k], Borrowed[k], j)
                                          /\ InOrder(k, Handler[k], Borrowed[k], j)
  <1>1. k \in {"group", "single", "unread", "member", "history", "sign", "read"}
    BY KindsAssumption DEF Handler
  <1>2. CASE k = "group"
    <2>1. Handler[k] = GroupSend /\ Borrowed[k] = Borrowed.group
      BY <1>2 DEF Handler
    <2> QED
      BY <1>2, <2>1, GroupSendFlows
  <1>3. CASE k = "single"
    <2>1. Handler[k] = SingleSend /\ Borrowed[k] = Borrowed.single
      BY <1>3 DEF Handler
    <2> QED
      BY <1>3, <2>1, SingleSendFlows
  <1>4. CASE k = "unread"
    <2>1. Handler[k] = UnreadCount /\ Borrowed[k] = Borrowed.unread
      BY <1>4 DEF Handler
    <2> QED
      BY <1>4, <2>1, UnreadCountFlows
  <1>5. CASE k = "member"
    <2>1. Handler[k] = AddMember /\ Borrowed[k] = Borrowed.member
      BY <1>5 DEF Handler
    <2> QED
      BY <1>5, <2>1, AddMemberFlows
  <1>6. CASE k = "history"
    <2>1. Handler[k] = GroupHistory /\ Borrowed[k] = Borrowed.history
      BY <1>6 DEF Handler
    <2> QED
      BY <1>6, <2>1, GroupHistoryFlows
  <1>7. CASE k = "sign"
    <2>1. Handler[k] = ChangeSign /\ Borrowed[k] = Borrowed.sign
      BY <1>7 DEF Handler
    <2> QED
      BY <1>7, <2>1, ChangeSignFlows
  <1>8. CASE k = "read"
    <2>1. Handler[k] = ClearUnread /\ Borrowed[k] = Borrowed.read
      BY <1>8 DEF Handler
    <2> QED
      BY <1>8, <2>1, ClearUnreadFlows
  <1> QED
    BY <1>1, <1>2, <1>3, <1>4, <1>5, <1>6, <1>7, <1>8

\* The connections s that a worker holds are the borrowed ones b.
Fits(s, b) == Len(s) = b.len /\ (b.len > 0 => s[1][1] = b.first /\ s[Len(s)][1] = b.last)

\* A worker holds what its handler has borrowed up to the step that it takes next.
Follows(w) ==
    IF task[w] = NoTask THEN held[w] = <<>> /\ step[w] = 1
    ELSE /\ step[w] \in 1..Len(Handler[task[w].kind]) + 1
         /\ Fits(held[w], Borrowed[task[w].kind][step[w]])

\* Each connection is in one place, connection by connection, unless it is spoilt.
Places ==
    /\ \A w \in Workers : \A i, j \in DOMAIN held[w] : held[w][i] = held[w][j] => i = j \/ held[w][i] \in spoilt
    /\ \A v, w \in Workers : v # w => \A c \in HeldBy(v) : c \in HeldBy(w) => c \in spoilt
    /\ \A w \in Workers : \A c \in HeldBy(w) : /\ c[2] \in 1..cur_conn_cnt[c[1]]
                                               /\ c[2] \in m_free_list[c[1]] => c \in spoilt
    /\ \A p \in Pools : m_free_list[p] \subseteq 1..cur_conn_cnt[p]
    /\ \A p \in Pools : \A n \in 1..cur_conn_cnt[p] :
          n \in m_free_list[p] \/ <<p, n>> \in spoilt \/ \E w \in Workers : <<p, n>> \in HeldBy(w)
    /\ \A c \in spoilt : c[1] \in Spoils
    /\ \A p \in Pools : /\ cur_conn_cnt[p] >= MinConn
                        /\ cur_conn_cnt[p] = MinConn \/ cur_conn_cnt[p] <= MaxConn[p]

PoolInv == TypeOK /\ (\A w \in Workers : Follows(w)) /\ Places

\* What a worker has borrowed before step j of its handler.
Holding(w, j) == Borrowed[task[w].kind][j]

\* A worker at an operation on the pools is at a step of its handler, with what that step needs.
LEMMA AtStep ==
  ASSUME TypeOK, NEW w \in Workers, Follows(w), NEW op, At(w, op)
  PROVE  /\ task[w] \in Task /\ task[w] # NoTask /\ This(w).op = op /\ This(w).pool \in Pools
         /\ step[w] \in Nat /\ step[w] + 1 \in 1..Len(Handler[task[w].kind]) + 1
         /\ Fits(held[w], Holding(w, step[w]))
         /\ op \in {"get", "try"} => /\ This(w).else \in 1..Len(Handler[task[w].kind]) + 1
                                     /\ Holding(w, This(w).else) = Holding(w, step[w])
         /\ op = "get" => /\ Pushed(Holding(w, step[w]), Holding(w, step[w] + 1), This(w).pool)
                          /\ InOrder(task[w].kind, Handler[task[w].kind], Borrowed[task[w].kind], step[w])
         /\ op = "rel" => Popped(Holding(w, step[w]), Holding(w, step[w] + 1))
         /\ op = "try" => Holding(w, step[w] + 1) = Holding(w, step[w])
         /\ op = "free" => /\ Holding(w, step[w]).len > 0 /\ Holding(w, step[w]).last \in Spoils
                           /\ Holding(w, step[w] + 1) = Holding(w, step[w])
         /\ op = "drop" => /\ Holding(w, step[w]).last \in Spoils
                           /\ This(w).else \in 1..Len(Handler[task[w].kind]) + 1
                           /\ Popped(Holding(w, step[w]), Holding(w, This(w).else))
  <1> DEFINE k == task[w].kind
  <1>1. task[w] # NoTask /\ task[w] \in Task /\ k \in Kinds
    BY DEF At, TypeOK, Task
  <1>2. step[w] \in DOMAIN Handler[k] /\ Handler[k][step[w]].op = op
    BY DEF At
  <1>3. Fits(held[w], Borrowed[k][step[w]])
    BY <1>1 DEF Follows
  <1> HIDE DEF k
  <1>4. /\ Len(Handler[k]) \in Nat /\ step[w] \in 1..Len(Handler[k])
        /\ Flows(Handler[k], Borrowed[k], step[w]) /\ InOrder(k, Handler[k], Borrowed[k], step[w])
    BY <1>1, <1>2, HandlerFlows
  <1>5. This(w) = Handler[k][step[w]] /\ \A j : Holding(w, j) = Borrowed[k][j]
    BY DEF This, Holding, k
  <1>6. step[w] \in Nat /\ step[w] + 1 \in 1..Len(Handler[k]) + 1
    BY <1>4
  <1>7. This(w).op = op /\ This(w).pool \in Pools
    BY <1>2, <1>4, <1>5 DEF Flows
  <1>8. op \in {"get", "try"} => /\ This(w).else \in 1..Len(Handler[k]) + 1
                                 /\ Holding(w, This(w).else) = Holding(w, step[w])
    BY <1>2, <1>4, <1>5 DEF Flows
  <1>9. op = "get" => Pushed(Holding(w, step[w]), Holding(w, step[w] + 1), This(w).pool)
    BY <1>2, <1>4, <1>5 DEF Flows
  <1>10. op = "rel" => Popped(Holding(w, step[w]), Holding(w, step[w] + 1))
    BY <1>2, <1>4, <1>5 DEF Flows
  <1>11. op = "try" => Holding(w, step[w] + 1) = Holding(w, step[w])
    BY <1>2, <1>4, <1>5 DEF Flows
  <1>12. op = "free" => /\ Holding(w, step[w]).len > 0 /\ Holding(w, step[w]).last \in Spoils
                        /\ Holding(w, step[w] + 1) = Holding(w, step[w])
    BY <1>2, <1>4, <1>5 DEF Flows
  <1>13. op = "drop" => /\ Holding(w, step[w]).last \in Spoils /\ This(w).else \in 1..Len(Handler[k]) + 1
                        /\ Popped(Holding(w, step[w]), Holding(w, This(w).else))
    BY <1>2, <1>4, <1>5 DEF Flows
  <1> QED
    BY <1>1, <1>3, <1>4, <1>5, <1>6, <1>7, <1>8, <1>9, <1>10, <1>11, <1>12, <1>13 DEF k

\* A worker that goes on at step j, with what is to be held there.
LEMMA GoesOn ==
  ASSUME NEW w \in Workers, NEW j, task[w] # NoTask, task'[w] = task[w], step'[w] = j,
         j \in 1..Len(Handler[task[w].kind]) + 1, Fits(held'[w], Holding(w, j))
  PROVE  Follows(w)'
  BY DEF Follows, Holding

LEMMA OthersFollow ==
  ASSUME NEW w, Follows(w), task'[w] = task[w], step'[w] = step[w], held'[w] = held[w]
  PROVE  Follows(w)'
  BY DEF Follows

LEMMA AppendFits ==
  ASSUME NEW S, NEW s \in Seq(S), NEW b, Fits(s, b), NEW c \in S, NEW a, Pushed(b, a, c[1])
  PROVE  Append(s, c) \in Seq(S) /\ Fits(Append(s, c), a)
  <1> USE DEF Pushed
  <1>1. Len(s) \in Nat /\ Len(s) = b.len /\ Len(Append(s, c)) = Len(s) + 1 /\ Append(s, c) \in Seq(S)
    BY DEF Fits
  <1>2. Append(s, c)[Len(s) + 1] = c /\ (Len(s) > 0 => Append(s, c)[1] = s[1])
    OBVIOUS
  <1>3. Len(s) > 0 => s[1][1] = b.first
    BY <1>1 DEF Fits
  <1>4. CASE Len(s) = 0
    BY <1>1, <1>2, <1>4 DEF Fits
  <1>5. CASE Len(s) > 0
    BY <1>1, <1>2, <1>3, <1>5 DEF Fits
  <1> QED
    BY <1>1, <1>4, <1>5

Front(s) == SubSeq(s, 1, Len(s) - 1)

LEMMA FrontFits ==
  ASSUME NEW S, NEW s \in Seq(S), NEW b, Fits(s, b), NEW a, Popped(b, a)
  PROVE  Len(s) > 0 /\ Front(s) \in Seq(S) /\ Fits(Front(s), a)
  <1> USE DEF Popped
  <1>1. Len(s) \in Nat /\ Len(s) = b.len /\ Len(s) > 0
    BY DEF Fits
  <1>2. Front(s) \in Seq(S) /\ Len(Front(s)) = a.len
    BY <1>1 DEF Front
  <1>3. a.len > 0 => Front(s)[1] = s[1]
    BY <1>1 DEF Front
  <1>4. s[1][1] = b.first
    BY <1>1 DEF Fits
  <1> QED
    BY <1>1, <1>2, <1>3, <1>4 DEF Fits

\* Connection n of pool p, a free one or a new one, is in one place when worker w has borrowed it.
LEMMA BorrowPlaces ==
  ASSUME TypeOK, TypeOK', Places, NEW w \in Workers, NEW p \in Pools, NEW n \in Nat,
         UNCHANGED spoilt,
         held' = [held EXCEPT ![w] = Append(held[w], <<p, n>>)],
         \A q \in Pools \ {p} : m_free_list'[q] = m_free_list[q] /\ cur_conn_cnt'[q] = cur_conn_cnt[q],
         \/ /\ n \in m_free_list[p] /\ m_free_list'[p] = m_free_list[p] \ {n}
            /\ cur_conn_cnt'[p] = cur_conn_cnt[p]
         \/ /\ m_free_list'[p] = m_free_list[p] /\ n = cur_conn_cnt[p] + 1
            /\ cur_conn_cnt'[p] = n /\ n <= MaxConn[p]
  PROVE  Places'
  <1> DEFINE c == <<p, n>>
  <1>1. /\ held \in [Workers -> Seq(Pools \X Nat)] /\ held' \in [Workers -> Seq(Pools \X Nat)]
        /\ cur_conn_cnt \in [Pools -> Nat] /\ cur_conn_cnt' \in [Pools -> Nat]
        /\ c[1] = p /\ c[2] = n
    BY DEF TypeOK
  <1>2. held'[w] = Append(held[w], c) /\ \A v \in Workers \ {w} : held'[v] = held[v]
    BY <1>1
  <1>3. \A v \in Workers : \A d \in HeldBy(v) : d \in Pools \X Nat
    BY <1>1 DEF HeldBy
  <1>4. \A v \in Workers : c \in HeldBy(v) => c \in spoilt
    BY <1>1 DEF Places
  <1>5. n \in 1..cur_conn_cnt'[p] /\ n \notin m_free_list'[p] /\ m_free_list'[p] \subseteq 1..cur_conn_cnt'[p]
    BY <1>1 DEF Places
  <1>6. \A m \in 1..cur_conn_cnt'[p] : m # n => m \in 1..cur_conn_cnt[p]
    BY <1>1
  <1>7. \A m : m \in m_free_list[p] => m \in m_free_list'[p] \/ m = n
    OBVIOUS
  <1>8. /\ Len(held[w]) \in Nat /\ DOMAIN held[w] = 1..Len(held[w])
        /\ DOMAIN held'[w] = 1..Len(held[w]) + 1 /\ held'[w][Len(held[w]) + 1] = c
        /\ \A i \in 1..Len(held[w]) : held'[w][i] = held[w][i]
    <2>1. c \in Pools \X Nat /\ held[w] \in Seq(Pools \X Nat)
      BY <1>1
    <2> HIDE DEF c
    <2> QED
      BY <1>2, <2>1
  <1> HIDE DEF c
  <1>9. HeldBy(w)' = HeldBy(w) \union {c} /\ \A v \in Workers \ {w} : HeldBy(v)' = HeldBy(v)
    <2>1. \A v \in Workers \ {w} : HeldBy(v)' = HeldBy(v)
      BY <1>2 DEF HeldBy
    <2>2. ASSUME NEW d \in HeldBy(w)' PROVE d \in HeldBy(w) \union {c}
      BY <1>8 DEF HeldBy
    <2>3. c \in HeldBy(w)'
      BY <1>8 DEF HeldBy
    <2>4. ASSUME NEW d \in HeldBy(w) PROVE d \in HeldBy(w)'
      <3>1. PICK i \in DOMAIN held[w] : d = held[w][i]
        BY DEF HeldBy
      <3>2. i \in DOMAIN held'[w] /\ held'[w][i] = d
        BY <1>8, <3>1
      <3> QED
        BY <3>2 DEF HeldBy
    <2> QED
      BY <2>1, <2>2, <2>3, <2>4
  <1>10. (\A v \in Workers : \A i, j \in DOMAIN held[v] : held[v][i] = held[v][j] => i = j \/ held[v][i] \in spoilt)'
    <2>1. \A i \in DOMAIN held[w] : held[w][i] = c => c \in spoilt
      BY <1>4 DEF HeldBy
    <2>2. \A i, j \in 1..Len(held[w]) : held[w][i] = held[w][j] => i = j \/ held[w][i] \in spoilt
      BY <1>8 DEF Places
    <2>3. ASSUME NEW i \in 1..Len(held[w]) + 1, NEW j \in 1..Len(held[w]) + 1, held'[w][i] = held'[w][j], i # j
          PROVE  held'[w][i] \in spoilt
      <3>1. CASE i \in 1..Len(held[w]) /\ j \in 1..Len(held[w])
        BY <1>8, <2>2, <2>3, <3>1
      <3>2. CASE i = Len(held[w]) + 1 /\ j \in 1..Len(held[w])
        BY <1>8, <2>1, <2>3, <3>2
      <3>3. CASE j = Len(held[w]) + 1 /\ i \in 1..Len(held[w])
        BY <1>8, <2>1, <2>3, <3>3
      <3> QED
        BY <1>8, <2>3, <3>1, <3>2, <3>3
    <2>4. \A v \in Workers \ {w} : \A i, j \in DOMAIN held'[v] :
             held'[v][i] = held'[v][j] => i = j \/ held'[v][i] \in spoilt
      BY <1>2 DEF Places
    <2>5. ASSUME NEW v \in Workers, NEW i \in DOMAIN held'[v], NEW j \in DOMAIN held'[v], held'[v][i] = held'[v][j]
          PROVE  i = j \/ held'[v][i] \in spoilt'
      <3>1. CASE v = w
        <4>1. i \in 1..Len(held[w]) + 1 /\ j \in 1..Len(held[w]) + 1
          BY <1>8, <3>1
        <4> QED
          BY <2>3, <2>5, <3>1, <4>1
      <3>2. CASE v # w
        BY <2>4, <2>5, <3>2
      <3> QED
        BY <3>1, <3>2
    <2> QED
      BY <2>5
  <1>11. (\A u, v \in Workers : u # v => \A d \in HeldBy(u) : d \in HeldBy(v) => d \in spoilt)'
    BY <1>4, <1>9 DEF Places
  <1>12. (\A v \in Workers : \A d \in HeldBy(v) : /\ d[2] \in 1..cur_conn_cnt[d[1]]
                                                  /\ d[2] \in m_free_list[d[1]] => d \in spoilt)'
    <2> SUFFICES ASSUME NEW v \in Workers, NEW d, d \in HeldBy(v)'
                 PROVE  d[2] \in 1..cur_conn_cnt'[d[1]] /\ (d[2] \in m_free_list'[d[1]] => d \in spoilt)
      OBVIOUS
    <2>1. CASE d = c
      BY <1>1, <1>5, <2>1
    <2>2. CASE d # c
      <3>1. d \in HeldBy(v)
        BY <1>9, <2>2
      <3>2. /\ d[1] \in Pools /\ d[2] \in Nat /\ d[2] \in 1..cur_conn_cnt[d[1]]
            /\ d[2] \in m_free_list[d[1]] => d \in spoilt
        BY <1>3, <3>1 DEF Places
      <3>3. CASE d[1] = p
        BY <1>1, <3>2, <3>3
      <3>4. CASE d[1] # p
        BY <3>2, <3>4
      <3> QED
        BY <3>3, <3>4
    <2> QED
      BY <2>1, <2>2
  <1>13. \A q \in Pools : m_free_list'[q] \subseteq 1..cur_conn_cnt'[q]
    BY <1>5 DEF Places
  <1>14. (\A q \in Pools : \A m \in 1..cur_conn_cnt[q] :
             m \in m_free_list[q] \/ <<q, m>> \in spoilt \/ \E v \in Workers : <<q, m>> \in HeldBy(v))'
    <2> SUFFICES ASSUME NEW q \in Pools, NEW m \in 1..cur_conn_cnt'[q], m \notin m_free_list'[q],
                        <<q, m>> \notin spoilt
                 PROVE  \E v \in Workers : <<q, m>> \in HeldBy(v)'
      OBVIOUS
    <2>1. CASE <<q, m>> = c
      BY <1>9, <2>1
    <2>2. CASE <<q, m>> # c
      <3>1. q = p => m # n
        BY <2>2 DEF c
      <3>2. m \in 1..cur_conn_cnt[q] /\ m \notin m_free_list[q]
        BY <1>6, <1>7, <3>1
      <3>3. PICK v \in Workers : <<q, m>> \in HeldBy(v)
        BY <3>2 DEF Places
      <3> QED
        BY <1>9, <3>3
    <2> QED
      BY <2>1, <2>2
  <1>15. \A q \in Pools : /\ cur_conn_cnt'[q] >= MinConn
                          /\ cur_conn_cnt'[q] = MinConn \/ cur_conn_cnt'[q] <= MaxConn[q]
    <2>1. MinConn \in Nat /\ \A q \in Pools : MaxConn[q] \in Nat /\ cur_conn_cnt[q] \in Nat
      BY <1>1, ConnAssumption
    <2>2. \A q \in Pools : /\ cur_conn_cnt[q] >= MinConn
                           /\ cur_conn_cnt[q] = MinConn \/ cur_conn_cnt[q] <= MaxConn[q]
      BY DEF Places
    <2>3. \A q \in Pools : \/ cur_conn_cnt'[q] = cur_conn_cnt[q]
                           \/ (cur_conn_cnt'[q] = cur_conn_cnt[q] + 1 /\ cur_conn_cnt'[q] <= MaxConn[q])
      OBVIOUS
    <2> QED
      BY <2>1, <2>2, <2>3
  <1>16. (\A d \in spoilt : d[1] \in Spoils)'
    BY DEF Places
  <1> QED
    BY <1>10, <1>11, <1>12, <1>13, <1>14, <1>15, <1>16 DEF Places

\* The last connection of a worker that is given back, or forgotten, is in one place or spoilt.
LEMMA LeavePlaces ==
  ASSUME TypeOK, TypeOK', Places, NEW w \in Workers, held[w] # <<>>, UNCHANGED cur_conn_cnt, NEW c, c = LastHeld(w),
         held' = [held EXCEPT ![w] = Front(held[w])] \/ (held' = held /\ c \in spoilt'),
         \/ m_free_list' = [m_free_list EXCEPT ![c[1]] = @ \union {c[2]}]
         \/ m_free_list' = m_free_list /\ c \in spoilt',
         spoilt' = spoilt \/ (spoilt' = spoilt \union {c} /\ c[1] \in Spoils)
  PROVE  Places'
  <1>1. /\ held \in [Workers -> Seq(Pools \X Nat)] /\ held' \in [Workers -> Seq(Pools \X Nat)]
        /\ cur_conn_cnt \in [Pools -> Nat] /\ m_free_list \in [Pools -> SUBSET Nat]
    BY DEF TypeOK
  <1>2. \A v \in Workers \ {w} : held'[v] = held[v]
    BY <1>1
  <1>3. \A v \in Workers : \A d \in HeldBy(v) : d \in Pools \X Nat
    BY <1>1 DEF HeldBy
  <1>4. /\ Len(held[w]) \in Nat \ {0} /\ DOMAIN held[w] = 1..Len(held[w])
        /\ c = held[w][Len(held[w])]
    BY <1>1 DEF LastHeld
  <1>5. /\ DOMAIN held'[w] \subseteq 1..Len(held[w])
        /\ \A i \in DOMAIN held'[w] : held'[w][i] = held[w][i]
        /\ \A i \in 1..Len(held[w]) - 1 : i \in DOMAIN held'[w]
        /\ Len(held[w]) \in DOMAIN held'[w] => c \in spoilt'
    <2>1. CASE held' = held /\ c \in spoilt'
      BY <1>4, <2>1
    <2>2. CASE held' = [held EXCEPT ![w] = Front(held[w])]
      <3>1. held'[w] = Front(held[w])
        BY <1>1, <2>2
      <3>2. /\ DOMAIN Front(held[w]) = 1..Len(held[w]) - 1
            /\ \A i \in 1..Len(held[w]) - 1 : Front(held[w])[i] = held[w][i]
        BY <1>1, <1>4 DEF Front
      <3> QED
        BY <1>4, <3>1, <3>2
    <2> QED
      BY <2>1, <2>2
  <1>6. c \in HeldBy(w) /\ c \in Pools \X Nat
    BY <1>3, <1>4 DEF HeldBy
  <1>7. \A v \in Workers : HeldBy(v)' \subseteq HeldBy(v) /\ HeldBy(v) \ {c} \subseteq HeldBy(v)'
    <2>1. \A v \in Workers \ {w} : HeldBy(v)' = HeldBy(v)
      BY <1>2 DEF HeldBy
    <2>2. HeldBy(w)' \subseteq HeldBy(w)
      BY <1>4, <1>5 DEF HeldBy
    <2>3. ASSUME NEW d \in HeldBy(w), d # c PROVE d \in HeldBy(w)'
      <3>1. PICK i \in DOMAIN held[w] : d = held[w][i]
        BY DEF HeldBy
      <3>2. i \in DOMAIN held'[w] /\ held'[w][i] = d
        BY <1>4, <1>5, <2>3, <3>1
      <3> QED
        BY <3>2 DEF HeldBy
    <2> QED
      BY <2>1, <2>2, <2>3
  <1>8. ASSUME NEW v \in Workers, c \in HeldBy(v)' PROVE c \in spoilt'
    <2>1. CASE v # w
      BY <1>6, <1>7, <1>8, <2>1 DEF Places
    <2>2. CASE v = w
      <3>1. PICK i \in DOMAIN held'[w] : held'[w][i] = c
        BY <1>8, <2>2 DEF HeldBy
      <3>2. i \in DOMAIN held[w] /\ held[w][i] = c /\ Len(held[w]) \in DOMAIN held[w]
        BY <1>4, <1>5, <3>1
      <3>3. i = Len(held[w]) \/ c \in spoilt
        BY <1>4, <3>2 DEF Places
      <3> QED
        BY <1>5, <3>1, <3>3
    <2> QED
      BY <2>1, <2>2
  <1>9. spoilt \subseteq spoilt' /\ \A d \in spoilt' : d[1] \in Spoils
    BY DEF Places
  <1>10. c[1] \in Pools /\ c[2] \in Nat /\ c[2] \in 1..cur_conn_cnt[c[1]] /\ c = <<c[1], c[2]>>
    BY <1>6 DEF Places
  <1>11. /\ \A q \in Pools : m_free_list[q] \subseteq m_free_list'[q] /\ m_free_list'[q] \subseteq 1..cur_conn_cnt[q]
         /\ \A d \in Pools \X Nat : d[2] \in m_free_list'[d[1]] => d[2] \in m_free_list[d[1]] \/ d = c
         /\ c[2] \in m_free_list'[c[1]] \/ c \in spoilt'
    <2>1. CASE m_free_list' = m_free_list /\ c \in spoilt'
      BY <2>1 DEF Places
    <2>2. CASE m_free_list' = [m_free_list EXCEPT ![c[1]] = @ \union {c[2]}]
      <3>1. /\ m_free_list'[c[1]] = m_free_list[c[1]] \union {c[2]}
            /\ \A q \in Pools \ {c[1]} : m_free_list'[q] = m_free_list[q]
        BY <1>1, <1>10, <2>2
      <3>2. ASSUME NEW d \in Pools \X Nat, d[2] \in m_free_list'[d[1]], d[2] \notin m_free_list[d[1]] PROVE d = c
        <4>1. d[1] \in Pools /\ d = <<d[1], d[2]>>
          OBVIOUS
        <4>2. d[1] = c[1] /\ d[2] = c[2]
          BY <3>1, <3>2, <4>1
        <4> QED
          BY <1>10, <4>1, <4>2
      <3>3. \A q \in Pools : /\ m_free_list[q] \subseteq m_free_list'[q]
                             /\ m_free_list'[q] \subseteq 1..cur_conn_cnt[q]
        BY <1>10, <3>1 DEF Places
      <3> QED
        BY <3>1, <3>2, <3>3
    <2> QED
      BY <2>1, <2>2
  <1>12. (\A v \in Workers : \A i, j \in DOMAIN held[v] : held[v][i] = held[v][j] => i = j \/ held[v][i] \in spoilt)'
    <2>1. \A i, j \in DOMAIN held'[w] : held'[w][i] = held'[w][j] => i = j \/ held'[w][i] \in spoilt'
      BY <1>4, <1>5, <1>9 DEF Places
    <2> QED
      BY <1>2, <1>9, <2>1 DEF Places
  <1>13. (\A u, v \in Workers : u # v => \A d \in HeldBy(u) : d \in HeldBy(v) => d \in spoilt)'
    BY <1>7, <1>9 DEF Places
  <1>14. (\A v \in Workers : \A d \in HeldBy(v) : /\ d[2] \in 1..cur_conn_cnt[d[1]]
                                                  /\ d[2] \in m_free_list[d[1]] => d \in spoilt)'
    <2> SUFFICES ASSUME NEW v \in Workers, NEW d, d \in HeldBy(v)'
                 PROVE  d[2] \in 1..cur_conn_cnt[d[1]] /\ (d[2] \in m_free_list'[d[1]] => d \in spoilt')
      OBVIOUS
    <2>1. d \in HeldBy(v) /\ d \in Pools \X Nat
      BY <1>3, <1>7
    <2>2. d[2] \in 1..cur_conn_cnt[d[1]] /\ (d[2] \in m_free_list[d[1]] => d \in spoilt)
      BY <2>1 DEF Places
    <2> QED
      BY <1>8, <1>9, <1>11, <2>1, <2>2
  <1>15. (\A q \in Pools : \A m \in 1..cur_conn_cnt[q] :
             m \in m_free_list[q] \/ <<q, m>> \in spoilt \/ \E v \in Workers : <<q, m>> \in HeldBy(v))'
    <2> SUFFICES ASSUME NEW q \in Pools, NEW m \in 1..cur_conn_cnt[q]
                 PROVE  m \in m_free_list'[q] \/ <<q, m>> \in spoilt' \/ \E v \in Workers : <<q, m>> \in HeldBy(v)'
      OBVIOUS
    <2>1. CASE <<q, m>> = c
      <3>1. c[1] = q /\ c[2] = m
        BY <2>1
      <3> QED
        BY <1>11, <2>1, <3>1
    <2>2. CASE <<q, m>> # c
      BY <1>7, <1>9, <1>11, <2>2 DEF Places
    <2> QED
      BY <2>1, <2>2
  <1> QED
    BY <1>9, <1>11, <1>12, <1>13, <1>14, <1>15 DEF Places

LEMMA PlacesUnchanged ==
  ASSUME Places, UNCHANGED poolVars
  PROVE  Places'
  <1>1. UNCHANGED <<held, m_free_list, cur_conn_cnt, spoilt>>
    BY DEF poolVars
  <1>2. \A w : HeldBy(w)' = HeldBy(w)
    BY <1>1 DEF HeldBy
  <1> QED
    BY <1>1, <1>2 DEF Places

\* The steps that leave workers and pools alone.
LEMMA PoolUnchanged ==
  ASSUME PoolInv, TypeOK', UNCHANGED <<task, step, poolVars>>
  PROVE  PoolInv'
  <1>1. UNCHANGED <<task, step, held>>
    BY DEF poolVars
  <1>2. \A w \in Workers : Follows(w)'
    BY <1>1, OthersFollow DEF PoolInv
  <1> QED
    BY <1>2, PlacesUnchanged DEF PoolInv

LEMMA InitPool == Init => PoolInv
  <1> SUFFICES ASSUME Init PROVE PoolInv
    OBVIOUS
  <1>1. TypeOK
    <2>1. 1..MinConn \subseteq Nat /\ MinConn \in Nat
      BY ConnAssumption
    <2>2. /\ held \in [Workers -> Seq(Pools \X Nat)] /\ m_free_list \in [Pools -> SUBSET Nat]
          /\ cur_conn_cnt \in [Pools -> Nat]
      BY <2>1 DEF Init
    <2>3. s_uuid_alloctor \in 0..MaxUuid /\ requests \in 0..MaxRequests
      BY BoundsAssumption DEF Init
    <2>5. exited \in BOOLEAN
      BY DEF Init
    <2>4. spoilt \subseteq Pools \X Nat /\ silent \subseteq Requests /\ g_uuid_conn_map \subseteq Uuids
      BY DEF Init
    <2> QED
      BY <2>2, <2>3, <2>4, <2>5 DEF Init, TypeOK
  <1>2. \A w \in Workers : Follows(w)
    BY DEF Init, Follows
  <1>3. \A w \in Workers : held[w] = <<>> /\ HeldBy(w) = {}
    BY DEF Init, HeldBy
  <1>4. Places
    BY <1>3, ConnAssumption DEF Init, Places
  <1> QED
    BY <1>1, <1>2, <1>4 DEF PoolInv

LEMMA ReactorPool ==
  ASSUME PoolInv
  PROVE  /\ OnConnect => PoolInv'
         /\ \A u \in Uuids : Close(u) => PoolInv'
         /\ \A u \in Uuids, k \in Kinds, w \in Workers : HandlePduBuf(u, k, w) => PoolInv'
         /\ SendResponsePduList => PoolInv'
         /\ Exit => PoolInv'
  <1> USE DEF PoolInv
  <1>1. ASSUME OnConnect PROVE PoolInv'
    <2>1. NextUuid \in Uuids /\ NextUuid \in 0..MaxUuid
      BY <1>1, BoundsAssumption DEF OnConnect, NextUuid, TypeOK, Uuids
    <2>2. TypeOK'
      BY <1>1, <2>1 DEF OnConnect, TypeOK, workVars, poolVars
    <2> QED
      BY <1>1, <2>2, PoolUnchanged DEF OnConnect, workVars
  <1>2. ASSUME NEW u \in Uuids, Close(u) PROVE PoolInv'
    <2>1. TypeOK'
      BY <1>2 DEF Close, TypeOK, workVars, poolVars
    <2> QED
      BY <1>2, <2>1, PoolUnchanged DEF Close, workVars
  <1>3. ASSUME NEW u \in Uuids, NEW k \in Kinds, NEW w \in Workers, HandlePduBuf(u, k, w) PROVE PoolInv'
    <2> DEFINE t == [uuid |-> u, req |-> requests', kind |-> k]
    <2>1. requests' \in Requests /\ requests' \in 0..MaxRequests
      BY <1>3, BoundsAssumption DEF HandlePduBuf, TypeOK, Requests
    <2>2. t \in Task
      BY <2>1 DEF Task
    <2>3. m_task_list' = [m_task_list EXCEPT ![w] = Append(@, t)]
      BY <1>3 DEF HandlePduBuf
    <2> HIDE DEF t
    <2>4. m_task_list' \in [Workers -> Seq(Task)]
      BY <2>2, <2>3 DEF TypeOK
    <2>5. asked' \in [Uuids -> SUBSET Requests]
      BY <1>3, <2>1 DEF HandlePduBuf, TypeOK
    <2>6. TypeOK'
      BY <1>3, <2>1, <2>4, <2>5 DEF HandlePduBuf, TypeOK, poolVars
    <2> QED
      BY <1>3, <2>6, PoolUnchanged DEF HandlePduBuf
  <1>4. ASSUME SendResponsePduList PROVE PoolInv'
    <2> DEFINE answers(u) ==
          {s_response_pdu_list[i].req : i \in {j \in DOMAIN s_response_pdu_list : s_response_pdu_list[j].uuid = u}}
    <2>1. /\ s_response_pdu_list' = <<>>
          /\ got' = [u \in Uuids |-> IF u \in g_uuid_conn_map THEN got[u] \union answers(u) ELSE got[u]]
      BY <1>4 DEF SendResponsePduList
    <2>2. \A i \in DOMAIN s_response_pdu_list : s_response_pdu_list[i] \in [uuid : Uuids, req : Requests]
      <3> DEFINE Answer == [uuid : Uuids, req : Requests]
      <3>1. s_response_pdu_list \in Seq(Answer)
        BY DEF TypeOK
      <3> HIDE DEF Answer
      <3>2. \A i \in DOMAIN s_response_pdu_list : s_response_pdu_list[i] \in Answer
        BY <3>1
      <3> QED
        BY <3>2 DEF Answer
    <2>3. \A u \in Uuids : answers(u) \subseteq Requests
      BY <2>2
    <2> HIDE DEF answers
    <2>4. got' \in [Uuids -> SUBSET Requests]
      BY <2>1, <2>3 DEF TypeOK
    <2>5. TypeOK'
      BY <1>4, <2>1, <2>4 DEF SendResponsePduList, TypeOK, workVars, poolVars
    <2> QED
      BY <1>4, <2>5, PoolUnchanged DEF SendResponsePduList, workVars
  <1>5. ASSUME Exit PROVE PoolInv'
    <2>1. TypeOK'
      BY <1>5 DEF Exit, TypeOK, connVars, workVars, poolVars
    <2> QED
      BY <1>5, <2>1, PoolUnchanged DEF Exit, workVars
  <1> QED
    BY <1>1, <1>2, <1>3, <1>4, <1>5

LEMMA TakePool ==
  ASSUME PoolInv, NEW w \in Workers, TakeTask(w)
  PROVE  PoolInv'
  <1> USE DEF PoolInv
  <1>1. /\ task[w] = NoTask /\ m_task_list[w] # <<>> /\ m_task_list[w] \in Seq(Task)
        /\ task' = [task EXCEPT ![w] = Head(m_task_list[w])]
        /\ m_task_list' = [m_task_list EXCEPT ![w] = Tail(m_task_list[w])]
        /\ UNCHANGED <<connVars, step, poolVars, s_response_pdu_list, exited, silent>>
    BY DEF TakeTask, TypeOK
  <1>2. Head(m_task_list[w]) \in Task /\ Tail(m_task_list[w]) \in Seq(Task)
    BY <1>1
  <1>3. TypeOK'
    BY <1>1, <1>2 DEF TypeOK, connVars, poolVars
  <1>4. held' = held /\ held[w] = <<>> /\ step'[w] = 1
    BY <1>1 DEF Follows, poolVars
  <1>5. Follows(w)'
    <2> DEFINE k == task'[w].kind
    <2>1. task'[w] \in Task /\ task'[w] # NoTask /\ step'[w] = 1
      BY <1>1, <1>2, <1>4, KindsAssumption DEF TypeOK
    <2>2. k \in Kinds
      BY <2>1 DEF Task
    <2> HIDE DEF k
    <2>3. Len(Handler[k]) \in Nat /\ Borrowed[k][1] = None
      BY <2>2, HandlerFlows
    <2>4. step'[w] \in 1..Len(Handler[k]) + 1 /\ Fits(held'[w], Borrowed[k][step'[w]])
      BY <1>4, <2>1, <2>3 DEF Fits, None
    <2> QED
      BY <2>1, <2>4 DEF Follows, k
  <1>6. \A v \in Workers \ {w} : Follows(v)'
    <2>1. \A v \in Workers \ {w} : task'[v] = task[v] /\ step'[v] = step[v] /\ held'[v] = held[v]
      BY <1>1, <1>4 DEF TypeOK
    <2> QED
      BY <2>1, OthersFollow
  <1> QED
    BY <1>1, <1>3, <1>5, <1>6, PlacesUnchanged

\* What a step of worker w to step j of its handler leaves alone.
LEMMA GoToElse ==
  ASSUME PoolInv, NEW w \in Workers, NEW j \in Nat, GoTo(w, j),
         held' \in [Workers -> Seq(Pools \X Nat)], m_free_list' \in [Pools -> SUBSET Nat],
         cur_conn_cnt' \in [Pools -> Nat], spoilt' \subseteq Pools \X Nat,
         \A v \in Workers \ {w} : held'[v] = held[v]
  PROVE  /\ TypeOK' /\ task'[w] = task[w] /\ step'[w] = j
         /\ \A v \in Workers \ {w} : Follows(v)'
  <1>1. /\ step' = [step EXCEPT ![w] = j]
        /\ UNCHANGED <<g_uuid_conn_map, s_uuid_alloctor, asked, got, requests, m_task_list, task,
                       s_response_pdu_list, exited, silent>>
    BY DEF GoTo, connVars
  <1>2. TypeOK' /\ step'[w] = j
    BY <1>1 DEF PoolInv, TypeOK
  <1>3. \A v \in Workers \ {w} : task'[v] = task[v] /\ step'[v] = step[v] /\ held'[v] = held[v]
    BY <1>1 DEF PoolInv, TypeOK
  <1> QED
    BY <1>1, <1>2, <1>3, OthersFollow DEF PoolInv

LEMMA GetPool ==
  ASSUME PoolInv, NEW w \in Workers, GetConn(w)
  PROVE  PoolInv'
  <1> DEFINE p == This(w).pool
             k == task[w].kind
  <1>1. TypeOK /\ Follows(w) /\ Places /\ At(w, "get") /\ GoTo(w, step[w] + 1)
    BY DEF PoolInv, GetConn
  <1>2. /\ task[w] \in Task /\ task[w] # NoTask /\ p \in Pools
        /\ step[w] \in Nat /\ step[w] + 1 \in 1..Len(Handler[k]) + 1
        /\ Fits(held[w], Holding(w, step[w]))
        /\ Pushed(Holding(w, step[w]), Holding(w, step[w] + 1), p)
    BY <1>1, AtStep
  <1>3. PICK n \in Nat :
           /\ held' = [held EXCEPT ![w] = Append(held[w], <<p, n>>)]
           /\ \/ /\ n \in m_free_list[p] /\ m_free_list' = [m_free_list EXCEPT ![p] = @ \ {n}]
                 /\ UNCHANGED cur_conn_cnt
              \/ /\ n = cur_conn_cnt[p] + 1 /\ cur_conn_cnt[p] < MaxConn[p]
                 /\ cur_conn_cnt' = [cur_conn_cnt EXCEPT ![p] = n] /\ UNCHANGED m_free_list
    <2>1. /\ m_free_list[p] \subseteq Nat /\ cur_conn_cnt[p] + 1 \in Nat
      BY <1>1, <1>2 DEF TypeOK
    <2> QED
      BY <2>1 DEF GetConn, MayMake
  <1> HIDE DEF p, k
  <1>4. /\ held \in [Workers -> Seq(Pools \X Nat)] /\ cur_conn_cnt \in [Pools -> Nat]
        /\ m_free_list \in [Pools -> SUBSET Nat] /\ held[w] \in Seq(Pools \X Nat)
    BY <1>1 DEF TypeOK
  <1>5. Append(held[w], <<p, n>>) \in Seq(Pools \X Nat) /\ Fits(Append(held[w], <<p, n>>), Holding(w, step[w] + 1))
    <2> DEFINE c == <<p, n>>
    <2>1. c \in Pools \X Nat /\ c[1] = p
      BY <1>2
    <2> HIDE DEF c
    <2>2. Append(held[w], c) \in Seq(Pools \X Nat) /\ Fits(Append(held[w], c), Holding(w, step[w] + 1))
      BY <1>2, <1>4, <2>1, AppendFits
    <2> QED
      BY <2>2 DEF c
  <1>6. /\ held' \in [Workers -> Seq(Pools \X Nat)] /\ \A v \in Workers \ {w} : held'[v] = held[v]
        /\ held'[w] = Append(held[w], <<p, n>>)
    BY <1>3, <1>4, <1>5
  <1>7. /\ m_free_list' \in [Pools -> SUBSET Nat] /\ cur_conn_cnt' \in [Pools -> Nat]
        /\ UNCHANGED spoilt /\ spoilt' \subseteq Pools \X Nat
    BY <1>1, <1>3, <1>4 DEF GetConn, TypeOK
  <1>8. /\ TypeOK' /\ task'[w] = task[w] /\ step'[w] = step[w] + 1
        /\ \A v \in Workers \ {w} : Follows(v)'
    <2>1. step[w] + 1 \in Nat
      BY <1>2
    <2> QED
      BY <1>1, <1>6, <1>7, <2>1, GoToElse
  <1>9. Follows(w)'
    BY <1>2, <1>5, <1>6, <1>8, GoesOn DEF k
  <1>10. Places'
    <2>1. /\ \A q \in Pools \ {p} : m_free_list'[q] = m_free_list[q] /\ cur_conn_cnt'[q] = cur_conn_cnt[q]
          /\ \/ /\ n \in m_free_list[p] /\ m_free_list'[p] = m_free_list[p] \ {n}
                /\ cur_conn_cnt'[p] = cur_conn_cnt[p]
             \/ /\ m_free_list'[p] = m_free_list[p] /\ n = cur_conn_cnt[p] + 1
                /\ cur_conn_cnt'[p] = n /\ n <= MaxConn[p]
      <3>1. MaxConn[p] \in Nat
        BY <1>2, ConnAssumption
      <3> QED
        BY <1>2, <1>3, <1>4, <3>1
    <2> QED
      BY <1>1, <1>2, <1>3, <1>7, <1>8, <2>1, BorrowPlaces
  <1> QED
    BY <1>8, <1>9, <1>10 DEF PoolInv

\* A connection is given back.
LEMMA ReturnPool ==
  ASSUME PoolInv, NEW w \in Workers, RelConn(w)
  PROVE  PoolInv'
  <1> DEFINE k == task[w].kind
             c == LastHeld(w)
             j == step[w] + 1
  <1>1. /\ TypeOK /\ Follows(w) /\ Places /\ At(w, "rel") /\ GoTo(w, j)
        /\ held' = [held EXCEPT ![w] = Front(held[w])]
        /\ m_free_list' = [m_free_list EXCEPT ![c[1]] = @ \union {c[2]}]
        /\ UNCHANGED spoilt
        /\ UNCHANGED cur_conn_cnt
    BY DEF PoolInv, RelConn, Front
  <1>2. /\ task[w] # NoTask /\ j \in Nat /\ j \in 1..Len(Handler[k]) + 1
        /\ Fits(held[w], Holding(w, step[w])) /\ Popped(Holding(w, step[w]), Holding(w, j))
    BY <1>1, AtStep, HandlerFlows DEF Task, Popped
  <1>3. /\ held \in [Workers -> Seq(Pools \X Nat)] /\ cur_conn_cnt \in [Pools -> Nat]
        /\ m_free_list \in [Pools -> SUBSET Nat] /\ held[w] \in Seq(Pools \X Nat)
        /\ spoilt \subseteq Pools \X Nat
    BY <1>1 DEF TypeOK
  <1> HIDE DEF k, j
  <1>4. held[w] # <<>>
    BY <1>2, <1>3 DEF Fits, LastHeld, Popped
  <1>5. c[1] \in Pools /\ c[2] \in Nat /\ c \in Pools \X Nat
    <2>1. Len(held[w]) \in DOMAIN held[w]
      BY <1>3, <1>4
    <2>2. held[w][Len(held[w])] \in Pools \X Nat
      BY <1>3, <2>1
    <2> QED
      BY <2>2 DEF LastHeld
  <1> HIDE DEF c
  <1>6. Front(held[w]) \in Seq(Pools \X Nat) /\ Fits(Front(held[w]), Holding(w, j))
    <2> DEFINE C == Pools \X Nat
    <2>1. held[w] \in Seq(C)
      BY <1>3
    <2> HIDE DEF C
    <2>2. Front(held[w]) \in Seq(C) /\ Fits(Front(held[w]), Holding(w, j))
      BY <1>2, <2>1, FrontFits
    <2> QED
      BY <2>2 DEF C
  <1>7. /\ held' \in [Workers -> Seq(Pools \X Nat)] /\ \A v \in Workers \ {w} : held'[v] = held[v]
        /\ held'[w] = Front(held[w])
    BY <1>1, <1>3, <1>6
  <1>8. /\ m_free_list' \in [Pools -> SUBSET Nat] /\ cur_conn_cnt' \in [Pools -> Nat]
        /\ spoilt' \subseteq Pools \X Nat
    BY <1>1, <1>3, <1>5
  <1>9. /\ TypeOK' /\ task'[w] = task[w] /\ step'[w] = j
        /\ \A v \in Workers \ {w} : Follows(v)'
    BY <1>1, <1>2, <1>7, <1>8, GoToElse
  <1>10. Follows(w)'
    BY <1>2, <1>6, <1>7, <1>9, GoesOn DEF k
  <1>11. Places'
    BY <1>1, <1>3, <1>4, <1>9, LeavePlaces DEF c
  <1> QED
    BY <1>9, <1>10, <1>11 DEF PoolInv

\* A connection is given back, and still used.
LEMMA FreePool ==
  ASSUME PoolInv, NEW w \in Workers, FreeConn(w)
  PROVE  PoolInv'
  <1> DEFINE k == task[w].kind
             c == LastHeld(w)
             j == step[w] + 1
  <1>1. /\ TypeOK /\ Follows(w) /\ Places /\ At(w, "free") /\ GoTo(w, j)
        /\ UNCHANGED held
        /\ m_free_list' = [m_free_list EXCEPT ![c[1]] = @ \union {c[2]}]
        /\ spoilt' = spoilt \union {c}
        /\ UNCHANGED cur_conn_cnt
    BY DEF PoolInv, FreeConn, Front
  <1>2. /\ task[w] # NoTask /\ j \in Nat /\ j \in 1..Len(Handler[k]) + 1
        /\ Fits(held[w], Holding(w, step[w])) /\ Holding(w, j) = Holding(w, step[w])
        /\ Holding(w, step[w]).len > 0 /\ Holding(w, step[w]).last \in Spoils
    BY <1>1, AtStep, HandlerFlows DEF Task, Popped
  <1>3. /\ held \in [Workers -> Seq(Pools \X Nat)] /\ cur_conn_cnt \in [Pools -> Nat]
        /\ m_free_list \in [Pools -> SUBSET Nat] /\ held[w] \in Seq(Pools \X Nat)
        /\ spoilt \subseteq Pools \X Nat
    BY <1>1 DEF TypeOK
  <1> HIDE DEF k, j
  <1>4. held[w] # <<>> /\ c[1] \in Spoils
    BY <1>2, <1>3 DEF Fits, LastHeld, Popped
  <1>5. c[1] \in Pools /\ c[2] \in Nat /\ c \in Pools \X Nat
    <2>1. Len(held[w]) \in DOMAIN held[w]
      BY <1>3, <1>4
    <2>2. held[w][Len(held[w])] \in Pools \X Nat
      BY <1>3, <2>1
    <2> QED
      BY <2>2 DEF LastHeld
  <1> HIDE DEF c
  <1>6. Fits(held[w], Holding(w, j))
    BY <1>2
  <1>7. /\ held' \in [Workers -> Seq(Pools \X Nat)] /\ \A v \in Workers \ {w} : held'[v] = held[v]
        /\ held'[w] = held[w]
    BY <1>1, <1>3
  <1>8. /\ m_free_list' \in [Pools -> SUBSET Nat] /\ cur_conn_cnt' \in [Pools -> Nat]
        /\ spoilt' \subseteq Pools \X Nat
    BY <1>1, <1>3, <1>5
  <1>9. /\ TypeOK' /\ task'[w] = task[w] /\ step'[w] = j
        /\ \A v \in Workers \ {w} : Follows(v)'
    BY <1>1, <1>2, <1>7, <1>8, GoToElse
  <1>10. Follows(w)'
    BY <1>2, <1>6, <1>7, <1>9, GoesOn DEF k
  <1>11. Places'
    BY <1>1, <1>3, <1>4, <1>9, LeavePlaces DEF c
  <1> QED
    BY <1>9, <1>10, <1>11 DEF PoolInv

\* A connection is forgotten.
LEMMA DropPool ==
  ASSUME PoolInv, NEW w \in Workers, DropConn(w)
  PROVE  PoolInv'
  <1> DEFINE k == task[w].kind
             c == LastHeld(w)
             j == This(w).else
  <1>1. /\ TypeOK /\ Follows(w) /\ Places /\ At(w, "drop") /\ GoTo(w, j)
        /\ held' = [held EXCEPT ![w] = Front(held[w])]
        /\ UNCHANGED m_free_list
        /\ spoilt' = spoilt \union {c}
        /\ UNCHANGED cur_conn_cnt
    BY DEF PoolInv, DropConn, Front
  <1>2. /\ task[w] # NoTask /\ j \in Nat /\ j \in 1..Len(Handler[k]) + 1
        /\ Fits(held[w], Holding(w, step[w])) /\ Popped(Holding(w, step[w]), Holding(w, j))
        /\ Holding(w, step[w]).last \in Spoils
    BY <1>1, AtStep, HandlerFlows DEF Task, Popped
  <1>3. /\ held \in [Workers -> Seq(Pools \X Nat)] /\ cur_conn_cnt \in [Pools -> Nat]
        /\ m_free_list \in [Pools -> SUBSET Nat] /\ held[w] \in Seq(Pools \X Nat)
        /\ spoilt \subseteq Pools \X Nat
    BY <1>1 DEF TypeOK
  <1> HIDE DEF k, j
  <1>4. held[w] # <<>> /\ c[1] \in Spoils
    BY <1>2, <1>3 DEF Fits, LastHeld, Popped
  <1>5. c[1] \in Pools /\ c[2] \in Nat /\ c \in Pools \X Nat
    <2>1. Len(held[w]) \in DOMAIN held[w]
      BY <1>3, <1>4
    <2>2. held[w][Len(held[w])] \in Pools \X Nat
      BY <1>3, <2>1
    <2> QED
      BY <2>2 DEF LastHeld
  <1> HIDE DEF c
  <1>6. Front(held[w]) \in Seq(Pools \X Nat) /\ Fits(Front(held[w]), Holding(w, j))
    <2> DEFINE C == Pools \X Nat
    <2>1. held[w] \in Seq(C)
      BY <1>3
    <2> HIDE DEF C
    <2>2. Front(held[w]) \in Seq(C) /\ Fits(Front(held[w]), Holding(w, j))
      BY <1>2, <2>1, FrontFits
    <2> QED
      BY <2>2 DEF C
  <1>7. /\ held' \in [Workers -> Seq(Pools \X Nat)] /\ \A v \in Workers \ {w} : held'[v] = held[v]
        /\ held'[w] = Front(held[w])
    BY <1>1, <1>3, <1>6
  <1>8. /\ m_free_list' \in [Pools -> SUBSET Nat] /\ cur_conn_cnt' \in [Pools -> Nat]
        /\ spoilt' \subseteq Pools \X Nat
    BY <1>1, <1>3, <1>5
  <1>9. /\ TypeOK' /\ task'[w] = task[w] /\ step'[w] = j
        /\ \A v \in Workers \ {w} : Follows(v)'
    BY <1>1, <1>2, <1>7, <1>8, GoToElse
  <1>10. Follows(w)'
    BY <1>2, <1>6, <1>7, <1>9, GoesOn DEF k
  <1>11. Places'
    BY <1>1, <1>3, <1>4, <1>9, LeavePlaces DEF c
  <1> QED
    BY <1>9, <1>10, <1>11 DEF PoolInv

\* A worker goes on without borrowing or giving back: a new connection fails, or a statement ran.
LEMMA ElsePool ==
  ASSUME PoolInv, NEW w \in Workers, GetNull(w) \/ Execute(w)
  PROVE  PoolInv'
  <1> DEFINE k == task[w].kind
  <1>1. TypeOK /\ Follows(w) /\ Places /\ UNCHANGED poolVars
    BY DEF PoolInv, GetNull, Execute
  <1>2. UNCHANGED <<held, m_free_list, cur_conn_cnt, spoilt>>
    BY <1>1 DEF poolVars
  <1>3. PICK j : /\ GoTo(w, j) /\ j \in 1..Len(Handler[k]) + 1 /\ Holding(w, j) = Holding(w, step[w])
                 /\ task[w] # NoTask /\ Fits(held[w], Holding(w, step[w])) /\ j \in Nat
    <2>1. CASE GetNull(w)
      <3>1. At(w, "get") /\ GoTo(w, This(w).else)
        BY <2>1 DEF GetNull
      <3>2. /\ This(w).else \in 1..Len(Handler[k]) + 1 /\ Holding(w, This(w).else) = Holding(w, step[w])
            /\ task[w] # NoTask /\ Fits(held[w], Holding(w, step[w]))
        BY <1>1, <3>1, AtStep DEF At
      <3> QED
        BY <3>1, <3>2
    <2>2. CASE Execute(w)
      <3>1. At(w, "try") /\ (GoTo(w, step[w] + 1) \/ GoTo(w, This(w).else))
        BY <2>2 DEF Execute
      <3>2. /\ This(w).else \in 1..Len(Handler[k]) + 1 /\ Holding(w, This(w).else) = Holding(w, step[w])
            /\ step[w] + 1 \in 1..Len(Handler[k]) + 1 /\ Holding(w, step[w] + 1) = Holding(w, step[w])
            /\ task[w] # NoTask /\ Fits(held[w], Holding(w, step[w]))
        BY <1>1, <3>1, AtStep DEF At
      <3> QED
        BY <3>1, <3>2
    <2> QED
      BY <2>1, <2>2
  <1>4. /\ TypeOK' /\ task'[w] = task[w] /\ step'[w] = j
        /\ \A v \in Workers \ {w} : Follows(v)'
    <2>1. /\ held' \in [Workers -> Seq(Pools \X Nat)] /\ m_free_list' \in [Pools -> SUBSET Nat]
          /\ cur_conn_cnt' \in [Pools -> Nat] /\ spoilt' \subseteq Pools \X Nat
      BY <1>1, <1>2 DEF TypeOK
    <2> QED
      BY <1>2, <1>3, <2>1, GoToElse
  <1>5. Follows(w)'
    BY <1>2, <1>3, <1>4, GoesOn
  <1> QED
    BY <1>1, <1>4, <1>5, PlacesUnchanged DEF PoolInv

\* A handler has ended: its worker holds nothing.
LEMMA EndHolds ==
  ASSUME PoolInv, NEW w \in Workers, AtEnd(w)
  PROVE  held[w] = <<>>
  <1> DEFINE k == task[w].kind
  <1>1. /\ TypeOK /\ Follows(w) /\ task[w] # NoTask /\ step[w] \notin DOMAIN Handler[k]
    BY DEF PoolInv, AtEnd
  <1>2. k \in Kinds
    BY <1>1 DEF TypeOK, Task
  <1>3. step[w] \in 1..Len(Handler[k]) + 1 /\ Fits(held[w], Borrowed[k][step[w]])
    BY <1>1 DEF Follows
  <1> HIDE DEF k
  <1>4. /\ Len(Handler[k]) \in Nat /\ DOMAIN Handler[k] = 1..Len(Handler[k])
        /\ Borrowed[k][Len(Handler[k]) + 1] = None
    BY <1>2, HandlerFlows
  <1>5. step[w] = Len(Handler[k]) + 1
    BY <1>1, <1>3, <1>4 DEF k
  <1>6. Len(held[w]) = 0 /\ held[w] \in Seq(Pools \X Nat)
    BY <1>1, <1>3, <1>4, <1>5 DEF Fits, None, TypeOK
  <1> QED
    BY <1>6

\* The worker waits for its next task.
LEMMA EndKeeps ==
  ASSUME PoolInv, NEW w \in Workers, AtEnd(w), TypeOK', UNCHANGED poolVars,
         task' = [task EXCEPT ![w] = NoTask], step' = [step EXCEPT ![w] = 1]
  PROVE  PoolInv'
  <1>1. held' = held /\ held[w] = <<>>
    BY EndHolds DEF poolVars
  <1>2. /\ task'[w] = NoTask /\ step'[w] = 1
        /\ \A v \in Workers \ {w} : task'[v] = task[v] /\ step'[v] = step[v]
    BY DEF PoolInv, TypeOK
  <1>3. Follows(w)'
    BY <1>1, <1>2 DEF Follows
  <1>4. \A v \in Workers \ {w} : Follows(v)'
    BY <1>1, <1>2, OthersFollow DEF PoolInv
  <1> QED
    BY <1>3, <1>4, PlacesUnchanged DEF PoolInv

LEMMA AnswerPool ==
  ASSUME PoolInv, NEW w \in Workers, AddResponsePdu(w)
  PROVE  PoolInv'
  <1> DEFINE a == [uuid |-> task[w].uuid, req |-> task[w].req]
  <1>1. /\ TypeOK /\ AtEnd(w) /\ task[w] # NoTask
        /\ s_response_pdu_list' = Append(s_response_pdu_list, a)
        /\ task' = [task EXCEPT ![w] = NoTask] /\ step' = [step EXCEPT ![w] = 1]
        /\ UNCHANGED <<connVars, m_task_list, poolVars, exited, silent>>
    BY DEF PoolInv, AddResponsePdu, AtEnd
  <1>2. a \in [uuid : Uuids, req : Requests]
    BY <1>1 DEF TypeOK, Task
  <1> HIDE DEF a
  <1>3. TypeOK'
    <2>1. s_response_pdu_list' \in Seq([uuid : Uuids, req : Requests])
      BY <1>1, <1>2 DEF TypeOK
    <2> QED
      BY <1>1, <2>1 DEF TypeOK, connVars, poolVars
  <1> QED
    BY <1>1, <1>3, EndKeeps

LEMMA SilentPool ==
  ASSUME PoolInv, NEW w \in Workers, EndSilently(w)
  PROVE  PoolInv'
  <1>1. /\ TypeOK /\ AtEnd(w) /\ task[w] # NoTask /\ silent' = silent \union {task[w].req}
        /\ task' = [task EXCEPT ![w] = NoTask] /\ step' = [step EXCEPT ![w] = 1]
        /\ UNCHANGED <<connVars, m_task_list, poolVars, s_response_pdu_list, exited>>
    BY DEF PoolInv, EndSilently, AtEnd
  <1>2. task[w].req \in Requests
    BY <1>1 DEF TypeOK, Task
  <1>3. TypeOK'
    BY <1>1, <1>2 DEF TypeOK, connVars, poolVars
  <1> QED
    BY <1>1, <1>3, EndKeeps

LEMMA RefusePool ==
  ASSUME PoolInv, NEW w \in Workers, RefuseTask(w)
  PROVE  PoolInv'
  <1>1. /\ TypeOK /\ m_task_list[w] # <<>> /\ m_task_list[w] \in Seq(Task)
        /\ silent' = silent \union {Head(m_task_list[w]).req}
        /\ m_task_list' = [m_task_list EXCEPT ![w] = Tail(m_task_list[w])]
        /\ UNCHANGED <<connVars, task, step, poolVars, s_response_pdu_list, exited>>
    BY DEF PoolInv, RefuseTask, TypeOK
  <1>2. Tail(m_task_list[w]) \in Seq(Task) /\ Head(m_task_list[w]) \in Task
    BY <1>1
  <1>3. Head(m_task_list[w]).req \in Requests
    BY <1>2 DEF Task
  <1>4. TypeOK'
    BY <1>1, <1>2, <1>3 DEF TypeOK, connVars, poolVars
  <1> QED
    BY <1>1, <1>4, PoolUnchanged

LEMMA StepPool == PoolInv /\ [Next]_vars => PoolInv'
  <1> SUFFICES ASSUME PoolInv, [Next]_vars PROVE PoolInv'
    OBVIOUS
  <1>1. CASE OnConnect \/ SendResponsePduList \/ Exit
    BY <1>1, ReactorPool
  <1>2. ASSUME NEW u \in Uuids, Close(u) PROVE PoolInv'
    BY <1>2, ReactorPool
  <1>3. ASSUME NEW u \in Uuids, NEW k \in Kinds, NEW w \in Workers, HandlePduBuf(u, k, w) PROVE PoolInv'
    BY <1>3, ReactorPool
  <1>4. ASSUME NEW w \in Workers, TakeTask(w) PROVE PoolInv'
    BY <1>4, TakePool
  <1>5. ASSUME NEW w \in Workers, GetConn(w) PROVE PoolInv'
    BY <1>5, GetPool
  <1>6. ASSUME NEW w \in Workers, RelConn(w) PROVE PoolInv'
    BY <1>6, ReturnPool
  <1>7. ASSUME NEW w \in Workers, GetNull(w) \/ Execute(w) PROVE PoolInv'
    BY <1>7, ElsePool
  <1>8. ASSUME NEW w \in Workers, AddResponsePdu(w) PROVE PoolInv'
    BY <1>8, AnswerPool
  <1>9. ASSUME NEW w \in Workers, FreeConn(w) \/ DropConn(w) PROVE PoolInv'
    BY <1>9, FreePool, DropPool
  <1>10. ASSUME NEW w \in Workers, RefuseTask(w) \/ EndSilently(w) PROVE PoolInv'
    BY <1>10, RefusePool, SilentPool
  <1>11. CASE UNCHANGED vars
    <2>1. TypeOK'
      BY <1>11 DEF PoolInv, TypeOK, vars, connVars, workVars, poolVars
    <2> QED
      BY <1>11, <2>1, PoolUnchanged DEF vars, workVars
  <1> QED
    BY <1>1, <1>2, <1>3, <1>4, <1>5, <1>6, <1>7, <1>8, <1>9, <1>10, <1>11 DEF Next, WorkerStep

LEMMA PlacesHold == PoolInv => OneHolder
  <1> SUFFICES ASSUME PoolInv PROVE OneHolder
    OBVIOUS
  <1>1. Places /\ TypeOK /\ \A w \in Workers : Follows(w)
    BY DEF PoolInv
  <1>2. \A v, w \in Workers : v # w => HeldBy(v) \intersect HeldBy(w) \subseteq spoilt
    BY <1>1 DEF Places
  <1>3. \A p \in Pools : \A n \in Lost(p) : <<p, n>> \in spoilt
    BY <1>1 DEF Places, Lost, Conns
  <1>4. \A w \in Workers : task[w] = NoTask => held[w] = <<>>
    BY <1>1 DEF Follows
  <1>5. \A w \in Workers : \A c \in HeldBy(w) : c[2] \in m_free_list[c[1]] => c \in spoilt
    BY <1>1 DEF Places
  <1>6. \A c \in spoilt : c[1] \in {"unread", "group_member"}
    BY <1>1 DEF Places, Spoils
  <1>7. \A w \in Workers : \A i, j \in DOMAIN held[w] : held[w][i] = held[w][j] => i = j \/ held[w][i] \in spoilt
    BY <1>1 DEF Places
  <1>8. \A p \in Pools : cur_conn_cnt[p] = MinConn \/ cur_conn_cnt[p] <= MaxConn[p]
    BY <1>1 DEF Places
  <1> QED
    BY <1>2, <1>3, <1>4, <1>5, <1>6, <1>7, <1>8 DEF OneHolder

\* A worker that waits while it holds connections waits for a pool of higher rank than theirs,
\* unless a group message asks the master pool for its second.
LEMMA WaitsInOrder ==
  ASSUME PoolInv, NEW w \in Workers, Waits(w), NEW c \in HeldBy(w)
  PROVE  /\ c[1] \in Pools /\ This(w).pool \in Pools
         /\ \/ Rank[c[1]] < Rank[This(w).pool]
            \/ c[1] = "master" /\ w \in GroupChatWaits /\ held[w][1] = c
  <1> DEFINE k == task[w].kind
             j == step[w]
  <1>1. TypeOK /\ Follows(w) /\ At(w, "get")
    BY DEF PoolInv, Waits
  <1>2. /\ Fits(held[w], Holding(w, j)) /\ This(w).op = "get" /\ This(w).pool \in Pools
        /\ Holding(w, j).len \in 0..1 /\ InOrder(k, Handler[k], Borrowed[k], j)
    BY <1>1, AtStep DEF Pushed
  <1>3. held[w] \in Seq(Pools \X Nat)
    BY <1>1 DEF TypeOK
  <1>4. PICK i \in DOMAIN held[w] : c = held[w][i]
    BY DEF HeldBy
  <1>5. /\ c[1] \in Pools /\ Len(held[w]) = 1 /\ held[w] # <<>>
        /\ c = held[w][1] /\ c[1] = Holding(w, j).first /\ Holding(w, j).len = 1
    <2>1. held[w][i] \in Pools \X Nat
      BY <1>3, <1>4
    <2>2. Len(held[w]) = Holding(w, j).len /\ i \in 1..Len(held[w])
      BY <1>2, <1>3, <1>4 DEF Fits
    <2>3. Len(held[w]) = 1 /\ i = 1
      BY <1>2, <2>2
    <2> QED
      BY <1>2, <1>4, <2>1, <2>2, <2>3 DEF Fits
  <1>6. CASE Rank[Holding(w, j).first] < Rank[This(w).pool]
    BY <1>2, <1>5, <1>6
  <1>7. CASE k = "group" /\ This(w).pool = "master" /\ Holding(w, j) = One("master")
    <2>1. c[1] = "master"
      BY <1>5, <1>7 DEF One
    <2>2. w \in GroupChatWaits
      BY <1>5, <1>7 DEF GroupChatWaits
    <2> QED
      BY <1>2, <1>5, <2>1, <2>2
  <1>8. \/ Rank[Holding(w, j).first] < Rank[This(w).pool]
        \/ k = "group" /\ This(w).pool = "master" /\ Holding(w, j) = One("master")
    <2>1. This(w) = Handler[k][j] /\ Holding(w, j) = Borrowed[k][j]
      BY DEF This, Holding
    <2> HIDE DEF k, j
    <2> QED
      BY <1>2, <1>5, <2>1 DEF InOrder
  <1> QED
    BY <1>6, <1>7, <1>8

\* A worker waits for a pool whose connections are all held or lost; there is at least one.
LEMMA WaitedAreHeld ==
  ASSUME PoolInv, NEW w \in Workers, Waits(w)
  PROVE  /\ This(w).pool \in Pools
         /\ \A n \in 1..cur_conn_cnt[This(w).pool] :
               n \in Lost(This(w).pool) \/ \E v \in Workers : <<This(w).pool, n>> \in HeldBy(v)
         /\ Drained(This(w).pool) \/ \E v \in Workers, n \in Nat : <<This(w).pool, n>> \in HeldBy(v)
  <1>1. TypeOK /\ Follows(w) /\ At(w, "get") /\ m_free_list[This(w).pool] = {} /\ ~MayMake(This(w).pool)
    BY DEF PoolInv, Waits
  <1>2. This(w).pool \in Pools
    BY <1>1, AtStep
  <1>3. cur_conn_cnt[This(w).pool] \in Nat
    BY <1>1, <1>2 DEF TypeOK
  <1>4. \A n \in 1..cur_conn_cnt[This(w).pool] :
           n \in Lost(This(w).pool) \/ \E v \in Workers : <<This(w).pool, n>> \in HeldBy(v)
    BY <1>1 DEF Lost, Conns
  <1>5. CASE Lost(This(w).pool) = Conns(This(w).pool)
    BY <1>1, <1>2, <1>4, <1>5 DEF Drained
  <1>6. CASE Lost(This(w).pool) # Conns(This(w).pool)
    <2>1. PICK n \in 1..cur_conn_cnt[This(w).pool] : n \notin Lost(This(w).pool)
      BY <1>6 DEF Lost, Conns
    <2>2. n \in Nat
      BY <1>3, <2>1
    <2> QED
      BY <1>2, <1>4, <2>1, <2>2
  <1> QED
    BY <1>2, <1>4, <1>5, <1>6

\* Where everyone who holds a connection waits, and no pool that is waited for is drained, nobody
\* waits for a pool of high rank: a connection of it would be held by a worker that waits for a
\* pool of higher rank.
LEMMA OnlyMasterAwaited ==
  ASSUME PoolInv, \A w \in Workers : held[w] # <<>> => Waits(w),
         \A w \in Workers : Waits(w) => ~Drained(This(w).pool),
         NEW w \in Workers, Waits(w)
  PROVE  This(w).pool = "master"
  <1>1. ASSUME NEW v \in Workers, Waits(v), This(v).pool # "master"
        PROVE  \E x \in Workers : /\ Waits(x) /\ This(x).pool \in Pools
                                  /\ Rank[This(v).pool] < Rank[This(x).pool]
    <2>1. PICK x \in Workers, n \in Nat : <<This(v).pool, n>> \in HeldBy(x)
      BY <1>1, WaitedAreHeld
    <2>2. held[x] # <<>>
      BY <2>1 DEF HeldBy
    <2>3. Waits(x)
      BY <2>2
    <2> QED
      BY <1>1, <2>1, <2>3, WaitsInOrder
  <1>2. ASSUME NEW p \in Pools PROVE Rank[p] \in 1..4 /\ (Rank[p] > 1 <=> p # "master")
    BY DEF Rank, Pools
  <1>3. ASSUME NEW v \in Workers, Waits(v) PROVE This(v).pool \in Pools
    BY <1>3, WaitedAreHeld
  <1>4. ASSUME NEW v \in Workers, Waits(v) PROVE Rank[This(v).pool] # 4
    BY <1>1, <1>2, <1>3, <1>4
  <1>5. ASSUME NEW v \in Workers, Waits(v) PROVE Rank[This(v).pool] # 3
    BY <1>1, <1>2, <1>3, <1>4, <1>5
  <1>6. ASSUME NEW v \in Workers, Waits(v) PROVE Rank[This(v).pool] # 2
    BY <1>1, <1>2, <1>3, <1>4, <1>5, <1>6
  <1> QED
    BY <1>2, <1>3, <1>4, <1>5, <1>6

LEMMA TwoWays == PoolInv => HangsInTwoWays
  <1> SUFFICES ASSUME PoolInv, NEW w \in Workers, Waits(w), \A v \in Workers : held[v] # <<>> => Waits(v),
                      \A v \in Workers : Waits(v) => ~Drained(This(v).pool)
               PROVE  Exhausted
    BY DEF HangsInTwoWays, Hung
  <1> DEFINE N == cur_conn_cnt["master"]
             G == GroupChatWaits
             f == [v \in G |-> held[v][1][2]]
  <1>1. ASSUME NEW n \in 1..N PROVE \E v \in G : held[v][1] = <<"master", n>>
    <2>1. PICK v \in Workers : <<"master", n>> \in HeldBy(v)
      <3>1. This(w).pool = "master"
        BY OnlyMasterAwaited
      <3>2. n \notin Lost("master")
        BY DEF PoolInv, Places, Lost, Conns, Spoils, Pools
      <3> QED
        BY <3>1, <3>2, WaitedAreHeld
    <2>2. Waits(v)
      <3>1. held[v] # <<>>
        BY <2>1 DEF HeldBy
      <3> QED
        BY <3>1
    <2>3. This(v).pool = "master"
      BY <2>2, OnlyMasterAwaited
    <2>4. ~(Rank["master"] < Rank[This(v).pool])
      BY <2>3 DEF Rank
    <2> DEFINE c == <<"master", n>>
    <2>5. c \in HeldBy(v) /\ c[1] = "master"
      BY <2>1
    <2> HIDE DEF c
    <2>6. v \in GroupChatWaits /\ held[v][1] = c
      BY <2>2, <2>4, <2>5, WaitsInOrder
    <2> QED
      BY <2>6 DEF c
  <1>2. ASSUME NEW v \in G PROVE held[v][1][1] = "master" /\ held[v][1][2] \in 1..N
    <2>1. v \in Workers /\ Waits(v) /\ This(v).pool = "master" /\ held[v] # <<>>
      BY DEF GroupChatWaits
    <2>2. held[v][1] \in HeldBy(v)
      <3>1. held[v] \in Seq(Pools \X Nat)
        BY <2>1 DEF PoolInv, TypeOK
      <3> QED
        BY <2>1, <3>1 DEF HeldBy
    <2>3. held[v][1][2] \in 1..cur_conn_cnt[held[v][1][1]]
      BY <2>1, <2>2 DEF PoolInv, Places
    <2>4. held[v][1][1] = "master"
      <3>1. /\ held[v][1][1] \in Pools
            /\ Rank[held[v][1][1]] < Rank["master"] \/ held[v][1][1] = "master"
        BY <2>1, <2>2, WaitsInOrder
      <3> QED
        BY <3>1 DEF Rank, Pools
    <2> QED
      BY <2>3, <2>4
  <1>3. G \subseteq Workers /\ IsFiniteSet(G)
    BY WorkersAssumption, FS_Subset DEF GroupChatWaits
  <1>4. f \in Surjection(G, 1..N)
    <2> HIDE DEF G, N
    <2>1. f \in [G -> 1..N]
      BY <1>2
    <2>2. \A n \in 1..N : \E v \in G : f[v] = n
      BY <1>1
    <2> QED
      BY <2>1, <2>2 DEF Surjection
  <1>5. N \in Nat
    BY DEF PoolInv, TypeOK, Pools
  <1> HIDE DEF f, G, N
  <1>6. IsFiniteSet(1..N) /\ Cardinality(1..N) = N
    BY <1>5, FS_Interval
  <1>7. Cardinality(1..N) <= Cardinality(G)
    BY <1>3, <1>4, FS_Surjection
  <1>8. Cardinality(G) \in Nat
    BY <1>3, FS_CardinalityType
  <1>9. Cardinality(G) >= N
    BY <1>5, <1>6, <1>7, <1>8
  <1> QED
    BY <1>9 DEF Exhausted, G, N

LEMMA PoolAlways == Spec => []PoolInv
  BY InitPool, StepPool, PTL DEF Spec

\* Types of the variables, for any number of workers, pools' limits and requests.
THEOREM DbProxyTypeOK == Spec => []TypeOK
  <1>1. PoolInv => TypeOK
    BY DEF PoolInv
  <1> QED
    BY PoolAlways, <1>1, PTL

\* Each connection of a pool is in one place, and a worker that has answered holds none, on every
\* path that failing connections and statements leave through the handlers (GetDBConn, RelDBConn,
\* GetCacheConn, RelCacheConn), but for the redis connections that clearMessageCount and
\* removeRepeatUser spoil.
THEOREM DbProxyOneHolder == Spec => []OneHolder
  BY PoolAlways, PlacesHold, PTL

\* Workers only wait on each other for ever where group messages hold every connection of the
\* master pool (updateGroupChat), or where removeRepeatUser has lost every connection of a pool
\* that somebody waits for, whatever the limits of the pools.
THEOREM DbProxyHangsInTwoWays == Spec => []HangsInTwoWays
  BY PoolAlways, TwoWays, PTL
=============================================================================
