------------------------------ MODULE ServConn ------------------------------
(***************************************************************************)
(* How a msg_server keeps its connections to a list of route_servers       *)
(* (serv_info_t, ServInfo.h): a slot per configured server, reconnection   *)
(* with a growing delay, and the master, the connection that requests go   *)
(* to when one is enough.  The connections to the other servers are kept   *)
(* by the same templates, without a master.                                *)
(*                                                                         *)
(* Each handler, and each round of the one-second timer, is one action of  *)
(* the single reactor thread.                                              *)
(***************************************************************************)
EXTENDS Integers

CONSTANTS
    Slots,              \* indices of g_route_server_list
    MIN_RECONNECT_CNT,
    MAX_RECONNECT_CNT,
    MaxTime             \* bound: the clock value at which connection times stop growing

\* The g_master_rs_conn that is NULL.
NoMaster == -1

ASSUME SlotsAssumption == Slots \subseteq Nat
ASSUME ReconnectAssumption ==
    /\ MIN_RECONNECT_CNT \in Nat /\ MAX_RECONNECT_CNT \in Nat
    /\ 2 <= MIN_RECONNECT_CNT /\ MIN_RECONNECT_CNT <= MAX_RECONNECT_CNT
ASSUME MaxTimeAssumption == MaxTime \in Nat

VARIABLES
    serv_conn,      \* "null", "connecting", "open", or "dead": an object without a socket
    idle_cnt,       \* seconds since the slot became null
    reconnect_cnt,  \* seconds to wait before the next attempt
    m_connect_time, \* clock when the slot's connection was confirmed
    master,         \* g_master_rs_conn: the slot of the master
    clock           \* get_tick_count, the wall clock: that nobody sets it back is assumed

servVars == <<serv_conn, idle_cnt, reconnect_cnt, m_connect_time, master, clock>>

\* A new object's Connect: netlib_connect gives it a socket that connects, or fails at once.
Attempts == {"connecting", "dead"}

ConnInit ==
    /\ serv_conn \in [Slots -> Attempts]
    /\ idle_cnt = [i \in Slots |-> 0]
    /\ reconnect_cnt = [i \in Slots |-> MIN_RECONNECT_CNT \div 2]
    /\ m_connect_time = [i \in Slots |-> 0]
    /\ master = NoMaster
    /\ clock = 0

\* A slip in the choice of the master: the first slot that is open.
FirstOpen(conn, time) ==
    LET up == {i \in Slots : conn[i] = "open"}
    IN  IF up = {} THEN NoMaster ELSE CHOOSE i \in up : \A j \in up : i <= j

\* update_master_route_serv_conn: the first slot of those with the oldest open connection
Oldest(conn, time) ==
    LET up == {i \in Slots : conn[i] = "open"}
    IN  IF up = {} THEN NoMaster
        ELSE CHOOSE i \in up : \A j \in up : time[i] < time[j] \/ (time[i] = time[j] /\ i <= j)

\* A slip in the count: null slots only count while no server is connected.
NullWhenAlone == {i \in Slots : serv_conn[i] = "null" /\ \A j \in Slots : serv_conn[j] # "open"}

Null == {i \in Slots : serv_conn[i] = "null"}

\* The null slots that have waited long enough once this round has counted
Due == {i \in Null : idle_cnt[i] + 1 >= reconnect_cnt[i]}

\* The timer callback's serv_check_reconnect, over all slots
Tick ==
    /\ idle_cnt' = [i \in Slots |-> IF i \in Null THEN idle_cnt[i] + 1 ELSE idle_cnt[i]]
    /\ \E new \in [Due -> Attempts] :
           serv_conn' = [i \in Slots |-> IF i \in Due THEN new[i] ELSE serv_conn[i]]
    /\ UNCHANGED <<reconnect_cnt, m_connect_time, master, clock>>

\* OnConfirm of the slot's connection, in the same or a later millisecond than the last one
OnConfirm(i) ==
    /\ serv_conn[i] = "connecting"
    /\ serv_conn' = [serv_conn EXCEPT ![i] = "open"]
    /\ clock' \in {clock, clock + 1} /\ clock' <= MaxTime
    /\ m_connect_time' = [m_connect_time EXCEPT ![i] = clock']
    /\ reconnect_cnt' = [reconnect_cnt EXCEPT ![i] = MIN_RECONNECT_CNT \div 2]
    /\ master' = IF master = NoMaster THEN Oldest(serv_conn', m_connect_time') ELSE master
    /\ UNCHANGED idle_cnt

\* A slip in the next delay: the limit is checked before doubling.
BackoffLateLimit(n) == IF n > MAX_RECONNECT_CNT THEN MIN_RECONNECT_CNT ELSE 2 * n

\* serv_reset's next delay
Backoff(n) == IF 2 * n > MAX_RECONNECT_CNT THEN MIN_RECONNECT_CNT ELSE 2 * n

\* Close: refused, closed by the server, or SERVER_TIMEOUT without a pdu
Close(i) ==
    /\ serv_conn[i] \in {"connecting", "open"}
    /\ serv_conn' = [serv_conn EXCEPT ![i] = "null"]
    /\ idle_cnt' = [idle_cnt EXCEPT ![i] = 0]
    /\ reconnect_cnt' = [reconnect_cnt EXCEPT ![i] = Backoff(@)]
    /\ master' = IF master = i THEN Oldest(serv_conn', m_connect_time) ELSE master
    /\ UNCHANGED <<m_connect_time, clock>>

ConnNext == Tick \/ \E i \in Slots : OnConfirm(i) \/ Close(i)

\* The timer fires every second, and a connecting socket is confirmed, refused or timed out.
ConnFairness ==
    /\ WF_servVars(Tick)
    /\ \A i \in Slots : WF_servVars(serv_conn[i] = "connecting" /\ (OnConfirm(i) \/ Close(i)))

ConnSpec == ConnInit /\ [][ConnNext]_servVars
ConnFairSpec == ConnSpec /\ ConnFairness

-----------------------------------------------------------------------------
(* Properties *)

ConnTypeOK ==
    /\ serv_conn \in [Slots -> {"null", "connecting", "open", "dead"}]
    /\ idle_cnt \in [Slots -> Nat]
    /\ reconnect_cnt \in [Slots -> MIN_RECONNECT_CNT \div 2 .. MAX_RECONNECT_CNT]
    /\ m_connect_time \in [Slots -> Nat]
    /\ master \in Slots \union {NoMaster}
    /\ clock \in Nat

\* There is a master exactly when a connection is open, it is an open one, no deleted object, and
\* none is older (RouteServConn.cpp: get the oldest route server connection).
MasterIsOldest ==
    LET up == {i \in Slots : serv_conn[i] = "open"}
    IN  /\ master = NoMaster <=> up = {}
        /\ master # NoMaster => /\ master \in up
                                /\ \A i \in up : m_connect_time[master] <= m_connect_time[i]

\* A null slot has not yet waited out its delay: an attempt is never later than
\* MAX_RECONNECT_CNT rounds of the timer after the connection was lost.
DelayBounded ==
    \A i \in Null : idle_cnt[i] < reconnect_cnt[i] /\ reconnect_cnt[i] <= MAX_RECONNECT_CNT

\* A slot that lost its connection gets a new attempt (serv_check_reconnect), however often the
\* other slots come and go.
RetriesEventually == \A i \in Slots : serv_conn[i] = "null" ~> serv_conn[i] # "null"

\* Every slot keeps trying to connect until it is connected, for as long as the server is away
\* (DBServConn.cpp: will reconnect in 4s, 8s, 16s, 32s, 64s, 4s 8s ...).
KeepsTrying == \A i \in Slots : []<>(serv_conn[i] \in {"connecting", "open"})
=============================================================================
