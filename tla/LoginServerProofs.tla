-------------------------- MODULE LoginServerProofs --------------------------
(***************************************************************************)
(* Proofs about LoginServer for any msg_servers, links and clients.        *)
(* CountsConverge is about links without a pdu under way; the inductive    *)
(* invariant says what the pdus under way will make of the counts: each    *)
(* continues the count of the one before, and the last one arrives at the  *)
(* count that the msg_server has now.  So a choice among settled links is  *)
(* one among the msg_servers as they are.                                  *)
(***************************************************************************)
EXTENDS LoginServer, FiniteSetTheorems, TLAPS

N == Cardinality(Clients)
Pdu == [cmd : {"info", "inc", "dec"}, now : 0..N]

\* pdu p is an update that makes of the count n the count that p was sent with
Follows(n, p) == p.cmd # "info" /\ p.now = n + (IF p.cmd = "inc" THEN 1 ELSE -1)

\* A client that has been assigned a msg_server is not logged in.
AssignedIdle == \A c \in Clients : assigned[c] # NoServer => logged[c] = NoServer

PeerKnown == \A l \in msg_open : peer[l] \in Servers

\* The pdus under way on a link: an IMMsgServInfo exactly when the link has no entry yet,
\* then updates, each of which continues the count of the one before.
Chain == \A l \in g_msg_serv_conn_map :
    /\ l \notin g_msg_serv_info => queue[l] # <<>> /\ queue[l][1].cmd = "info"
    /\ l \in g_msg_serv_info /\ queue[l] # <<>> => Follows(cur_conn_cnt[l], queue[l][1])
    /\ \A i \in 1..Len(queue[l]) - 1 : Follows(queue[l][i].now, queue[l][i + 1])

\* What the login_server will count on a link when it has read all of its pdus.
Latest == \A l \in msg_open \intersect g_msg_serv_conn_map :
    IF queue[l] = <<>> THEN cur_conn_cnt[l] = Count(peer[l])
    ELSE queue[l][Len(queue[l])].now = Count(peer[l])

IInv == TypeOK /\ AssignedIdle /\ PeerKnown /\ Chain /\ Latest

LEMMA NType == N \in Nat /\ N < Wrap /\ Wrap \in Nat \ {0}
BY ClientsAssumption, WrapAssumption, FS_CardinalityType DEF N

LEMMA CardType == ASSUME NEW f, NEW m PROVE Cardinality({c \in Clients : f[c] = m}) \in 0..N
<1> DEFINE S == {c \in Clients : f[c] = m}
<1>1. IsFiniteSet(S) /\ Cardinality(S) <= Cardinality(Clients)
  BY ClientsAssumption, FS_Subset
<1>2. Cardinality(S) \in Nat /\ Cardinality(Clients) \in Nat
  BY <1>1, ClientsAssumption, FS_CardinalityType
<1>3. Cardinality(S) \in 0..N
  BY <1>1, <1>2 DEF N
<1> QED
  BY <1>3

LEMMA CountType == ASSUME NEW m PROVE Count(m) \in 0..N /\ Count(m)' \in 0..N
BY CardType DEF Count

\* A client that logs in or out changes the count of its msg_server only.
LEMMA CountLogin ==
  ASSUME TypeOK, NEW c \in Clients, NEW m \in Servers, logged[c] = NoServer,
         logged' = [logged EXCEPT ![c] = m]
  PROVE  \A k \in Servers : Count(k)' = IF k = m THEN Count(k) + 1 ELSE Count(k)
<1> SUFFICES ASSUME NEW k \in Servers PROVE Count(k)' = IF k = m THEN Count(k) + 1 ELSE Count(k)
  OBVIOUS
<1> DEFINE S == {x \in Clients : logged[x] = k}
           T == {x \in Clients : logged'[x] = k}
<1>1. IsFiniteSet(S) /\ c \notin S
  BY ClientsAssumption, FS_Subset, ServersAssumption
<1>2. T = IF k = m THEN S \union {c} ELSE S
  BY ServersAssumption DEF TypeOK
<1>3. Cardinality(S \union {c}) = Cardinality(S) + 1
  BY <1>1, FS_AddElement
<1>4. Cardinality(T) = IF k = m THEN Cardinality(S) + 1 ELSE Cardinality(S)
  BY <1>2, <1>3
<1> QED
  BY <1>4 DEF Count

LEMMA CountLogout ==
  ASSUME TypeOK, NEW c \in Clients, NEW m \in Servers, logged[c] = m,
         logged' = [logged EXCEPT ![c] = NoServer]
  PROVE  \A k \in Servers : Count(k)' = IF k = m THEN Count(k) - 1 ELSE Count(k)
<1> SUFFICES ASSUME NEW k \in Servers PROVE Count(k)' = IF k = m THEN Count(k) - 1 ELSE Count(k)
  OBVIOUS
<1> DEFINE S == {x \in Clients : logged[x] = k}
           T == {x \in Clients : logged'[x] = k}
<1>1. IsFiniteSet(S) /\ (k = m => c \in S)
  BY ClientsAssumption, FS_Subset
<1>2. T = IF k = m THEN S \ {c} ELSE S
  BY ServersAssumption DEF TypeOK
<1>3. k = m => Cardinality(S \ {c}) = Cardinality(S) - 1
  BY <1>1, FS_RemoveElement
<1>4. Cardinality(T) = IF k = m THEN Cardinality(S) - 1 ELSE Cardinality(S)
  BY <1>2, <1>3
<1> QED
  BY <1>4 DEF Count

LEMMA InitIInv == Init => IInv
<1> SUFFICES ASSUME Init PROVE IInv
  OBVIOUS
<1>1. TypeOK
  BY NType DEF Init, TypeOK, N
<1>2. AssignedIdle /\ PeerKnown /\ Chain /\ Latest
  BY DEF Init, AssignedIdle, PeerKnown, Chain, Latest
<1> QED
  BY <1>1, <1>2 DEF IInv

-----------------------------------------------------------------------------
(* Sending: Login and Logout *)

LEMMA AppendChain ==
  ASSUME NEW q \in Seq(Pdu), NEW p \in Pdu
  PROVE  /\ Append(q, p) \in Seq(Pdu) /\ Append(q, p) # <<>>
         /\ Len(Append(q, p)) = Len(q) + 1 /\ Len(q) \in Nat
         /\ \A i \in 1..Len(q) : Append(q, p)[i] = q[i]
         /\ Append(q, p)[Len(q) + 1] = p
         /\ q # <<>> <=> Len(q) # 0
OBVIOUS

LEMMA SendKeeps ==
  ASSUME IInv, NEW m \in Servers, NEW cmd \in {"inc", "dec"}, NEW now \in 0..N,
         SendUserCnt(m, cmd, now), Follows(Count(m), [cmd |-> cmd, now |-> now]),
         \A k \in Servers : Count(k)' = IF k = m THEN now ELSE Count(k),
         UNCHANGED <<peer, msg_open, g_msg_serv_conn_map, countVars>>
  PROVE  queue' \in [Links -> Seq(Pdu)] /\ Chain' /\ Latest'
<1> DEFINE p == [cmd |-> cmd, now |-> now]
           up == {l \in msg_open \intersect g_msg_serv_conn_map : peer[l] = m}
<1>0. /\ g_msg_serv_info' = g_msg_serv_info /\ cur_conn_cnt' = cur_conn_cnt
      /\ peer' = peer /\ msg_open' = msg_open /\ g_msg_serv_conn_map' = g_msg_serv_conn_map
  BY DEF countVars
<1>1. p \in Pdu /\ queue \in [Links -> Seq(Pdu)] /\ g_msg_serv_conn_map \subseteq Links
  BY DEF Pdu, IInv, TypeOK, N
<1>2. \A l \in Links : queue'[l] = IF l \in up THEN Append(queue[l], p) ELSE queue[l]
  BY DEF SendUserCnt
<1>3. queue' \in [Links -> Seq(Pdu)]
  <2>1. \A l \in Links : (IF l \in up THEN Append(queue[l], p) ELSE queue[l]) \in Seq(Pdu)
    BY <1>1, AppendChain
  <2> QED
    BY <2>1 DEF SendUserCnt
<1>4. Chain'
  <2> SUFFICES ASSUME NEW l \in g_msg_serv_conn_map
               PROVE  /\ l \notin g_msg_serv_info => queue'[l] # <<>> /\ queue'[l][1].cmd = "info"
                      /\ l \in g_msg_serv_info /\ queue'[l] # <<>> => Follows(cur_conn_cnt[l], queue'[l][1])
                      /\ \A i \in 1..Len(queue'[l]) - 1 : Follows(queue'[l][i].now, queue'[l][i + 1])
    BY <1>0 DEF Chain, Follows
  <2>0. /\ l \notin g_msg_serv_info => queue[l] # <<>> /\ queue[l][1].cmd = "info"
        /\ l \in g_msg_serv_info /\ queue[l] # <<>> => Follows(cur_conn_cnt[l], queue[l][1])
        /\ \A i \in 1..Len(queue[l]) - 1 : Follows(queue[l][i].now, queue[l][i + 1])
    BY DEF IInv, Chain
  <2>1. CASE l \notin up
    BY <2>0, <2>1, <1>1, <1>2
  <2>2. CASE l \in up
    <3> DEFINE q == queue[l]
               r == queue'[l]
    <3>1. q \in Seq(Pdu) /\ r = Append(q, p)
      BY <2>2, <1>1, <1>2
    <3>2. /\ Len(r) = Len(q) + 1 /\ Len(q) \in Nat /\ r # <<>>
          /\ \A i \in 1..Len(q) : r[i] = q[i]
          /\ r[Len(q) + 1] = p
          /\ q # <<>> <=> Len(q) # 0
      BY <3>1, <1>1, AppendChain
    <3>3. IF q = <<>> THEN cur_conn_cnt[l] = Count(m) ELSE q[Len(q)].now = Count(m)
      BY <2>2 DEF IInv, Latest
    <3>4. q # <<>> => r[1] = q[1]
      BY <3>2
    <3>5. q = <<>> => r[1] = p /\ l \in g_msg_serv_info
      BY <3>2, <2>0
    <3>6. ASSUME NEW i \in 1..Len(r) - 1 PROVE Follows(r[i].now, r[i + 1])
      <4>1. CASE i = Len(q)
        BY <4>1, <3>2, <3>3, <3>6
      <4>2. CASE i # Len(q)
        <5>0. i \in 1..Len(q) - 1 /\ i \in 1..Len(q) /\ i + 1 \in 1..Len(q)
          <6>1. Len(r) = Len(q) + 1 /\ Len(q) \in Nat
            BY <3>2
          <6> HIDE DEF q, r
          <6> QED
            BY <3>6, <4>2, <6>1
        <5>1. i \in 1..Len(q) - 1 /\ r[i] = q[i] /\ r[i + 1] = q[i + 1]
          <6>1. \A n \in 1..Len(q) : r[n] = q[n]
            BY <3>2
          <6> HIDE DEF q, r
          <6> QED
            BY <5>0, <6>1
        <5> QED
          BY <5>1, <2>0
      <4> QED
        BY <4>1, <4>2
    <3> QED
      BY <2>0, <3>2, <3>3, <3>4, <3>5, <3>6
  <2> QED
    BY <2>1, <2>2
<1>5. Latest'
  <2> SUFFICES ASSUME NEW l \in msg_open \intersect g_msg_serv_conn_map
               PROVE  IF queue'[l] = <<>> THEN cur_conn_cnt[l] = Count(peer[l])'
                      ELSE queue'[l][Len(queue'[l])].now = Count(peer[l])'
    BY <1>0 DEF Latest
  <2>0. peer[l] \in Servers /\ peer'[l] = peer[l] /\ l \in Links
    BY <1>0, <1>1 DEF IInv, PeerKnown
  <2>1. Count(peer[l])' = IF peer[l] = m THEN now ELSE Count(peer[l])
    BY <2>0, <1>0 DEF Count
  <2>2. CASE peer[l] = m
    <3>1. queue'[l] = Append(queue[l], p) /\ queue[l] \in Seq(Pdu)
      BY <2>0, <2>2, <1>1, <1>2
    <3>2. queue'[l] # <<>> /\ queue'[l][Len(queue'[l])] = p
      BY <3>1, <1>1, AppendChain
    <3> QED
      BY <3>2, <2>1, <2>2
  <2>3. CASE peer[l] # m
    BY <2>0, <2>1, <2>3, <1>2 DEF IInv, Latest
  <2> QED
    BY <2>2, <2>3
<1> QED
  BY <1>3, <1>4, <1>5

LEMMA LoginKeepsIInv == ASSUME IInv, NEW c \in Clients, Login(c) PROVE IInv'
<1> DEFINE m == assigned[c]
<1>1. m \in Servers /\ logged[c] = NoServer
  BY DEF Login, IInv, TypeOK, AssignedIdle
<1>2. PICK s \in Servers : s = m
  BY <1>1
<1>3. \A k \in Servers : Count(k)' = IF k = s THEN Count(s) + 1 ELSE Count(k)
  <2>1. logged' = [logged EXCEPT ![c] = s]
    BY <1>2 DEF Login
  <2> QED
    BY <1>1, <2>1, CountLogin DEF IInv
<1>4. PICK now \in 0..N : now = Count(s) + 1
  <2>1. Count(s)' \in 0..N
    BY CountType
  <2> QED
    BY <1>3, <2>1
<1>5. queue' \in [Links -> Seq(Pdu)] /\ Chain' /\ Latest'
  <2>1. SendUserCnt(s, "inc", now) /\ UNCHANGED <<peer, msg_open, g_msg_serv_conn_map, countVars>>
    BY <1>2, <1>4 DEF Login, SendUserCnt
  <2>2. Follows(Count(s), [cmd |-> "inc", now |-> now])
    BY <1>4 DEF Follows
  <2>3. \A k \in Servers : Count(k)' = IF k = s THEN now ELSE Count(k)
    BY <1>3, <1>4
  <2> QED
    BY <2>1, <2>2, <2>3, SendKeeps
<1>6. TypeOK'
  BY <1>1, <1>5 DEF IInv, TypeOK, Login, countVars, tcpVars, Pdu, N
<1>7. AssignedIdle' /\ PeerKnown'
  BY DEF IInv, TypeOK, AssignedIdle, PeerKnown, Login
<1> QED
  BY <1>5, <1>6, <1>7 DEF IInv

LEMMA LogoutKeepsIInv == ASSUME IInv, NEW c \in Clients, Logout(c) PROVE IInv'
<1> DEFINE m == logged[c]
<1>1. m \in Servers /\ assigned[c] = NoServer
  BY DEF Logout, IInv, TypeOK, AssignedIdle
<1>2. PICK s \in Servers : s = m
  BY <1>1
<1>3. \A k \in Servers : Count(k)' = IF k = s THEN Count(s) - 1 ELSE Count(k)
  <2>1. logged' = [logged EXCEPT ![c] = NoServer]
    BY DEF Logout
  <2> QED
    BY <1>2, <2>1, CountLogout DEF IInv
<1>4. PICK now \in 0..N : now = Count(s) - 1
  <2>1. Count(s)' \in 0..N
    BY CountType
  <2> QED
    BY <1>3, <2>1
<1>5. queue' \in [Links -> Seq(Pdu)] /\ Chain' /\ Latest'
  <2>1. SendUserCnt(s, "dec", now) /\ UNCHANGED <<peer, msg_open, g_msg_serv_conn_map, countVars>>
    BY <1>2, <1>4 DEF Logout, SendUserCnt
  <2>2. Follows(Count(s), [cmd |-> "dec", now |-> now])
    BY <1>4, CountType DEF Follows
  <2>3. \A k \in Servers : Count(k)' = IF k = s THEN now ELSE Count(k)
    BY <1>3, <1>4
  <2> QED
    BY <2>1, <2>2, <2>3, SendKeeps
<1>6. TypeOK'
  BY <1>1, <1>5 DEF IInv, TypeOK, Logout, countVars, tcpVars, Pdu, N
<1>7. AssignedIdle' /\ PeerKnown'
  BY DEF IInv, TypeOK, AssignedIdle, PeerKnown, Logout
<1> QED
  BY <1>5, <1>6, <1>7 DEF IInv

-----------------------------------------------------------------------------
(* The links: Connect, MsgClose and LoginClose *)

LEMMA ConnectKeepsIInv == ASSUME IInv, NEW m \in Servers, NEW l \in Links, Connect(m, l) PROVE IInv'
<1> DEFINE p == [cmd |-> "info", now |-> Count(m)]
<1>1. p \in Pdu /\ <<p>> \in Seq(Pdu) /\ Len(<<p>>) = 1 /\ <<p>>[1] = p /\ <<p>> # <<>>
  BY CountType DEF Pdu
<1>2. l \notin msg_open /\ l \notin g_msg_serv_conn_map /\ l \notin g_msg_serv_info
  BY DEF Connect, IInv, TypeOK
<1>3. /\ queue' = [queue EXCEPT ![l] = <<p>>]
      /\ peer' = [peer EXCEPT ![l] = m]
      /\ msg_open' = msg_open \union {l}
      /\ g_msg_serv_conn_map' = g_msg_serv_conn_map \union {l}
      /\ UNCHANGED <<assigned, logged, g_msg_serv_info, cur_conn_cnt>>
  BY DEF Connect, countVars
<1>4. queue \in [Links -> Seq(Pdu)] /\ peer \in [Links -> Servers \union {NoServer}]
  BY DEF IInv, TypeOK, Pdu, N
<1>5. queue' \in [Links -> Seq(Pdu)]
  BY <1>1, <1>3, <1>4
<1>6. TypeOK'
  BY <1>3, <1>5, <1>2 DEF IInv, TypeOK, Connect, countVars, tcpVars, Pdu, N
<1>7. Chain'
  <2> SUFFICES ASSUME NEW k \in g_msg_serv_conn_map'
               PROVE  /\ k \notin g_msg_serv_info => queue'[k] # <<>> /\ queue'[k][1].cmd = "info"
                      /\ k \in g_msg_serv_info /\ queue'[k] # <<>> => Follows(cur_conn_cnt[k], queue'[k][1])
                      /\ \A i \in 1..Len(queue'[k]) - 1 : Follows(queue'[k][i].now, queue'[k][i + 1])
    BY <1>3 DEF Chain, Follows
  <2>1. CASE k = l
    BY <2>1, <1>1, <1>2, <1>3, <1>4
  <2>2. CASE k # l
    BY <2>2, <1>3, <1>4 DEF IInv, Chain
  <2> QED
    BY <2>1, <2>2
<1>8. Latest'
  <2> SUFFICES ASSUME NEW k \in msg_open' \intersect g_msg_serv_conn_map'
               PROVE  IF queue'[k] = <<>> THEN cur_conn_cnt[k] = Count(peer'[k])
                      ELSE queue'[k][Len(queue'[k])].now = Count(peer'[k])
    BY <1>3 DEF Latest, Count
  <2>0. k \in Links
    BY <1>6 DEF TypeOK
  <2>1. CASE k = l
    BY <2>0, <2>1, <1>1, <1>3, <1>4
  <2>2. CASE k # l
    BY <2>0, <2>2, <1>3, <1>4 DEF IInv, Latest
  <2> QED
    BY <2>1, <2>2
<1>9. AssignedIdle' /\ PeerKnown'
  BY <1>3, <1>4 DEF IInv, TypeOK, AssignedIdle, PeerKnown
<1> QED
  BY <1>6, <1>7, <1>8, <1>9 DEF IInv

LEMMA MsgCloseKeepsIInv == ASSUME IInv, NEW l \in Links, MsgClose(l) PROVE IInv'
<1>1. /\ msg_open' \subseteq msg_open
      /\ UNCHANGED <<assigned, logged, peer, g_msg_serv_conn_map, queue, g_msg_serv_info, cur_conn_cnt>>
  BY DEF MsgClose, countVars
<1>2. TypeOK'
  BY DEF IInv, TypeOK, MsgClose, countVars, tcpVars
<1>3. AssignedIdle' /\ PeerKnown' /\ Chain'
  BY <1>1 DEF IInv, AssignedIdle, PeerKnown, Chain, Follows
<1>4. Latest'
  BY <1>1 DEF IInv, Latest, Count
<1> QED
  BY <1>2, <1>3, <1>4 DEF IInv

\* A uint32_t is what % makes of it, and a count that fits is unchanged.
LEMMA Wraps ==
  ASSUME NEW W \in Nat \ {0}, NEW x \in Int
  PROVE  x % W \in 0..W - 1 /\ (x \in 0..W - 1 => x % W = x)
OBVIOUS

LEMMA LoginCloseKeepsIInv == ASSUME IInv, NEW l \in Links, LoginClose(l) PROVE IInv'
<1>1. /\ queue' = [queue EXCEPT ![l] = <<>>]
      /\ cur_conn_cnt' = [cur_conn_cnt EXCEPT ![l] = 0]
      /\ g_msg_serv_conn_map' = g_msg_serv_conn_map \ {l}
      /\ g_msg_serv_info' = g_msg_serv_info \ {l}
      /\ UNCHANGED <<assigned, logged, peer, msg_open>>
  BY DEF LoginClose
<1>2. total' \in 0..Wrap - 1
  <2>1. cur_conn_cnt[l] \in 0..N /\ total \in 0..Wrap - 1
    BY DEF IInv, TypeOK, N
  <2>2. total - cur_conn_cnt[l] \in Int
    BY <2>1, NType
  <2> QED
    BY <2>1, <2>2, NType, Wraps DEF LoginClose
<1>3. queue \in [Links -> Seq(Pdu)] /\ cur_conn_cnt \in [Links -> 0..N]
  BY DEF IInv, TypeOK, Pdu, N
<1>4. queue' \in [Links -> Seq(Pdu)] /\ cur_conn_cnt' \in [Links -> 0..N]
  BY <1>1, <1>3, NType
<1>5. TypeOK'
  BY <1>1, <1>2, <1>4 DEF IInv, TypeOK, LoginClose, tcpVars, Pdu, N
<1>6. AssignedIdle' /\ PeerKnown'
  BY <1>1 DEF IInv, AssignedIdle, PeerKnown
<1>7. \A k \in Links : k # l => queue'[k] = queue[k] /\ cur_conn_cnt'[k] = cur_conn_cnt[k]
  BY <1>1, <1>3
<1>8. Chain'
  BY <1>1, <1>7 DEF IInv, TypeOK, Chain, Follows
<1>9. Latest'
  BY <1>1, <1>7 DEF IInv, TypeOK, Latest, Count
<1> QED
  BY <1>5, <1>6, <1>8, <1>9 DEF IInv

-----------------------------------------------------------------------------
(* Receiving: MsgServInfo and UserCntUpdate *)

LEMMA TailSeq ==
  ASSUME NEW q \in Seq(Pdu), q # <<>>
  PROVE  /\ Tail(q) \in Seq(Pdu) /\ q[1] \in Pdu /\ Head(q) = q[1]
         /\ Len(q) \in Nat \ {0} /\ Len(Tail(q)) = Len(q) - 1
         /\ \A i \in 1..Len(q) - 1 : Tail(q)[i] = q[i + 1]
         /\ Tail(q) = <<>> <=> Len(q) = 1
<1>1. Len(q) \in Nat \ {0} /\ q[1] \in Pdu /\ Head(q) = q[1]
  OBVIOUS
<1>2. Tail(q) \in Seq(Pdu) /\ Len(Tail(q)) = Len(q) - 1
  OBVIOUS
<1>3. \A i \in 1..Len(q) - 1 : Tail(q)[i] = q[i + 1]
  OBVIOUS
<1>4. Tail(q) = <<>> <=> Len(Tail(q)) = 0
  BY <1>2
<1> QED
  BY <1>1, <1>2, <1>3, <1>4

\* Either pdu leaves its count in the entry of its link.
LEMMA TakeKeeps ==
  ASSUME IInv, NEW l \in g_msg_serv_conn_map, queue[l] # <<>>,
         queue' = [queue EXCEPT ![l] = Tail(@)],
         cur_conn_cnt' = [cur_conn_cnt EXCEPT ![l] = queue[l][1].now],
         g_msg_serv_info' = g_msg_serv_info \union {l},
         UNCHANGED <<logged, peer, msg_open, g_msg_serv_conn_map>>
  PROVE  /\ queue' \in [Links -> Seq(Pdu)] /\ cur_conn_cnt' \in [Links -> 0..N]
         /\ Chain' /\ Latest'
<1> DEFINE q == queue[l]
<1>1. queue \in [Links -> Seq(Pdu)] /\ cur_conn_cnt \in [Links -> 0..N] /\ l \in Links
  BY DEF IInv, TypeOK, Pdu, N
<1>2. q \in Seq(Pdu) /\ q # <<>>
  BY <1>1
<1>3. /\ Tail(q) \in Seq(Pdu) /\ q[1] \in Pdu
      /\ Len(q) \in Nat \ {0} /\ Len(Tail(q)) = Len(q) - 1
      /\ \A i \in 1..Len(q) - 1 : Tail(q)[i] = q[i + 1]
      /\ Tail(q) = <<>> <=> Len(q) = 1
  BY <1>2, TailSeq
<1>4. queue'[l] = Tail(q) /\ cur_conn_cnt'[l] = q[1].now
  BY <1>1
<1>5. \A k \in Links : k # l => queue'[k] = queue[k] /\ cur_conn_cnt'[k] = cur_conn_cnt[k]
  BY <1>1
<1>6. q[1].now \in 0..N
  BY <1>3 DEF Pdu
<1>7. queue' \in [Links -> Seq(Pdu)] /\ cur_conn_cnt' \in [Links -> 0..N]
  BY <1>1, <1>3, <1>6
<1>8. \A i \in 1..Len(q) - 1 : Follows(q[i].now, q[i + 1])
  BY DEF IInv, Chain
<1>9. Chain'
  <2> SUFFICES ASSUME NEW k \in g_msg_serv_conn_map
               PROVE  /\ k \notin g_msg_serv_info' => queue'[k] # <<>> /\ queue'[k][1].cmd = "info"
                      /\ k \in g_msg_serv_info' /\ queue'[k] # <<>> => Follows(cur_conn_cnt'[k], queue'[k][1])
                      /\ \A i \in 1..Len(queue'[k]) - 1 : Follows(queue'[k][i].now, queue'[k][i + 1])
    BY DEF Chain, Follows
  <2>1. CASE k = l
    <3>1. queue'[k] # <<>> => Follows(cur_conn_cnt'[k], queue'[k][1])
      <4> SUFFICES ASSUME Tail(q) # <<>> PROVE Follows(q[1].now, Tail(q)[1])
        BY <2>1, <1>4
      <4>1. 1 \in 1..Len(q) - 1 /\ Tail(q)[1] = q[1 + 1]
        BY <1>3
      <4> QED
        BY <4>1, <1>8
    <3>2. ASSUME NEW i \in 1..Len(queue'[k]) - 1 PROVE Follows(queue'[k][i].now, queue'[k][i + 1])
      <4>0. Len(queue'[k]) = Len(q) - 1 /\ Len(q) \in Nat \ {0}
        BY <2>1, <1>3, <1>4
      <4>1. i \in 1..Len(q) - 1 /\ i + 1 \in 1..Len(q) - 1
        BY <3>2, <4>0
      <4>2. queue'[k][i] = q[i + 1] /\ queue'[k][i + 1] = q[(i + 1) + 1]
        BY <4>1, <2>1, <1>3, <1>4
      <4> QED
        BY <4>1, <4>2, <1>8
    <3> QED
      BY <2>1, <3>1, <3>2
  <2>2. CASE k # l
    BY <2>2, <1>5 DEF IInv, TypeOK, Chain
  <2> QED
    BY <2>1, <2>2
<1>10. Latest'
  <2> SUFFICES ASSUME NEW k \in msg_open \intersect g_msg_serv_conn_map
               PROVE  IF queue'[k] = <<>> THEN cur_conn_cnt'[k] = Count(peer[k])
                      ELSE queue'[k][Len(queue'[k])].now = Count(peer[k])
    BY DEF Latest, Count
  <2>1. CASE k = l
    <3>1. q[Len(q)].now = Count(peer[l])
      BY <2>1 DEF IInv, Latest
    <3>2. Tail(q) # <<>> => Tail(q)[Len(Tail(q))] = q[Len(q)]
      BY <1>3
    <3> QED
      BY <2>1, <3>1, <3>2, <1>3, <1>4
  <2>2. CASE k # l
    BY <2>2, <1>5 DEF IInv, TypeOK, Latest
  <2> QED
    BY <2>1, <2>2
<1> QED
  BY <1>7, <1>9, <1>10

LEMMA MsgServInfoKeepsIInv == ASSUME IInv, NEW l \in Links, MsgServInfo(l) PROVE IInv'
<1>1. /\ l \in g_msg_serv_conn_map /\ queue[l] # <<>>
      /\ queue' = [queue EXCEPT ![l] = Tail(@)]
      /\ g_msg_serv_info' = g_msg_serv_info \union {l}
      /\ UNCHANGED <<assigned, logged, peer, msg_open, g_msg_serv_conn_map>>
  BY DEF MsgServInfo, Next1, Take
<1>2. queue[l] \in Seq(Pdu)
  BY DEF IInv, TypeOK, Pdu, N
<1>3. Head(queue[l]) = queue[l][1] /\ queue[l][1].now \in 0..N
  BY <1>1, <1>2, TailSeq DEF Pdu
<1>4. cur_conn_cnt' = [cur_conn_cnt EXCEPT ![l] = queue[l][1].now]
  BY <1>3 DEF MsgServInfo
<1>5. queue' \in [Links -> Seq(Pdu)] /\ cur_conn_cnt' \in [Links -> 0..N] /\ Chain' /\ Latest'
  BY <1>1, <1>4, TakeKeeps
<1>6. total' \in 0..Wrap - 1
  <2>1. total + queue[l][1].now \in Int
    BY <1>3, NType DEF IInv, TypeOK
  <2> QED
    BY <2>1, <1>3, NType, Wraps DEF MsgServInfo
<1>7. TypeOK'
  BY <1>1, <1>5, <1>6 DEF IInv, TypeOK, MsgServInfo, Take, tcpVars, Pdu, N
<1>8. AssignedIdle' /\ PeerKnown'
  BY <1>1 DEF IInv, AssignedIdle, PeerKnown
<1> QED
  BY <1>5, <1>7, <1>8 DEF IInv

LEMMA UserCntUpdateKeepsIInv == ASSUME IInv, NEW l \in Links, UserCntUpdate(l) PROVE IInv'
<1> DEFINE d == IF Head(queue[l]).cmd = "inc" THEN 1 ELSE -1
<1>1. /\ l \in g_msg_serv_conn_map /\ queue[l] # <<>> /\ Head(queue[l]).cmd # "info"
      /\ queue' = [queue EXCEPT ![l] = Tail(@)]
      /\ UNCHANGED <<assigned, logged, peer, msg_open, g_msg_serv_conn_map, g_msg_serv_info>>
  BY DEF UserCntUpdate, Next1, Take
<1>2. queue[l] \in Seq(Pdu)
  BY DEF IInv, TypeOK, Pdu, N
<1>3. Head(queue[l]) = queue[l][1] /\ queue[l][1].now \in 0..N
  BY <1>1, <1>2, TailSeq DEF Pdu
<1>4. l \in g_msg_serv_info /\ queue[l][1].now = cur_conn_cnt[l] + d
  BY <1>1, <1>3 DEF IInv, Chain, Follows
<1>5. (cur_conn_cnt[l] + d) % Wrap = queue[l][1].now
  <2>1. queue[l][1].now \in 0..Wrap - 1 /\ queue[l][1].now \in Int
    BY <1>3, NType
  <2> QED
    BY <2>1, <1>4, NType, Wraps
<1>6. /\ cur_conn_cnt' = [cur_conn_cnt EXCEPT ![l] = queue[l][1].now]
      /\ g_msg_serv_info' = g_msg_serv_info \union {l}
      /\ total' = (total + d) % Wrap
  BY <1>1, <1>4, <1>5 DEF UserCntUpdate
<1>7. queue' \in [Links -> Seq(Pdu)] /\ cur_conn_cnt' \in [Links -> 0..N] /\ Chain' /\ Latest'
  BY <1>1, <1>6, TakeKeeps
<1>8. total' \in 0..Wrap - 1
  <2>1. total + d \in Int
    BY NType DEF IInv, TypeOK
  <2> QED
    BY <2>1, <1>6, NType, Wraps
<1>9. TypeOK'
  BY <1>1, <1>7, <1>8 DEF IInv, TypeOK, UserCntUpdate, Take, tcpVars, Pdu, N
<1>10. AssignedIdle' /\ PeerKnown'
  BY <1>1 DEF IInv, AssignedIdle, PeerKnown
<1> QED
  BY <1>7, <1>9, <1>10 DEF IInv

-----------------------------------------------------------------------------
(* The clients, and the theorems *)

LEMMA AssignKeepsIInv == ASSUME IInv, NEW c \in Clients, Assign(c) PROVE IInv'
<1>1. PICK l \in LeastLoaded : assigned' = [assigned EXCEPT ![c] = peer[l]]
  BY DEF Assign
<1>2. l \in Links
  BY DEF LeastLoaded, IInv, TypeOK
<1>3. /\ UNCHANGED <<logged, peer, msg_open, g_msg_serv_conn_map, queue, g_msg_serv_info, cur_conn_cnt>>
      /\ logged[c] = NoServer
  BY DEF Assign, linkVars, countVars
<1>4. TypeOK'
  BY <1>1, <1>2 DEF IInv, TypeOK, Assign, linkVars, countVars, tcpVars
<1>5. AssignedIdle'
  BY <1>1, <1>3 DEF IInv, TypeOK, AssignedIdle
<1>6. PeerKnown' /\ Chain'
  BY <1>3 DEF IInv, PeerKnown, Chain, Follows
<1>7. Latest'
  BY <1>3 DEF IInv, Latest, Count
<1> QED
  BY <1>4, <1>5, <1>6, <1>7 DEF IInv

LEMMA OtherKeepsIInv ==
  ASSUME IInv, UNCHANGED <<assigned, logged, linkVars, countVars>>,
         g_client_conn_map' \subseteq TcpClients, readable' \subseteq waiting', waiting' \subseteq TcpClients
  PROVE  IInv'
<1>1. TypeOK'
  BY DEF IInv, TypeOK, linkVars, countVars
<1>2. AssignedIdle' /\ PeerKnown' /\ Chain'
  BY DEF IInv, AssignedIdle, PeerKnown, Chain, Follows, linkVars, countVars
<1>3. Latest'
  BY DEF IInv, Latest, Count, linkVars, countVars
<1> QED
  BY <1>1, <1>2, <1>3 DEF IInv

LEMMA TcpKeepsIInv ==
  ASSUME IInv, NEW c \in TcpClients, TcpConnect(c) \/ TcpEvent(c)
  PROVE  IInv'
<1>0. g_client_conn_map \subseteq TcpClients /\ readable \subseteq waiting /\ waiting \subseteq TcpClients
  BY DEF IInv, TypeOK
<1>1. CASE TcpConnect(c)
  BY <1>0, <1>1, OtherKeepsIInv DEF TcpConnect
<1>2. CASE TcpEvent(c)
  BY <1>0, <1>2, OtherKeepsIInv DEF TcpEvent
<1> QED
  BY <1>1, <1>2

LEMMA StepKeepsIInv == IInv /\ [Next]_vars => IInv'
<1> SUFFICES ASSUME IInv, [Next]_vars PROVE IInv'
  OBVIOUS
<1>1. ASSUME NEW m \in Servers, NEW l \in Links, Connect(m, l) PROVE IInv'
  BY <1>1, ConnectKeepsIInv
<1>2. ASSUME NEW l \in Links, MsgClose(l) \/ MsgServInfo(l) \/ UserCntUpdate(l) \/ LoginClose(l) PROVE IInv'
  BY <1>2, MsgCloseKeepsIInv, MsgServInfoKeepsIInv, UserCntUpdateKeepsIInv, LoginCloseKeepsIInv
<1>3. ASSUME NEW c \in Clients, Assign(c) \/ Login(c) \/ Logout(c) PROVE IInv'
  BY <1>3, AssignKeepsIInv, LoginKeepsIInv, LogoutKeepsIInv
<1>4. ASSUME NEW c \in TcpClients, TcpConnect(c) \/ TcpEvent(c) PROVE IInv'
  BY <1>4, TcpKeepsIInv
<1>5. CASE UNCHANGED vars
  BY <1>5, OtherKeepsIInv DEF vars, tcpVars, IInv, TypeOK
<1> QED
  BY <1>1, <1>2, <1>3, <1>4, <1>5 DEF Next

\* The variables keep their types; in particular a count that _HandleUserCntUpdate takes down
\* by one never wraps below zero, whatever links were closed at either end.
THEOREM LoginServerTypeOK == Spec => []TypeOK
<1>1. IInv => TypeOK
  BY DEF IInv
<1> QED
  BY <1>1, InitIInv, StepKeepsIInv, PTL DEF Spec

\* Once a link is up and its pdus are read, _HandleMsgServInfo and _HandleUserCntUpdate have
\* counted exactly the clients that are logged in to its msg_server.
THEOREM LoginServerCountsConverge == Spec => []CountsConverge
<1>1. IInv => CountsConverge
  <2> SUFFICES ASSUME IInv, NEW l \in Links, Settled(l)
               PROVE  l \in g_msg_serv_info /\ cur_conn_cnt[l] = Count(peer[l])
    BY DEF CountsConverge
  <2> QED
    BY DEF IInv, Chain, Latest, Settled
<1> QED
  BY <1>1, InitIInv, StepKeepsIInv, PTL DEF Spec

-----------------------------------------------------------------------------
(* The choice of _HandleMsgServRequest *)

\* The entry with the minimum count is, on settled links, the msg_server with the fewest clients.
LEMMA AssignChooses ==
  ASSUME IInv, NEW c \in Clients, Assign(c), \A l \in g_msg_serv_conn_map : Settled(l)
  PROVE  LET m == assigned'[c]
         IN  /\ Count(m) < max_conn_cnt[m]
             /\ \A k \in {peer[l] : l \in g_msg_serv_conn_map} :
                    Count(k) < max_conn_cnt[k] => Count(m) <= Count(k)
<1>1. TypeOK
  BY DEF IInv
<1>2. PICK l \in LeastLoaded : assigned' = [assigned EXCEPT ![c] = peer[l]]
  BY DEF Assign
<1>3. assigned'[c] = peer[l]
  BY <1>1, <1>2 DEF TypeOK
<1>4. g_msg_serv_info \subseteq g_msg_serv_conn_map
  BY <1>1 DEF TypeOK
<1>5. \A k \in g_msg_serv_conn_map : k \in g_msg_serv_info /\ cur_conn_cnt[k] = Count(peer[k])
  BY DEF IInv, Chain, Latest, Settled
<1>6. /\ l \in g_msg_serv_info /\ cur_conn_cnt[l] < max_conn_cnt[peer[l]]
      /\ \A k \in g_msg_serv_info :
           cur_conn_cnt[k] < max_conn_cnt[peer[k]] => cur_conn_cnt[l] <= cur_conn_cnt[k]
  BY <1>2 DEF LeastLoaded
<1> QED
  BY <1>3, <1>4, <1>5, <1>6

\* Only _HandleMsgServRequest gives a client a msg_server.
LEMMA OnlyAssign ==
  ASSUME IInv, [Next]_vars, NEW c \in Clients, assigned'[c] \notin {assigned[c], NoServer}
  PROVE  Assign(c)
<1>1. assigned \in [Clients -> Servers \union {NoServer}]
  BY DEF IInv, TypeOK
<1>2. ASSUME UNCHANGED assigned PROVE FALSE
  BY <1>2
<1>3. CASE \E d \in Clients : Assign(d)
  <2>1. PICK d \in Clients : Assign(d)
    BY <1>3
  <2>2. d = c
    BY <1>1, <2>1 DEF Assign
  <2> QED
    BY <2>1, <2>2
<1>4. CASE \E d \in Clients : Login(d)
  <2>1. PICK d \in Clients : assigned' = [assigned EXCEPT ![d] = NoServer]
    BY <1>4 DEF Login
  <2> QED
    BY <1>1, <2>1
<1>5. CASE \E d \in Clients : Logout(d)
  BY <1>2, <1>5 DEF Logout
<1>6. CASE \E m \in Servers, l \in Links : Connect(m, l)
  BY <1>2, <1>6 DEF Connect
<1>7. CASE \E l \in Links : MsgClose(l) \/ MsgServInfo(l) \/ UserCntUpdate(l) \/ LoginClose(l)
  BY <1>2, <1>7 DEF MsgClose, MsgServInfo, UserCntUpdate, LoginClose, Take
<1>8. CASE \E d \in TcpClients : TcpConnect(d) \/ TcpEvent(d)
  BY <1>2, <1>8 DEF TcpConnect, TcpEvent
<1>9. CASE UNCHANGED vars
  BY <1>2, <1>9 DEF vars
<1> QED
  BY <1>3, <1>4, <1>5, <1>6, <1>7, <1>8, <1>9 DEF Next

\* When every link is settled, a client is only assigned a msg_server that is not full and has no
\* more clients than any other that is not full: the minimum that _HandleMsgServRequest takes over
\* g_msg_serv_info is one of the msg_servers as they are, and misses none that is connected.
THEOREM LoginServerAssignsLeastLoaded == Spec => AssignsLeastLoaded
<1> DEFINE Chooses ==
      \A c \in Clients :
        (assigned'[c] \notin {assigned[c], NoServer} /\ \A l \in g_msg_serv_conn_map : Settled(l)) =>
            LET m == assigned'[c]
            IN  /\ Count(m) < max_conn_cnt[m]
                /\ \A k \in {peer[l] : l \in g_msg_serv_conn_map} :
                       Count(k) < max_conn_cnt[k] => Count(m) <= Count(k)
<1>1. IInv /\ [Next]_vars => [Chooses]_vars
  <2> SUFFICES ASSUME IInv, [Next]_vars PROVE Chooses
    OBVIOUS
  <2> QED
    BY OnlyAssign, AssignChooses
<1>2. Spec => [][Chooses]_vars
  <2> HIDE DEF Chooses
  <2> QED
    BY <1>1, InitIInv, StepKeepsIInv, PTL DEF Spec
<1> QED
  BY <1>2 DEF AssignsLeastLoaded
=============================================================================
