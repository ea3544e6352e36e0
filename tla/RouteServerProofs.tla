-------------------------- MODULE RouteServerProofs --------------------------
(***************************************************************************)
(* Proofs about RouteServer for any msg_servers, links, clients and types. *)
(* What the table says depends on what is still under way: an OFFLINE      *)
(* update takes one from a count that must hold the session, and the pdus  *)
(* of a link that is up lead from what it has told of to the sessions of   *)
(* its msg_server.                                                         *)
(***************************************************************************)
EXTENDS RouteServer, FiniteSetTheorems, SequenceTheorems, TLAPS

Pdu == [cmd : {"info", "online", "offline"}, of : SUBSET Session]

(* What a pdu makes of the sessions known from its link: it is never a     *)
(* list for a link that told of some, the ONLINE update of a session that  *)
(* is known, or the OFFLINE update of one that is not.                     *)
Tells(p, before, after) ==
    \/ p.cmd = "info" /\ before = {} /\ after = p.of
    \/ \E s \in Session :
        /\ p.of = {s}
        /\ \/ p.cmd = "online" /\ s \notin before /\ after = before \union {s}
           \/ p.cmd = "offline" /\ s \in before /\ after = before \ {s}

\* The pdus of q, read one after the other, lead from the sessions first to the sessions last.
Leads(q, first, last) ==
    \E view \in [0..Len(q) -> SUBSET Session] :
        /\ view[0] = first
        /\ view[Len(q)] = last
        /\ \A i \in 1..Len(q) : Tells(q[i], view[i - 1], view[i])

\* A link has a msg_server from when it is made; when it is closed nothing of it is left.
LinkSound == \A l \in Links :
    /\ l \in msg_open \union g_route_conn_map => peer[l] \in Servers
    /\ l \notin g_route_conn_map => told[l] = {} /\ queue[l] = <<>>

\* What is under way on a link leads to the sessions of its msg_server, if it is up.
UnderWay == \A l \in Links : \E last \in SUBSET Session :
    /\ Leads(queue[l], told[l], last)
    /\ l \in msg_open \intersect g_route_conn_map => last = SessionsOn(peer[l])

\* A msg_server that has not lost a link has no session without one, and sent an empty list.
FirstLists ==
    /\ \A l \in Links : peer[l] \notin dropped =>
           \A i \in 1..Len(queue[l]) : queue[l][i].cmd = "info" => queue[l][i].of = {}
    /\ \A m \in Servers \ dropped : (\A l \in msg_open : peer[l] # m) => SessionsOn(m) = {}

LinkInv == TypeOK /\ LinkSound /\ UnderWay /\ FirstLists
TableInv == TableSound /\ NeverUndercounted /\ NoticesAgree
IInv == LinkInv /\ TableInv

-----------------------------------------------------------------------------
(* Pdus under way *)

LEMMA LeadsEmpty ==
  ASSUME NEW S \in SUBSET Session
  PROVE  Leads(<<>>, S, S) /\ \A T : Leads(<<>>, S, T) => T = S
<1>1. Len(<<>>) = 0
  OBVIOUS
<1>2. Leads(<<>>, S, S)
  <2> DEFINE v == [i \in 0..0 |-> S]
  <2>1. v \in [0..Len(<<>>) -> SUBSET Session] /\ v[0] = S /\ v[Len(<<>>)] = S
    BY <1>1
  <2>2. ASSUME NEW i \in 1..Len(<<>>) PROVE Tells(<<>>[i], v[i - 1], v[i])
    BY <1>1
  <2> HIDE DEF v
  <2> QED
    BY <2>1, <2>2 DEF Leads
<1>3. ASSUME NEW T, Leads(<<>>, S, T) PROVE T = S
  BY <1>1, <1>3 DEF Leads
<1> QED
  BY <1>2, <1>3

\* What is left after the first pdu is read leads where it did.
LEMMA LeadsTail ==
  ASSUME NEW q \in Seq(Pdu), q # <<>>, NEW S, NEW T, Leads(q, S, T)
  PROVE  \E R \in SUBSET Session : Tells(Head(q), S, R) /\ Leads(Tail(q), R, T)
<1>1. PICK v \in [0..Len(q) -> SUBSET Session] :
          v[0] = S /\ v[Len(q)] = T /\ \A i \in 1..Len(q) : Tells(q[i], v[i - 1], v[i])
  BY DEF Leads
<1>2. Len(q) \in Nat /\ Len(q) > 0 /\ Len(Tail(q)) = Len(q) - 1 /\ Head(q) = q[1]
  OBVIOUS
<1>3. \A i \in 1..Len(Tail(q)) : Tail(q)[i] = q[i + 1]
  OBVIOUS
<1>4. v[1] \in SUBSET Session /\ Tells(Head(q), S, v[1])
  <2>1. 1 \in 1..Len(q) /\ 1 - 1 = 0 /\ 1 \in 0..Len(q)
    BY <1>2
  <2>2. Tells(q[1], v[1 - 1], v[1])
    BY <1>1, <2>1
  <2> QED
    BY <1>1, <1>2, <2>1, <2>2
<1> DEFINE w == [i \in 0..Len(Tail(q)) |-> v[i + 1]]
<1>5. w \in [0..Len(Tail(q)) -> SUBSET Session]
  BY <1>2
<1>6. w[0] = v[1] /\ w[Len(Tail(q))] = T
  BY <1>1, <1>2
<1>7. ASSUME NEW i \in 1..Len(Tail(q)) PROVE Tells(Tail(q)[i], w[i - 1], w[i])
  <2>1. i + 1 \in 1..Len(q) /\ (i + 1) - 1 = i /\ w[i - 1] = v[i] /\ w[i] = v[i + 1]
    BY <1>2
  <2>2. Tells(q[i + 1], v[(i + 1) - 1], v[i + 1])
    BY <1>1, <2>1
  <2> QED
    BY <1>3, <2>1, <2>2
<1>8. Leads(Tail(q), v[1], T)
  BY <1>5, <1>6, <1>7 DEF Leads
<1> QED
  BY <1>4, <1>8

\* A pdu put at the end leads on from where the others did.
LEMMA LeadsAppend ==
  ASSUME NEW q \in Seq(Pdu), NEW p \in Pdu, NEW S, NEW T, NEW R \in SUBSET Session,
         Leads(q, S, T), Tells(p, T, R)
  PROVE  Leads(Append(q, p), S, R)
<1>1. PICK v \in [0..Len(q) -> SUBSET Session] :
          v[0] = S /\ v[Len(q)] = T /\ \A i \in 1..Len(q) : Tells(q[i], v[i - 1], v[i])
  BY DEF Leads
<1> DEFINE n == Len(q)
           a == Append(q, p)
           w == [i \in 0..Len(a) |-> IF i = n + 1 THEN R ELSE v[i]]
<1>2. n \in Nat /\ Len(a) = n + 1 /\ a[n + 1] = p /\ \A i \in 1..n : a[i] = q[i]
  OBVIOUS
<1>3. w \in [0..Len(a) -> SUBSET Session]
  BY <1>2
<1>4. w[0] = S /\ w[Len(a)] = R
  BY <1>1, <1>2
<1>5. ASSUME NEW i \in 1..Len(a) PROVE Tells(a[i], w[i - 1], w[i])
  <2>1. CASE i = n + 1
    <3>1. w[i - 1] = T /\ w[i] = R /\ a[i] = p
      BY <1>1, <1>2, <2>1
    <3> QED
      BY <3>1
  <2>2. CASE i # n + 1
    <3>1. i \in 1..n /\ w[i - 1] = v[i - 1] /\ w[i] = v[i] /\ a[i] = q[i]
      BY <1>2, <2>2
    <3> QED
      BY <1>1, <3>1
  <2> QED
    BY <2>1, <2>2
<1> QED
  BY <1>3, <1>4, <1>5 DEF Leads

-----------------------------------------------------------------------------
(* Counting the sessions that the links have told of *)

KnownIn(t, u, c) == {p \in Links \X Session : p[2] \in t[p[1]] /\ p[2].uid = u /\ p[2].type = c}


LEMMA SessionsFinite ==
  ASSUME NEW S \in SUBSET Session, NEW u, NEW c
  PROVE  /\ IsFiniteSet(SessionsOf(S, u, c)) /\ Cardinality(SessionsOf(S, u, c)) \in Nat
         /\ (\A s \in S : s.uid # u) => Cardinality(SessionsOf(S, u, c)) = 0
<1>1. SessionsOf(S, u, c) \in SUBSET Session
  BY DEF SessionsOf
<1>2. IsFiniteSet(SessionsOf(S, u, c)) /\ Cardinality(SessionsOf(S, u, c)) \in Nat
  BY <1>1, FiniteAssumption, FS_Subset, FS_CardinalityType
<1>3. (\A s \in S : s.uid # u) => SessionsOf(S, u, c) = {}
  BY DEF SessionsOf
<1> QED
  BY <1>2, <1>3, FS_EmptySet

LEMMA KnownFinite ==
  ASSUME NEW t, NEW u, NEW c
  PROVE  IsFiniteSet(KnownIn(t, u, c)) /\ Cardinality(KnownIn(t, u, c)) \in Nat
<1>1. IsFiniteSet(Links \X Session)
  BY FiniteAssumption, FS_Product
<1>2. KnownIn(t, u, c) \in SUBSET (Links \X Session)
  BY DEF KnownIn
<1> QED
  BY <1>1, <1>2, FS_Subset, FS_CardinalityType

\* A list on a link that told of nothing adds its own sessions.
LEMMA KnownAfterList ==
  ASSUME NEW t \in [Links -> SUBSET Session], NEW l \in Links, t[l] = {},
         NEW S \in SUBSET Session, NEW after, after[l] = S,
         \A k \in Links \ {l} : after[k] = t[k], NEW u, NEW c
  PROVE  Cardinality(KnownIn(after, u, c))
             = Cardinality(KnownIn(t, u, c)) + Cardinality(SessionsOf(S, u, c))
<1> DEFINE new == {l} \X SessionsOf(S, u, c)
<1>1. KnownIn(after, u, c) = KnownIn(t, u, c) \union new
  BY DEF KnownIn, SessionsOf
<1>2. KnownIn(t, u, c) \intersect new = {}
  BY DEF KnownIn, SessionsOf
<1>3. IsFiniteSet(new) /\ Cardinality(new) = Cardinality(SessionsOf(S, u, c))
  <2>1. IsFiniteSet({l}) /\ Cardinality({l}) = 1
    BY FS_Singleton
  <2>2. IsFiniteSet(SessionsOf(S, u, c)) /\ Cardinality(SessionsOf(S, u, c)) \in Nat
    BY SessionsFinite
  <2>3. IsFiniteSet(new) /\ Cardinality(new) = 1 * Cardinality(SessionsOf(S, u, c))
    BY <2>1, <2>2, FS_Product
  <2> QED
    BY <2>2, <2>3
<1>4. Cardinality(KnownIn(t, u, c) \union new)
        = Cardinality(KnownIn(t, u, c)) + Cardinality(new) - Cardinality({})
  BY <1>2, <1>3, KnownFinite, FS_Union
<1>5. /\ Cardinality(KnownIn(t, u, c)) \in Nat /\ Cardinality(SessionsOf(S, u, c)) \in Nat
      /\ Cardinality({}) = 0
  BY KnownFinite, SessionsFinite, FS_EmptySet
<1> HIDE DEF new
<1>6. Cardinality(KnownIn(t, u, c) \union new)
        = Cardinality(KnownIn(t, u, c)) + Cardinality(SessionsOf(S, u, c))
  BY <1>3, <1>4, <1>5
<1> QED
  BY <1>1, <1>6

\* An ONLINE update of a session that is not known adds one to its user and type.
LEMMA KnownAfterOnline ==
  ASSUME NEW t \in [Links -> SUBSET Session], NEW l \in Links, NEW s \in Session, s \notin t[l],
         NEW after, after[l] = t[l] \union {s}, \A k \in Links \ {l} : after[k] = t[k], NEW u, NEW c
  PROVE  Cardinality(KnownIn(after, u, c))
             = Cardinality(KnownIn(t, u, c)) + (IF s.uid = u /\ s.type = c THEN 1 ELSE 0)
<1> DEFINE K == KnownIn(t, u, c)
<1>1. IsFiniteSet(K) /\ Cardinality(K) \in Nat
  BY KnownFinite
<1>2. CASE s.uid = u /\ s.type = c
  <2> DEFINE e == <<l, s>>
  <2>1. KnownIn(after, u, c) = K \union {e} /\ e \notin K
    BY <1>2 DEF KnownIn
  <2> HIDE DEF e, K
  <2>2. Cardinality(K \union {e}) = Cardinality(K) + 1
    BY <1>1, <2>1, FS_AddElement
  <2> QED
    BY <1>2, <2>1, <2>2 DEF K
<1>3. CASE ~(s.uid = u /\ s.type = c)
  <2>1. KnownIn(after, u, c) = K
    BY <1>3 DEF KnownIn
  <2> QED
    BY <1>1, <1>3, <2>1
<1> QED
  BY <1>2, <1>3

\* An OFFLINE update of a session that is known takes one from its user and type.
LEMMA KnownAfterOffline ==
  ASSUME NEW t \in [Links -> SUBSET Session], NEW l \in Links, NEW s \in Session, s \in t[l],
         NEW after, after[l] = t[l] \ {s}, \A k \in Links \ {l} : after[k] = t[k], NEW u, NEW c
  PROVE  /\ Cardinality(KnownIn(after, u, c))
                = Cardinality(KnownIn(t, u, c)) - (IF s.uid = u /\ s.type = c THEN 1 ELSE 0)
         /\ s.uid = u /\ s.type = c => Cardinality(KnownIn(t, u, c)) > 0
<1> DEFINE K == KnownIn(t, u, c)
<1>1. IsFiniteSet(K) /\ Cardinality(K) \in Nat
  BY KnownFinite
<1>2. CASE s.uid = u /\ s.type = c
  <2> DEFINE e == <<l, s>>
  <2>1. KnownIn(after, u, c) = K \ {e} /\ e \in K
    BY <1>2 DEF KnownIn
  <2> HIDE DEF e, K
  <2>2. Cardinality(K \ {e}) = Cardinality(K) - 1
    BY <1>1, <2>1, FS_RemoveElement
  <2>3. Cardinality(K) # 0
    BY <1>1, <2>1, FS_EmptySet
  <2>4. Cardinality(K) > 0
    BY <1>1, <2>3
  <2> QED
    BY <1>2, <2>1, <2>2, <2>4 DEF K
<1>3. CASE ~(s.uid = u /\ s.type = c)
  <2>1. KnownIn(after, u, c) = K
    BY <1>3 DEF KnownIn
  <2> QED
    BY <1>1, <1>3, <2>1
<1> QED
  BY <1>2, <1>3

\* A link that told of nothing any more takes no one else's sessions with it.
LEMMA KnownAfterClose ==
  ASSUME NEW t \in [Links -> SUBSET Session], NEW l \in Links,
         NEW after, after[l] = {}, \A k \in Links \ {l} : after[k] = t[k], NEW u, NEW c
  PROVE  Cardinality(KnownIn(after, u, c)) <= Cardinality(KnownIn(t, u, c))
<1>1. KnownIn(after, u, c) \in SUBSET KnownIn(t, u, c)
  BY DEF KnownIn
<1> QED
  BY <1>1, KnownFinite, FS_Subset

-----------------------------------------------------------------------------
(* The links: LinkInv *)

LEMMA InitIInv == Init => IInv
<1> SUFFICES ASSUME Init PROVE IInv
  OBVIOUS
<1>1. TypeOK
  BY DEF Init, TypeOK, NoTypes
<1>2. LinkSound /\ FirstLists
  BY DEF Init, LinkSound, FirstLists, SessionsOn
<1>3. UnderWay
  <2> SUFFICES ASSUME NEW l \in Links
               PROVE  \E last \in SUBSET Session :
                          /\ Leads(queue[l], told[l], last)
                          /\ l \in msg_open \intersect g_route_conn_map => last = SessionsOn(peer[l])
    BY DEF UnderWay
  <2>1. queue[l] = <<>> /\ told[l] = {} /\ msg_open = {} /\ {} \in SUBSET Session
    BY DEF Init
  <2>2. Leads(<<>>, {}, {})
    BY <2>1, LeadsEmpty
  <2> QED
    BY <2>1, <2>2
<1>4. TableSound
  BY DEF Init, TableSound
<1>5. NeverUndercounted
  <2> SUFFICES ASSUME NEW u \in UserIds, NEW c \in ClientTypes
               PROVE  types[u][c] = 0 /\ Cardinality(Known(u, c)) = 0
    BY DEF NeverUndercounted
  <2>1. Known(u, c) = {}
    BY DEF Init, Known
  <2> QED
    BY <2>1, FS_EmptySet DEF Init, NoTypes
<1>6. NoticesAgree
  BY TypesAssumption DEF Init, NoticesAgree, NoTypes
<1> QED
  BY <1>1, <1>2, <1>3, <1>4, <1>5, <1>6 DEF IInv, LinkInv, TableInv

\* An update that is sent on every link that is up tells of what became of the session.
LEMMA SendKeepsLinkInv ==
  ASSUME LinkInv, NEW m \in Servers, NEW s \in Session, s.srv = m,
         NEW cmd \in {"online", "offline"}, SendUpdate(m, cmd, s),
         cmd = "online" => /\ s \notin session /\ session' = session \union {s}
                           /\ m \in dropped \/ \E l \in msg_open : peer[l] = m,
         cmd = "offline" => s \in session /\ session' = session \ {s},
         UNCHANGED <<peer, msg_open, g_route_conn_map, tableVars, told, dropped, noticeVars>>
  PROVE  LinkInv'
<1> DEFINE up == {l \in msg_open \intersect g_route_conn_map : peer[l] = m}
           p  == [cmd |-> cmd, of |-> {s}]
<1>1. queue' = [l \in Links |-> IF l \in up THEN Append(queue[l], p) ELSE queue[l]]
  BY DEF SendUpdate
<1>2. p \in Pdu /\ p.cmd = cmd /\ p.of = {s} /\ cmd # "info"
  BY DEF Pdu
<1>3. queue \in [Links -> Seq(Pdu)]
  BY DEF LinkInv, TypeOK, Pdu
<1>4. session' \subseteq Session /\ session \subseteq Session
  BY DEF LinkInv, TypeOK
<1>5. TypeOK'
  <2>1. queue' \in [Links -> Seq(Pdu)]
    BY <1>1, <1>2, <1>3
  <2> QED
    BY <1>4, <2>1 DEF LinkInv, TypeOK, Pdu, tableVars, noticeVars
<1>6. LinkSound'
  BY <1>1 DEF LinkInv, LinkSound
<1>7. UnderWay'
  <2> SUFFICES ASSUME NEW l \in Links
               PROVE  \E last \in SUBSET Session :
                          /\ Leads(queue'[l], told'[l], last)
                          /\ l \in msg_open' \intersect g_route_conn_map' => last = SessionsOn(peer[l])'
    BY DEF UnderWay
  <2>1. PICK last \in SUBSET Session :
            /\ Leads(queue[l], told[l], last)
            /\ l \in msg_open \intersect g_route_conn_map => last = SessionsOn(peer[l])
    BY DEF LinkInv, UnderWay
  <2>2. CASE l \in up
    <3> DEFINE new == {t \in session' : t.srv = m}
    <3>1. last = {t \in session : t.srv = m}
      BY <2>1, <2>2 DEF SessionsOn
    <3>2. Tells(p, last, new)
      <4>1. CASE cmd = "online"
        <5>1. s \notin last /\ new = last \union {s}
          BY <3>1, <4>1
        <5> QED
          BY <1>2, <4>1, <5>1 DEF Tells
      <4>2. CASE cmd = "offline"
        <5>1. s \in last /\ new = last \ {s}
          BY <3>1, <4>2
        <5> QED
          BY <1>2, <4>2, <5>1 DEF Tells
      <4> QED
        BY <4>1, <4>2
    <3>3. new \in SUBSET Session
      BY <1>4
    <3>4. Leads(Append(queue[l], p), told[l], new)
      <4> HIDE DEF new, p
      <4> QED
        BY <1>2, <1>3, <2>1, <3>2, <3>3, LeadsAppend
    <3>5. new = SessionsOn(peer[l])' /\ queue'[l] = Append(queue[l], p) /\ told'[l] = told[l]
      BY <1>1, <2>2 DEF SessionsOn
    <3> QED
      BY <3>3, <3>4, <3>5
  <2>3. CASE l \notin up
    <3>1. queue'[l] = queue[l] /\ told'[l] = told[l]
      BY <1>1, <2>3
    <3>2. l \in msg_open' \intersect g_route_conn_map' => SessionsOn(peer[l])' = SessionsOn(peer[l])
      BY <2>3 DEF SessionsOn
    <3> QED
      BY <2>1, <3>1, <3>2
  <2> QED
    BY <2>2, <2>3
<1>8. FirstLists'
  <2>1. ASSUME NEW l \in Links, peer[l] \notin dropped, NEW i \in 1..Len(queue'[l]),
               queue'[l][i].cmd = "info"
        PROVE  queue'[l][i].of = {}
    <3>1. CASE i \in 1..Len(queue[l]) /\ queue'[l][i] = queue[l][i]
      BY <2>1, <3>1 DEF LinkInv, FirstLists
    <3>2. CASE queue'[l][i] = p
      BY <1>2, <2>1, <3>2
    <3>3. queue[l] \in Seq(Pdu) /\ (queue'[l] = queue[l] \/ queue'[l] = Append(queue[l], p))
      BY <1>1, <1>3
    <3>4. (i \in 1..Len(queue[l]) /\ queue'[l][i] = queue[l][i]) \/ queue'[l][i] = p
      <4> HIDE DEF p
      <4>1. i \in 1..Len(queue'[l])
        OBVIOUS
      <4> QED
        BY <1>2, <3>3, <4>1
    <3> QED
      BY <3>1, <3>2, <3>4
  <2>2. ASSUME NEW k \in Servers \ dropped, \A l \in msg_open : peer[l] # k
        PROVE  SessionsOn(k)' = {}
    <3>1. SessionsOn(k) = {}
      BY <2>2 DEF LinkInv, FirstLists
    <3> QED
      BY <2>2, <3>1 DEF SessionsOn
  <2> QED
    BY <2>1, <2>2 DEF FirstLists
<1> QED
  BY <1>5, <1>6, <1>7, <1>8 DEF LinkInv

\* What the first pdu of a link makes of what it told of, and what is left then.
LEMMA HeadTells ==
  ASSUME LinkInv, NEW l \in Links, queue[l] # <<>>
  PROVE  \E R, last \in SUBSET Session :
             /\ Tells(Head(queue[l]), told[l], R)
             /\ Leads(Tail(queue[l]), R, last)
             /\ l \in msg_open \intersect g_route_conn_map => last = SessionsOn(peer[l])
<1>1. PICK last \in SUBSET Session :
          /\ Leads(queue[l], told[l], last)
          /\ l \in msg_open \intersect g_route_conn_map => last = SessionsOn(peer[l])
  BY DEF LinkInv, UnderWay
<1>2. queue[l] \in Seq(Pdu)
  BY DEF LinkInv, TypeOK, Pdu
<1>3. \E R \in SUBSET Session : Tells(Head(queue[l]), told[l], R) /\ Leads(Tail(queue[l]), R, last)
  BY <1>1, <1>2, LeadsTail
<1> QED
  BY <1>1, <1>3

LEMMA TakeKeepsLinkInv ==
  ASSUME LinkInv, NEW l \in g_route_conn_map, queue[l] # <<>>, Take(l),
         NEW R \in SUBSET Session, NEW last \in SUBSET Session,
         Leads(Tail(queue[l]), R, last),
         l \in msg_open \intersect g_route_conn_map => last = SessionsOn(peer[l]),
         told' = [told EXCEPT ![l] = R],
         conns' \in [UserIds -> SUBSET Links], types' \in [UserIds -> [ClientTypes -> Nat]],
         status_notice' \subseteq UserIds, pc_notice' \subseteq UserIds
  PROVE  LinkInv'
<1>1. queue \in [Links -> Seq(Pdu)] /\ l \in Links
  BY DEF LinkInv, TypeOK, Pdu
<1>2. /\ queue' = [queue EXCEPT ![l] = Tail(queue[l])]
      /\ UNCHANGED <<session, peer, msg_open, g_route_conn_map, dropped>>
  BY DEF Take
<1>3. /\ Tail(queue[l]) \in Seq(Pdu) /\ Len(Tail(queue[l])) = Len(queue[l]) - 1
      /\ \A i \in 1..Len(Tail(queue[l])) : i + 1 \in 1..Len(queue[l]) /\ Tail(queue[l])[i] = queue[l][i + 1]
  <2>1. queue[l] \in Seq(Pdu)
    BY <1>1
  <2> QED
    BY <2>1
<1>4. TypeOK'
  <2>1. queue' \in [Links -> Seq(Pdu)] /\ told' \in [Links -> SUBSET Session]
    BY <1>1, <1>2, <1>3 DEF LinkInv, TypeOK
  <2> QED
    BY <1>2, <2>1 DEF LinkInv, TypeOK, Pdu
<1>5. LinkSound'
  BY <1>1, <1>2 DEF LinkInv, LinkSound
<1>6. UnderWay'
  <2> SUFFICES ASSUME NEW k \in Links
               PROVE  \E final \in SUBSET Session :
                          /\ Leads(queue'[k], told'[k], final)
                          /\ k \in msg_open' \intersect g_route_conn_map' => final = SessionsOn(peer[k])'
    BY DEF UnderWay
  <2>1. SessionsOn(peer[k])' = SessionsOn(peer[k])
    BY <1>2 DEF SessionsOn
  <2>2. CASE k = l
    <3>1. queue'[k] = Tail(queue[l]) /\ told'[k] = R
      BY <1>1, <1>2, <2>2 DEF LinkInv, TypeOK
    <3> QED
      BY <1>2, <2>1, <2>2, <3>1
  <2>3. CASE k # l
    <3>1. queue'[k] = queue[k] /\ told'[k] = told[k]
      BY <1>1, <1>2, <2>3 DEF LinkInv, TypeOK
    <3> QED
      BY <1>2, <2>1, <3>1 DEF LinkInv, UnderWay
  <2> QED
    BY <2>2, <2>3
<1>7. FirstLists'
  <2>1. ASSUME NEW k \in Links, peer[k] \notin dropped, NEW i \in 1..Len(queue'[k]),
               queue'[k][i].cmd = "info"
        PROVE  queue'[k][i].of = {}
    <3>1. CASE k = l
      <4>1. queue'[k] = Tail(queue[l])
        BY <1>1, <1>2, <3>1
      <4>2. i + 1 \in 1..Len(queue[l]) /\ queue'[k][i] = queue[l][i + 1]
        BY <1>3, <2>1, <4>1
      <4> QED
        BY <2>1, <3>1, <4>2 DEF LinkInv, FirstLists
    <3>2. CASE k # l
      BY <1>1, <1>2, <2>1, <3>2 DEF LinkInv, FirstLists
    <3> QED
      BY <3>1, <3>2
  <2>2. ASSUME NEW k \in Servers \ dropped, \A j \in msg_open : peer[j] # k
        PROVE  SessionsOn(k)' = {}
    BY <1>2, <2>2 DEF LinkInv, FirstLists, SessionsOn
  <2> QED
    BY <1>2, <2>1, <2>2 DEF FirstLists
<1> QED
  BY <1>4, <1>5, <1>6, <1>7 DEF LinkInv

-----------------------------------------------------------------------------
(* The table: TableInv *)

\* TableInv when the table, what was told and the broadcasts stay.
LEMMA TableStays ==
  ASSUME TableInv, UNCHANGED <<tableVars, told, noticeVars>>,
         g_route_conn_map \subseteq g_route_conn_map', dropped \subseteq dropped'
  PROVE  TableInv'
<1>1. TableSound'
  BY DEF TableInv, TableSound, tableVars
<1>2. NeverUndercounted'
  <2>1. \A u, c : Known(u, c)' = Known(u, c)
    BY DEF Known
  <2> QED
    BY <2>1 DEF TableInv, NeverUndercounted, tableVars
<1>3. NoticesAgree'
  BY DEF TableInv, NoticesAgree, tableVars, noticeVars
<1> QED
  BY <1>1, <1>2, <1>3 DEF TableInv

LEMMA OnlineUserInfoKeepsIInv ==
  ASSUME IInv, NEW l \in Links, OnlineUserInfo(l)
  PROVE  IInv'
<1> DEFINE S == Head(queue[l]).of
<1>1. /\ l \in g_route_conn_map /\ queue[l] # <<>> /\ Head(queue[l]).cmd = "info" /\ Take(l)
      /\ conns' = [u \in UserIds |-> IF \E s \in S : s.uid = u THEN conns[u] \union {l} ELSE conns[u]]
      /\ types' = [u \in UserIds |-> [c \in ClientTypes |->
                       types[u][c] + Cardinality(SessionsOf(S, u, c))]]
      /\ told' = [told EXCEPT ![l] = told[l] \union S]
      /\ UNCHANGED noticeVars
  BY DEF OnlineUserInfo, Head1
<1>2. PICK R, last \in SUBSET Session :
          /\ Tells(Head(queue[l]), told[l], R)
          /\ Leads(Tail(queue[l]), R, last)
          /\ l \in msg_open \intersect g_route_conn_map => last = SessionsOn(peer[l])
  BY <1>1, HeadTells DEF IInv
<1>3. told[l] = {} /\ R = S
  BY <1>1, <1>2 DEF Tells
<1>4. S \in SUBSET Session /\ told' = [told EXCEPT ![l] = S]
  BY <1>1, <1>3
<1> HIDE DEF S
<1>5. types \in [UserIds -> [ClientTypes -> Nat]] /\ conns \in [UserIds -> SUBSET Links]
  BY DEF IInv, LinkInv, TypeOK
<1>6. /\ conns' \in [UserIds -> SUBSET Links] /\ types' \in [UserIds -> [ClientTypes -> Nat]]
      /\ status_notice' \subseteq UserIds /\ pc_notice' \subseteq UserIds
  <2>1. \A u \in UserIds, c \in ClientTypes :
            types[u][c] \in Nat /\ Cardinality(SessionsOf(S, u, c)) \in Nat
    BY <1>4, <1>5, SessionsFinite
  <2> QED
    BY <1>1, <1>5, <2>1 DEF noticeVars, IInv, LinkInv, TypeOK
<1>7. LinkInv'
  BY <1>1, <1>2, <1>3, <1>4, <1>6, TakeKeepsLinkInv DEF IInv
<1>8. TableSound'
  <2> SUFFICES ASSUME NEW u \in UserIds
               PROVE  /\ conns'[u] \subseteq g_route_conn_map'
                      /\ conns'[u] = {} => types'[u] = NoTypes
                      /\ \A k \in Links : (\E s \in told'[k] : s.uid = u) => k \in conns'[u]
    BY DEF TableSound
  <2>1. conns'[u] \subseteq g_route_conn_map'
    BY <1>1 DEF Take, IInv, TableInv, TableSound
  <2>2. ASSUME conns'[u] = {} PROVE types'[u] = NoTypes
    <3>1. conns[u] = {} /\ \A s \in S : s.uid # u
      BY <1>1, <2>2
    <3>2. \A c \in ClientTypes : Cardinality(SessionsOf(S, u, c)) = 0
      BY <1>4, <3>1, SessionsFinite
    <3>3. types[u] = NoTypes
      BY <3>1 DEF IInv, TableInv, TableSound
    <3> QED
      BY <1>1, <3>2, <3>3 DEF NoTypes
  <2>3. ASSUME NEW k \in Links, NEW s \in told'[k], s.uid = u PROVE k \in conns'[u]
    <3>1. CASE k = l
      BY <1>1, <1>4, <2>3, <3>1 DEF IInv, LinkInv, TypeOK
    <3>2. CASE k # l
      BY <1>1, <1>4, <2>3, <3>2 DEF IInv, LinkInv, TypeOK, TableInv, TableSound
    <3> QED
      BY <3>1, <3>2
  <2> QED
    BY <2>1, <2>2, <2>3
<1>9. NeverUndercounted'
  <2> SUFFICES ASSUME NEW u \in UserIds, NEW c \in ClientTypes
               PROVE  /\ types'[u][c] >= Cardinality(Known(u, c)')
                      /\ dropped' = {} => types'[u][c] = Cardinality(Known(u, c)')
    BY DEF NeverUndercounted
  <2>1. Cardinality(KnownIn(told', u, c))
          = Cardinality(KnownIn(told, u, c)) + Cardinality(SessionsOf(S, u, c))
    <3>1. told \in [Links -> SUBSET Session] /\ told[l] = {} /\ S \in SUBSET Session
      BY <1>3, <1>4 DEF IInv, LinkInv, TypeOK
    <3>2. told'[l] = S /\ \A k \in Links \ {l} : told'[k] = told[k]
      BY <1>4, <3>1
    <3> QED
      BY <3>1, <3>2, KnownAfterList
  <2>2. Known(u, c) = KnownIn(told, u, c) /\ Known(u, c)' = KnownIn(told', u, c)
    BY DEF Known, KnownIn
  <2>3. types'[u][c] = types[u][c] + Cardinality(SessionsOf(S, u, c)) /\ dropped' = dropped
    BY <1>1 DEF Take
  <2>4. /\ Cardinality(KnownIn(told, u, c)) \in Nat /\ Cardinality(SessionsOf(S, u, c)) \in Nat
        /\ types[u][c] \in Nat
    BY <1>4, <1>5, KnownFinite, SessionsFinite
  <2>5. types[u][c] >= Cardinality(Known(u, c)) /\ (dropped = {} => types[u][c] = Cardinality(Known(u, c)))
    BY DEF IInv, TableInv, NeverUndercounted
  <2> QED
    BY <2>1, <2>2, <2>3, <2>4, <2>5
<1>10. NoticesAgree'
  <2> SUFFICES ASSUME dropped = {} PROVE types' = types
    BY <1>1 DEF Take, noticeVars, IInv, TableInv, NoticesAgree
  <2>1. S = {}
    <3>1. queue[l] \in Seq(Pdu) /\ peer[l] \notin dropped
      BY DEF IInv, LinkInv, TypeOK, Pdu
    <3>2. 1 \in 1..Len(queue[l]) /\ Head(queue[l]) = queue[l][1]
      BY <1>1, <3>1
    <3> QED
      BY <1>1, <3>1, <3>2 DEF IInv, LinkInv, FirstLists, S
  <2>2. \A u \in UserIds, c \in ClientTypes : Cardinality(SessionsOf(S, u, c)) = 0
    BY <1>4, <2>1, SessionsFinite
  <2>3. \A u \in UserIds : types'[u] = types[u]
    BY <1>1, <1>5, <2>2
  <2> QED
    BY <1>5, <1>6, <2>3
<1> QED
  BY <1>7, <1>8, <1>9, <1>10 DEF IInv, TableInv

LEMMA UserOnlineKeepsIInv ==
  ASSUME IInv, NEW l \in Links, UserOnline(l)
  PROVE  IInv'
<1>1. l \in g_route_conn_map /\ queue[l] # <<>> /\ Head(queue[l]).cmd = "online" /\ Take(l)
  BY DEF UserOnline, Head1
<1>2. PICK R, last \in SUBSET Session :
          /\ Tells(Head(queue[l]), told[l], R)
          /\ Leads(Tail(queue[l]), R, last)
          /\ l \in msg_open \intersect g_route_conn_map => last = SessionsOn(peer[l])
  BY <1>1, HeadTells DEF IInv
<1>3. PICK s \in Session : Head(queue[l]).of = {s} /\ s \notin told[l] /\ R = told[l] \union {s}
  BY <1>1, <1>2 DEF Tells
<1> DEFINE v == s.uid
           d == s.type
<1>4. v \in UserIds /\ d \in ClientTypes
  BY DEF Session
<1> HIDE DEF v, d
<1>5. /\ conns \in [UserIds -> SUBSET Links] /\ types \in [UserIds -> [ClientTypes -> Nat]]
      /\ told \in [Links -> SUBSET Session]
  BY DEF IInv, LinkInv, TypeOK
<1>6. /\ conns' = [conns EXCEPT ![v] = conns[v] \union {l}]
      /\ types' = [types EXCEPT ![v] = [types[v] EXCEPT ![d] = types[v][d] + 1]]
      /\ told' = [told EXCEPT ![l] = told[l] \union {s}]
      /\ status_notice' = IF d \in PC THEN status_notice \union {v} ELSE status_notice
      /\ pc_notice' = IF \E c \in PC : types'[v][c] > 0 THEN pc_notice \union {v} ELSE pc_notice
  BY <1>3 DEF UserOnline, AddClientType, IsPCClientLogin, v, d
<1>7. \A u \in UserIds, c \in ClientTypes :
          types'[u][c] = types[u][c] + (IF v = u /\ d = c THEN 1 ELSE 0)
  BY <1>4, <1>5, <1>6
<1>8. /\ conns' \in [UserIds -> SUBSET Links] /\ types' \in [UserIds -> [ClientTypes -> Nat]]
      /\ status_notice' \subseteq UserIds /\ pc_notice' \subseteq UserIds
  <2>1. [types[v] EXCEPT ![d] = types[v][d] + 1] \in [ClientTypes -> Nat]
    BY <1>4, <1>5
  <2> QED
    BY <1>4, <1>5, <1>6, <2>1 DEF IInv, LinkInv, TypeOK
<1>9. LinkInv'
  BY <1>1, <1>2, <1>3, <1>6, <1>8, TakeKeepsLinkInv DEF IInv
<1>10. TableSound'
  <2> SUFFICES ASSUME NEW u \in UserIds
               PROVE  /\ conns'[u] \subseteq g_route_conn_map'
                      /\ conns'[u] = {} => types'[u] = NoTypes
                      /\ \A k \in Links : (\E t \in told'[k] : t.uid = u) => k \in conns'[u]
    BY DEF TableSound
  <2>1. conns'[u] \subseteq g_route_conn_map'
    BY <1>1, <1>5, <1>6 DEF Take, IInv, TableInv, TableSound
  <2>2. ASSUME conns'[u] = {} PROVE types'[u] = NoTypes
    <3>1. u # v
      BY <1>4, <1>5, <1>6, <2>2
    <3> QED
      BY <1>5, <1>6, <2>2, <3>1 DEF IInv, TableInv, TableSound
  <2>3. ASSUME NEW k \in Links, NEW t \in told'[k], t.uid = u PROVE k \in conns'[u]
    <3>1. CASE t \in told[k]
      BY <1>5, <1>6, <2>3, <3>1 DEF IInv, TableInv, TableSound
    <3>2. CASE t \notin told[k]
      <4>1. k = l /\ u = v
        BY <1>5, <1>6, <2>3, <3>2 DEF v
      <4> QED
        BY <1>4, <1>5, <1>6, <4>1
    <3> QED
      BY <3>1, <3>2
  <2> QED
    BY <2>1, <2>2, <2>3
<1>11. NeverUndercounted'
  <2> SUFFICES ASSUME NEW u \in UserIds, NEW c \in ClientTypes
               PROVE  /\ types'[u][c] >= Cardinality(Known(u, c)')
                      /\ dropped' = {} => types'[u][c] = Cardinality(Known(u, c)')
    BY DEF NeverUndercounted
  <2>1. told'[l] = told[l] \union {s} /\ \A k \in Links \ {l} : told'[k] = told[k]
    BY <1>5, <1>6
  <2>2. Cardinality(KnownIn(told', u, c))
          = Cardinality(KnownIn(told, u, c)) + (IF v = u /\ d = c THEN 1 ELSE 0)
    BY <1>3, <1>5, <2>1, KnownAfterOnline DEF v, d
  <2>3. Known(u, c) = KnownIn(told, u, c) /\ Known(u, c)' = KnownIn(told', u, c)
    BY DEF Known, KnownIn
  <2>4. types[u][c] >= Cardinality(Known(u, c)) /\ (dropped = {} => types[u][c] = Cardinality(Known(u, c)))
    BY DEF IInv, TableInv, NeverUndercounted
  <2>5. Cardinality(KnownIn(told, u, c)) \in Nat /\ types[u][c] \in Nat /\ dropped' = dropped
    BY <1>1, <1>5, KnownFinite DEF Take
  <2> QED
    BY <1>7, <2>2, <2>3, <2>4, <2>5
<1>12. NoticesAgree'
  <2> SUFFICES ASSUME dropped = {}, NEW u \in UserIds
               PROVE  /\ u \in status_notice' <=> \E c \in PC : types'[u][c] > 0
                      /\ u \in pc_notice' <=> \E c \in PC : types'[u][c] > 0
    BY <1>1 DEF Take, NoticesAgree
  <2>1. /\ u \in status_notice <=> \E c \in PC : types[u][c] > 0
        /\ u \in pc_notice <=> \E c \in PC : types[u][c] > 0
    BY DEF IInv, TableInv, NoticesAgree
  <2>2. \A c \in PC : types'[u][c] > 0 <=> types[u][c] > 0 \/ (v = u /\ d = c)
    <3> SUFFICES ASSUME NEW c \in PC
                 PROVE  types'[u][c] > 0 <=> types[u][c] > 0 \/ (v = u /\ d = c)
      OBVIOUS
    <3>1. c \in ClientTypes /\ types[u][c] \in Nat
      BY <1>5, TypesAssumption
    <3> QED
      BY <1>7, <3>1
  <2>3. CASE u = v
    BY <1>6, <2>1, <2>2, <2>3
  <2>4. CASE u # v
    BY <1>6, <2>1, <2>2, <2>4
  <2> QED
    BY <2>3, <2>4
<1> QED
  BY <1>9, <1>10, <1>11, <1>12 DEF IInv, TableInv

LEMMA UserOfflineKeepsIInv ==
  ASSUME IInv, NEW l \in Links, UserOffline(l)
  PROVE  IInv'
<1>1. l \in g_route_conn_map /\ queue[l] # <<>> /\ Head(queue[l]).cmd = "offline" /\ Take(l)
  BY DEF UserOffline, Head1
<1>2. PICK R, last \in SUBSET Session :
          /\ Tells(Head(queue[l]), told[l], R)
          /\ Leads(Tail(queue[l]), R, last)
          /\ l \in msg_open \intersect g_route_conn_map => last = SessionsOn(peer[l])
  BY <1>1, HeadTells DEF IInv
<1>3. PICK s \in Session : Head(queue[l]).of = {s} /\ s \in told[l] /\ R = told[l] \ {s}
  BY <1>1, <1>2 DEF Tells
<1> DEFINE v == s.uid
           d == s.type
           left == RemoveClientType(types[v], d)
<1>4. v \in UserIds /\ d \in ClientTypes
  BY DEF Session
<1>5. /\ conns \in [UserIds -> SUBSET Links] /\ types \in [UserIds -> [ClientTypes -> Nat]]
      /\ told \in [Links -> SUBSET Session]
  BY DEF IInv, LinkInv, TypeOK
<1>6. l \in conns[v]
  BY <1>3, <1>4 DEF IInv, TableInv, TableSound
<1>7. /\ types' = [types EXCEPT ![v] = left]
      /\ conns' = IF left = NoTypes THEN [conns EXCEPT ![v] = conns[v] \ {l}] ELSE conns
      /\ told' = [told EXCEPT ![l] = told[l] \ {s}]
      /\ status_notice' = IF d \in PC /\ (conns'[v] = {} \/ ~IsPCClientLogin(types'[v]))
                          THEN status_notice \ {v} ELSE status_notice
      /\ pc_notice' = IF conns'[v] = {} \/ (d \in PC /\ ~IsPCClientLogin(types'[v]))
                      THEN pc_notice \ {v} ELSE pc_notice
  BY <1>3, <1>6 DEF UserOffline
<1> HIDE DEF v, d
\* The count that is taken from holds the session.
<1>8. /\ types[v][d] > 0
      /\ Cardinality(KnownIn(told, v, d)) > 0
  <2>1. Cardinality(KnownIn(told, v, d)) > 0 /\ Cardinality(KnownIn(told, v, d)) \in Nat
    <3>1. IsFiniteSet(KnownIn(told, v, d)) /\ Cardinality(KnownIn(told, v, d)) \in Nat
      BY KnownFinite
    <3>2. <<l, s>> \in KnownIn(told, v, d)
      BY <1>3 DEF KnownIn, v, d
    <3>3. Cardinality(KnownIn(told, v, d)) # 0
      BY <3>1, <3>2, FS_EmptySet
    <3> QED
      BY <3>1, <3>3
  <2>2. types[v][d] >= Cardinality(Known(v, d)) /\ Known(v, d) = KnownIn(told, v, d) /\ types[v][d] \in Nat
    BY <1>4, <1>5 DEF IInv, TableInv, NeverUndercounted, Known, KnownIn
  <2> QED
    BY <2>1, <2>2
<1>9. left = [types[v] EXCEPT ![d] = types[v][d] - 1] /\ left \in [ClientTypes -> Nat]
  <2>1. types[v] \in [ClientTypes -> Nat] /\ types[v][d] \in Nat
    BY <1>4, <1>5
  <2> QED
    BY <1>4, <1>8, <2>1 DEF RemoveClientType
<1>10. \A u \in UserIds, c \in ClientTypes :
          types'[u][c] = types[u][c] - (IF v = u /\ d = c THEN 1 ELSE 0)
  BY <1>4, <1>5, <1>7, <1>9
<1>11. /\ conns' \in [UserIds -> SUBSET Links] /\ types' \in [UserIds -> [ClientTypes -> Nat]]
       /\ status_notice' \subseteq UserIds /\ pc_notice' \subseteq UserIds
  BY <1>4, <1>5, <1>7, <1>9 DEF IInv, LinkInv, TypeOK
<1>12. LinkInv'
  BY <1>1, <1>2, <1>3, <1>7, <1>11, TakeKeepsLinkInv DEF IInv
<1>13. NeverUndercounted'
  <2> SUFFICES ASSUME NEW u \in UserIds, NEW c \in ClientTypes
               PROVE  /\ types'[u][c] >= Cardinality(Known(u, c)')
                      /\ dropped' = {} => types'[u][c] = Cardinality(Known(u, c)')
    BY DEF NeverUndercounted
  <2>1. told'[l] = told[l] \ {s} /\ \A k \in Links \ {l} : told'[k] = told[k]
    BY <1>5, <1>7
  <2>2. Cardinality(KnownIn(told', u, c))
          = Cardinality(KnownIn(told, u, c)) - (IF v = u /\ d = c THEN 1 ELSE 0)
    BY <1>3, <1>5, <2>1, KnownAfterOffline DEF v, d
  <2>3. Known(u, c) = KnownIn(told, u, c) /\ Known(u, c)' = KnownIn(told', u, c)
    BY DEF Known, KnownIn
  <2>4. types[u][c] >= Cardinality(Known(u, c)) /\ (dropped = {} => types[u][c] = Cardinality(Known(u, c)))
    BY DEF IInv, TableInv, NeverUndercounted
  <2>5. Cardinality(KnownIn(told, u, c)) \in Nat /\ types[u][c] \in Nat /\ dropped' = dropped
    BY <1>1, <1>5, KnownFinite DEF Take
  <2> QED
    BY <1>10, <2>2, <2>3, <2>4, <2>5
<1>14. TableSound'
  <2> SUFFICES ASSUME NEW u \in UserIds
               PROVE  /\ conns'[u] \subseteq g_route_conn_map'
                      /\ conns'[u] = {} => types'[u] = NoTypes
                      /\ \A k \in Links : (\E t \in told'[k] : t.uid = u) => k \in conns'[u]
    BY DEF TableSound
  <2>1. conns'[u] \subseteq conns[u]
    BY <1>5, <1>7
  <2>2. conns'[u] \subseteq g_route_conn_map'
    BY <1>1, <2>1 DEF Take, IInv, TableInv, TableSound
  <2>3. CASE u # v
    <3>1. conns'[u] = conns[u] /\ types'[u] = types[u]
      BY <1>5, <1>7, <2>3
    <3>2. \A k \in Links : told'[k] \subseteq told[k]
      BY <1>5, <1>7
    <3> QED
      BY <2>2, <3>1, <3>2 DEF IInv, TableInv, TableSound
  <2>4. CASE u = v
    <3>1. types'[u] = left
      BY <1>5, <1>7, <2>4
    <3>2. CASE left # NoTypes
      <4>1. conns'[u] = conns[u] /\ l \in conns[u]
        BY <1>6, <1>7, <2>4, <3>2
      <4>2. \A k \in Links : told'[k] \subseteq told[k]
        BY <1>5, <1>7
      <4> QED
        BY <2>2, <4>1, <4>2 DEF IInv, TableInv, TableSound
    <3>3. CASE left = NoTypes
      <4>1. conns'[u] = conns[u] \ {l}
        BY <1>5, <1>7, <2>4, <3>3
      <4>2. ASSUME NEW k \in Links, NEW t \in told'[k], t.uid = u PROVE FALSE
        <5>1. t \in Session /\ t.type \in ClientTypes
          BY <1>5, <1>7, <4>2 DEF Session
        <5>2. <<k, t>> \in KnownIn(told', u, t.type)
          BY <4>2, <5>1 DEF KnownIn
        <5>3. Cardinality(KnownIn(told', u, t.type)) \in Nat /\ Cardinality(KnownIn(told', u, t.type)) # 0
          BY <5>2, KnownFinite, FS_EmptySet
        <5>4. types'[u][t.type] >= Cardinality(Known(u, t.type)')
          BY <1>13, <5>1 DEF NeverUndercounted
        <5>5. Known(u, t.type)' = KnownIn(told', u, t.type)
          BY DEF Known, KnownIn
        <5>6. types'[u][t.type] = 0
          BY <3>1, <3>3, <5>1 DEF NoTypes
        <5> QED
          BY <5>3, <5>4, <5>5, <5>6
      <4> QED
        BY <2>2, <3>1, <3>3, <4>2
    <3> QED
      BY <3>2, <3>3
  <2> QED
    BY <2>3, <2>4
<1>15. NoticesAgree'
  <2> SUFFICES ASSUME dropped = {}, NEW u \in UserIds
               PROVE  /\ u \in status_notice' <=> \E c \in PC : types'[u][c] > 0
                      /\ u \in pc_notice' <=> \E c \in PC : types'[u][c] > 0
    BY <1>1 DEF Take, NoticesAgree
  <2>1. /\ u \in status_notice <=> \E c \in PC : types[u][c] > 0
        /\ u \in pc_notice <=> \E c \in PC : types[u][c] > 0
    BY DEF IInv, TableInv, NoticesAgree
  <2>2. CASE u # v
    <3>1. types'[u] = types[u]
      BY <1>5, <1>7, <2>2
    <3> QED
      BY <1>7, <2>1, <2>2, <3>1
  <2>3. CASE u = v
    <3>1. IsPCClientLogin(types'[v]) <=> \E c \in PC : types'[u][c] > 0
      BY <2>3 DEF IsPCClientLogin
    <3>2. conns'[v] = {} => ~IsPCClientLogin(types'[v])
      <4>1. conns'[v] = {} => types'[v] = NoTypes
        BY <1>4, <1>14 DEF TableSound
      <4>2. \A c \in PC : NoTypes[c] = 0
        BY TypesAssumption DEF NoTypes
      <4> QED
        BY <4>1, <4>2 DEF IsPCClientLogin
    <3>3. d \notin PC => \A c \in PC : types'[u][c] = types[u][c]
      <4> SUFFICES ASSUME d \notin PC, NEW c \in PC PROVE types'[u][c] = types[u][c]
        OBVIOUS
      <4>1. c \in ClientTypes /\ c # d /\ types[u][c] \in Nat
        BY <1>5, TypesAssumption
      <4> QED
        BY <1>10, <4>1
    <3>4. d \in PC => \E c \in PC : types[u][c] > 0
      BY <1>8, <2>3
    <3> QED
      BY <1>7, <2>1, <2>3, <3>1, <3>2, <3>3, <3>4
  <2> QED
    BY <2>2, <2>3
<1> QED
  BY <1>12, <1>13, <1>14, <1>15 DEF IInv, TableInv

LEMMA RouteCloseKeepsIInv ==
  ASSUME IInv, NEW l \in Links, RouteClose(l)
  PROVE  IInv'
<1> DEFINE gone == {u \in UserIds : conns[u] \subseteq {l}}
<1>1. /\ l \in g_route_conn_map
      /\ g_route_conn_map' = g_route_conn_map \ {l}
      /\ conns' = [u \in UserIds |-> conns[u] \ {l}]
      /\ types' = [u \in UserIds |-> IF u \in gone THEN NoTypes ELSE types[u]]
      /\ queue' = [queue EXCEPT ![l] = <<>>]
      /\ told' = [told EXCEPT ![l] = {}]
      /\ pc_notice' = pc_notice \ gone
      /\ dropped' = dropped \union {peer[l]}
      /\ UNCHANGED <<session, peer, msg_open, status_notice>>
  BY DEF RouteClose
<1>2. /\ conns \in [UserIds -> SUBSET Links] /\ types \in [UserIds -> [ClientTypes -> Nat]]
      /\ told \in [Links -> SUBSET Session] /\ queue \in [Links -> Seq(Pdu)]
  BY DEF IInv, LinkInv, TypeOK, Pdu
<1>3. peer[l] \in Servers
  BY <1>1 DEF IInv, LinkInv, LinkSound
<1>4. TypeOK'
  <2>1. types' \in [UserIds -> [ClientTypes -> Nat]]
    <3>1. NoTypes \in [ClientTypes -> Nat]
      BY DEF NoTypes
    <3> QED
      BY <1>1, <1>2, <3>1
  <2>2. queue' \in [Links -> Seq(Pdu)]
    <3>1. <<>> \in Seq(Pdu)
      OBVIOUS
    <3> QED
      BY <1>1, <1>2, <3>1
  <2> QED
    BY <1>1, <1>2, <1>3, <2>1, <2>2 DEF IInv, LinkInv, TypeOK, Pdu
<1>5. LinkSound'
  BY <1>1, <1>2 DEF IInv, LinkInv, LinkSound
<1>6. UnderWay'
  <2> SUFFICES ASSUME NEW k \in Links
               PROVE  \E last \in SUBSET Session :
                          /\ Leads(queue'[k], told'[k], last)
                          /\ k \in msg_open' \intersect g_route_conn_map' => last = SessionsOn(peer[k])'
    BY DEF UnderWay
  <2>1. CASE k = l
    <3>1. queue'[k] = <<>> /\ told'[k] = {} /\ k \notin g_route_conn_map'
      BY <1>1, <1>2, <2>1
    <3>2. {} \in SUBSET Session /\ Leads(<<>>, {}, {})
      BY LeadsEmpty
    <3> QED
      BY <3>1, <3>2
  <2>2. CASE k # l
    <3>1. queue'[k] = queue[k] /\ told'[k] = told[k] /\ SessionsOn(peer[k])' = SessionsOn(peer[k])
      BY <1>1, <1>2, <2>2 DEF SessionsOn
    <3> QED
      BY <1>1, <3>1 DEF IInv, LinkInv, UnderWay
  <2> QED
    BY <2>1, <2>2
<1>7. FirstLists'
  <2>1. ASSUME NEW k \in Links, peer'[k] \notin dropped', NEW i \in 1..Len(queue'[k]),
               queue'[k][i].cmd = "info"
        PROVE  queue'[k][i].of = {}
    <3>1. k # l /\ queue'[k] = queue[k] /\ peer[k] \notin dropped
      BY <1>1, <1>2, <2>1
    <3> QED
      BY <2>1, <3>1 DEF IInv, LinkInv, FirstLists
  <2>2. ASSUME NEW k \in Servers \ dropped', \A j \in msg_open' : peer'[j] # k
        PROVE  SessionsOn(k)' = {}
    BY <1>1, <2>2 DEF IInv, LinkInv, FirstLists, SessionsOn
  <2> QED
    BY <2>1, <2>2 DEF FirstLists
<1>8. TableSound'
  <2> SUFFICES ASSUME NEW u \in UserIds
               PROVE  /\ conns'[u] \subseteq g_route_conn_map'
                      /\ conns'[u] = {} => types'[u] = NoTypes
                      /\ \A k \in Links : (\E t \in told'[k] : t.uid = u) => k \in conns'[u]
    BY DEF TableSound
  <2>1. conns'[u] = conns[u] \ {l} /\ (conns'[u] = {} => u \in gone)
    BY <1>1
  <2>2. \A k \in Links : (\E t \in told'[k] : t.uid = u) => k # l /\ (\E t \in told[k] : t.uid = u)
    BY <1>1, <1>2
  <2> QED
    BY <1>1, <2>1, <2>2 DEF IInv, TableInv, TableSound
<1>9. NeverUndercounted'
  <2> SUFFICES ASSUME NEW u \in UserIds, NEW c \in ClientTypes
               PROVE  types'[u][c] >= Cardinality(Known(u, c)')
    BY <1>1 DEF NeverUndercounted
  <2>1. Known(u, c) = KnownIn(told, u, c) /\ Known(u, c)' = KnownIn(told', u, c)
    BY DEF Known, KnownIn
  <2>2. CASE u \in gone
    <3>1. \A k \in Links : \A t \in told'[k] : t.uid # u
      <4> SUFFICES ASSUME NEW k \in Links, NEW t \in told'[k], t.uid = u PROVE FALSE
        OBVIOUS
      <4>1. k # l /\ t \in told[k]
        BY <1>1, <1>2
      <4>2. k \in conns[u]
        BY <4>1 DEF IInv, TableInv, TableSound
      <4> QED
        BY <2>2, <4>1, <4>2
    <3>2. KnownIn(told', u, c) = {}
      BY <3>1 DEF KnownIn
    <3>3. types'[u][c] = 0
      BY <1>1, <2>2 DEF NoTypes
    <3> QED
      BY <2>1, <3>2, <3>3, FS_EmptySet
  <2>3. CASE u \notin gone
    <3>1. types'[u][c] = types[u][c] /\ types[u][c] \in Nat
      BY <1>1, <1>2, <2>3
    <3>2. told'[l] = {} /\ \A k \in Links \ {l} : told'[k] = told[k]
      BY <1>1, <1>2
    <3>3. Cardinality(KnownIn(told', u, c)) <= Cardinality(KnownIn(told, u, c))
      BY <1>2, <3>2, KnownAfterClose
    <3>4. types[u][c] >= Cardinality(KnownIn(told, u, c))
      BY <2>1 DEF IInv, TableInv, NeverUndercounted
    <3>5. Cardinality(KnownIn(told', u, c)) \in Nat /\ Cardinality(KnownIn(told, u, c)) \in Nat
      BY KnownFinite
    <3> QED
      BY <2>1, <3>1, <3>3, <3>4, <3>5
  <2> QED
    BY <2>2, <2>3
<1>10. NoticesAgree'
  BY <1>1 DEF NoticesAgree
<1> QED
  BY <1>4, <1>5, <1>6, <1>7, <1>8, <1>9, <1>10 DEF IInv, LinkInv, TableInv

LEMMA ConnectKeepsIInv ==
  ASSUME IInv, NEW m \in Servers, NEW l \in Links, Connect(m, l)
  PROVE  IInv'
<1> DEFINE p == [cmd |-> "info", of |-> SessionsOn(m)]
<1>1. /\ \A k \in msg_open : peer[k] # m
      /\ peer[l] = NoServer
      /\ peer' = [peer EXCEPT ![l] = m]
      /\ msg_open' = msg_open \union {l}
      /\ g_route_conn_map' = g_route_conn_map \union {l}
      /\ queue' = [queue EXCEPT ![l] = <<p>>]
      /\ UNCHANGED <<session, tableVars, told, dropped, noticeVars>>
  BY DEF Connect
<1>2. /\ peer \in [Links -> Servers \union {NoServer}] /\ queue \in [Links -> Seq(Pdu)]
      /\ session \subseteq Session
  BY DEF IInv, LinkInv, TypeOK, Pdu
<1>3. l \notin msg_open /\ l \notin g_route_conn_map /\ told[l] = {} /\ queue[l] = <<>>
  BY <1>1, ServersAssumption DEF IInv, LinkInv, LinkSound
<1>4. SessionsOn(m) \in SUBSET Session /\ p \in Pdu /\ p.cmd = "info" /\ p.of = SessionsOn(m)
  BY <1>2 DEF SessionsOn, Pdu
<1> HIDE DEF p
<1>5. <<p>> \in Seq(Pdu) /\ <<p>> = Append(<<>>, p) /\ Len(<<p>>) = 1 /\ <<p>>[1] = p
  BY <1>4
<1>6. TypeOK'
  <2>1. queue' \in [Links -> Seq(Pdu)] /\ peer' \in [Links -> Servers \union {NoServer}]
    BY <1>1, <1>2, <1>5
  <2> QED
    BY <1>1, <2>1 DEF IInv, LinkInv, TypeOK, Pdu, tableVars, noticeVars
<1>7. LinkSound'
  BY <1>1, <1>2 DEF IInv, LinkInv, LinkSound
<1>8. UnderWay'
  <2> SUFFICES ASSUME NEW k \in Links
               PROVE  \E last \in SUBSET Session :
                          /\ Leads(queue'[k], told'[k], last)
                          /\ k \in msg_open' \intersect g_route_conn_map' => last = SessionsOn(peer[k])'
    BY DEF UnderWay
  <2>1. CASE k = l
    <3>1. queue'[k] = Append(<<>>, p) /\ told'[k] = {} /\ SessionsOn(peer[k])' = SessionsOn(m)
      BY <1>1, <1>2, <1>3, <1>5, <2>1 DEF SessionsOn
    <3>2. Leads(<<>>, {}, {}) /\ Tells(p, {}, SessionsOn(m)) /\ <<>> \in Seq(Pdu)
      BY <1>4, LeadsEmpty DEF Tells
    <3>3. Leads(Append(<<>>, p), {}, SessionsOn(m))
      BY <1>4, <3>2, LeadsAppend
    <3> QED
      BY <1>4, <3>1, <3>3
  <2>2. CASE k # l
    <3>1. queue'[k] = queue[k] /\ told'[k] = told[k] /\ SessionsOn(peer[k])' = SessionsOn(peer[k])
      BY <1>1, <1>2, <2>2 DEF SessionsOn
    <3> QED
      BY <1>1, <2>2, <3>1 DEF IInv, LinkInv, UnderWay
  <2> QED
    BY <2>1, <2>2
<1>9. FirstLists'
  <2>1. ASSUME NEW k \in Links, peer'[k] \notin dropped', NEW i \in 1..Len(queue'[k]),
               queue'[k][i].cmd = "info"
        PROVE  queue'[k][i].of = {}
    <3>1. CASE k = l
      <4>1. queue'[k][i] = p /\ m \notin dropped
        BY <1>1, <1>2, <1>5, <2>1, <3>1
      <4>2. SessionsOn(m) = {}
        BY <1>1, <4>1 DEF IInv, LinkInv, FirstLists
      <4> QED
        BY <1>4, <4>1, <4>2
    <3>2. CASE k # l
      BY <1>1, <1>2, <2>1, <3>2 DEF IInv, LinkInv, FirstLists
    <3> QED
      BY <3>1, <3>2
  <2>2. ASSUME NEW k \in Servers \ dropped', \A j \in msg_open' : peer'[j] # k
        PROVE  SessionsOn(k)' = {}
    <3>1. \A j \in msg_open : j # l /\ peer'[j] = peer[j]
      BY <1>1, <1>2, <1>3 DEF IInv, LinkInv, TypeOK
    <3> QED
      BY <1>1, <2>2, <3>1 DEF IInv, LinkInv, FirstLists, SessionsOn
  <2> QED
    BY <2>1, <2>2 DEF FirstLists
<1>10. TableInv'
  BY <1>1, TableStays DEF IInv
<1> QED
  BY <1>6, <1>7, <1>8, <1>9, <1>10 DEF IInv, LinkInv

LEMMA MsgCloseKeepsIInv ==
  ASSUME IInv, NEW l \in Links, MsgClose(l)
  PROVE  IInv'
<1>1. /\ l \in msg_open
      /\ msg_open' = msg_open \ {l}
      /\ dropped' = dropped \union {peer[l]}
      /\ UNCHANGED <<session, peer, g_route_conn_map, queue, tableVars, told, noticeVars>>
  BY DEF MsgClose
<1>2. peer[l] \in Servers
  BY <1>1 DEF IInv, LinkInv, LinkSound
<1>3. TypeOK'
  BY <1>1, <1>2 DEF IInv, LinkInv, TypeOK, tableVars, noticeVars
<1>4. LinkSound'
  BY <1>1 DEF IInv, LinkInv, LinkSound
<1>5. UnderWay'
  <2>1. \A k \in Links : SessionsOn(peer[k])' = SessionsOn(peer[k])
    BY <1>1 DEF SessionsOn
  <2> QED
    BY <1>1, <2>1 DEF IInv, LinkInv, UnderWay
<1>6. FirstLists'
  BY <1>1 DEF IInv, LinkInv, FirstLists, SessionsOn
<1>7. TableInv'
  BY <1>1, TableStays DEF IInv
<1> QED
  BY <1>3, <1>4, <1>5, <1>6, <1>7 DEF IInv, LinkInv

LEMMA LoginKeepsIInv ==
  ASSUME IInv, NEW m \in Servers, NEW h \in Handles, NEW u \in UserIds, NEW c \in ClientTypes,
         Login(m, h, u, c)
  PROVE  IInv'
<1> DEFINE s == [srv |-> m, handle |-> h, uid |-> u, type |-> c]
<1>1. s \in Session /\ s.srv = m /\ s \notin session
  BY DEF Session, Login, SessionsOn
<1>2. /\ session' = session \union {s}
      /\ m \in dropped \/ \E l \in msg_open : peer[l] = m
      /\ SendUpdate(m, "online", s)
      /\ UNCHANGED <<peer, msg_open, g_route_conn_map, tableVars, told, dropped, noticeVars>>
  BY DEF Login
<1> HIDE DEF s
<1>3. LinkInv'
  BY <1>1, <1>2, SendKeepsLinkInv DEF IInv
<1>4. TableInv'
  BY <1>2, TableStays DEF IInv
<1> QED
  BY <1>3, <1>4 DEF IInv

LEMMA LogoutKeepsIInv ==
  ASSUME IInv, NEW s \in session, Logout(s)
  PROVE  IInv'
<1>1. s \in Session /\ s.srv \in Servers
  BY DEF IInv, LinkInv, TypeOK, Session
<1>2. /\ session' = session \ {s}
      /\ SendUpdate(s.srv, "offline", s)
      /\ UNCHANGED <<peer, msg_open, g_route_conn_map, tableVars, told, dropped, noticeVars>>
  BY DEF Logout
<1>3. LinkInv'
  BY <1>1, <1>2, SendKeepsLinkInv DEF IInv
<1>4. TableInv'
  BY <1>2, TableStays DEF IInv
<1> QED
  BY <1>3, <1>4 DEF IInv

LEMMA StepKeepsIInv == IInv /\ [Next]_vars => IInv'
<1> SUFFICES ASSUME IInv, [Next]_vars PROVE IInv'
  OBVIOUS
<1>1. CASE UNCHANGED vars
  <2>1. TableInv'
    BY <1>1, TableStays DEF IInv, vars, linkVars
  <2>2. \A m : SessionsOn(m)' = SessionsOn(m)
    BY <1>1 DEF vars, SessionsOn
  <2>3. TypeOK' /\ LinkSound' /\ FirstLists'
    BY <1>1, <2>2 DEF vars, linkVars, tableVars, noticeVars, IInv, LinkInv, TypeOK, LinkSound, FirstLists
  <2>4. UnderWay'
    <3>1. \A l \in Links : SessionsOn(peer[l])' = SessionsOn(peer[l])
      BY <1>1 DEF vars, linkVars, SessionsOn
    <3> QED
      BY <1>1, <3>1 DEF vars, linkVars, IInv, LinkInv, UnderWay
  <2> QED
    BY <2>1, <2>3, <2>4 DEF IInv, LinkInv
<1>2. ASSUME NEW m \in Servers, NEW l \in Links, Connect(m, l) PROVE IInv'
  BY <1>2, ConnectKeepsIInv
<1>3. ASSUME NEW m \in Servers, NEW h \in Handles, NEW u \in UserIds, NEW c \in ClientTypes,
             Login(m, h, u, c)
      PROVE  IInv'
  BY <1>3, LoginKeepsIInv
<1>4. ASSUME NEW s \in session, Logout(s) PROVE IInv'
  BY <1>4, LogoutKeepsIInv
<1>5. ASSUME NEW l \in Links, MsgClose(l) PROVE IInv'
  BY <1>5, MsgCloseKeepsIInv
<1>6. ASSUME NEW l \in Links, OnlineUserInfo(l) \/ UserOnline(l) \/ UserOffline(l) PROVE IInv'
  BY <1>6, OnlineUserInfoKeepsIInv, UserOnlineKeepsIInv, UserOfflineKeepsIInv
<1>7. ASSUME NEW l \in Links, RouteClose(l) PROVE IInv'
  BY <1>7, RouteCloseKeepsIInv
<1> QED
  BY <1>1, <1>2, <1>3, <1>4, <1>5, <1>6, <1>7 DEF Next

LEMMA IInvAlways == Spec => []IInv
BY InitIInv, StepKeepsIInv, PTL DEF Spec

-----------------------------------------------------------------------------
(* Theorems *)

\* Links, pdus under way, counts and broadcasts keep their types in every reachable state: a
\* count of clients never falls below zero.
THEOREM RouteServerTypeOK == Spec => []TypeOK
<1>1. IInv => TypeOK
  BY DEF IInv, LinkInv
<1> QED
  BY <1>1, IInvAlways, PTL

\* A user of g_user_map holds no deleted CRouteConn and every one that told of a session of it,
\* however links are lost and made again while updates are under way on the others.
THEOREM RouteServerTableSound == Spec => []TableSound
<1>1. IInv => TableSound
  BY DEF IInv, TableInv
<1> QED
  BY <1>1, IInvAlways, PTL

\* The table counts at least the clients that its links have told of, type by type, and exactly
\* those until the first link is lost: for any number of msg_servers that share a user.
THEOREM RouteServerNeverUndercounted == Spec => []NeverUndercounted
<1>1. IInv => NeverUndercounted
  BY DEF IInv, TableInv
<1> QED
  BY <1>1, IInvAlways, PTL

\* Until a link is lost, friends and other clients were last told what the table holds.
THEOREM RouteServerNoticesAgree == Spec => []NoticesAgree
<1>1. IInv => NoticesAgree
  BY DEF IInv, TableInv
<1> QED
  BY <1>1, IInvAlways, PTL

LEMMA IInvPresent == IInv => PresentWhenSettled
<1> SUFFICES ASSUME IInv, NEW s \in session, NEW l \in msg_open \intersect g_route_conn_map,
                    peer[l] = s.srv, queue[l] = <<>>
             PROVE  /\ s \in told[l] /\ types[s.uid][s.type] > 0
                    /\ s.type \in PC => GetStatus(s.uid) = "online"
  BY DEF PresentWhenSettled
<1>1. l \in Links /\ told[l] \in SUBSET Session /\ s \in Session
  BY DEF IInv, LinkInv, TypeOK
<1>2. s.uid \in UserIds /\ s.type \in ClientTypes
  BY <1>1 DEF Session
<1>3. told[l] = SessionsOn(peer[l])
  <2>1. PICK last \in SUBSET Session : Leads(queue[l], told[l], last) /\ last = SessionsOn(peer[l])
    BY <1>1 DEF IInv, LinkInv, UnderWay
  <2>2. last = told[l]
    BY <1>1, <2>1, LeadsEmpty
  <2> QED
    BY <2>1, <2>2
<1>4. s \in told[l]
  BY <1>3 DEF SessionsOn
<1>5. l \in conns[s.uid]
  BY <1>1, <1>2, <1>4 DEF IInv, TableInv, TableSound
<1>6. types[s.uid][s.type] > 0
  <2>1. IsFiniteSet(KnownIn(told, s.uid, s.type)) /\ Cardinality(KnownIn(told, s.uid, s.type)) \in Nat
    BY KnownFinite
  <2>2. <<l, s>> \in KnownIn(told, s.uid, s.type)
    BY <1>1, <1>4 DEF KnownIn
  <2>3. Cardinality(KnownIn(told, s.uid, s.type)) # 0
    BY <2>1, <2>2, FS_EmptySet
  <2>4. Known(s.uid, s.type) = KnownIn(told, s.uid, s.type)
    BY DEF Known, KnownIn
  <2>5. types[s.uid][s.type] >= Cardinality(Known(s.uid, s.type)) /\ types[s.uid][s.type] \in Nat
    BY <1>2 DEF IInv, LinkInv, TypeOK, TableInv, NeverUndercounted
  <2> QED
    BY <2>1, <2>3, <2>4, <2>5
<1>7. s.type \in PC => GetStatus(s.uid) = "online"
  BY <1>5, <1>6 DEF GetStatus, IsPCClientLogin
<1> QED
  BY <1>4, <1>6, <1>7

\* Once nothing is under way on the link of its msg_server, a client that is logged in is in the
\* table, and its user online if it is a pc: whatever links, lists and updates were lost before.
THEOREM RouteServerPresentWhenSettled == Spec => []PresentWhenSettled
BY IInvPresent, IInvAlways, PTL
=============================================================================
