-------------------------- MODULE MsgServerProofs ---------------------------
(***************************************************************************)
(* Proofs about the two halves of a msg_server process, MsgServer and      *)
(* ServConn, for any handles, names, users, client types and servers.      *)
(*                                                                         *)
(* UserTables is not inductive by itself: closing a connection erases      *)
(* m_im_user_map by the m_user_id of the CImUser it deletes, so the        *)
(* invariant must also say that only the CImUser filed under an id carries *)
(* it, and under which names a user can be filed.                          *)
(***************************************************************************)
EXTENDS MsgServer, ServConn, FiniteSetTheorems, WellFoundedInduction, TLAPS

\* A CImUser that carries a user id is the one filed under it.
IdsFiled == \A n \in Names : imuser_id[n] # NoUser =>
    imuser_id[n] \in UserIds /\ m_im_user_map[imuser_id[n]] = n

\* A user id is only ever taken by a CImUser whose own name resolves to it.
FiledByName == \A u \in UserIds, n \in Names : m_im_user_map[u] = n => UserOf[n] = u

\* A connection with a login name has its client type; an open one has a login name.
NamedTyped == \A h \in Handles :
    /\ login_name[h] # NoName => client_type[h] \in ClientTypes
    /\ h \in open => login_name[h] # NoName

\* The connection that has closed inside its OnRead is in no map, and the CImUsers that it asked
\* for since hold it: when OnRead returns, none of them is left only if it asked for none.
ClosingInv ==
    /\ closing # NoConn =>
           /\ closing.handle \notin g_msg_conn_map
           /\ closing.open => closing.type \in ClientTypes /\ closing.name # NoName
    /\ closing # NoConn /\ ~undefined => \A n \in late : closing.handle \in unvalidated[n]
    /\ Idle => late = {}

IInv == TypeOK /\ UserTables /\ IdsFiled /\ FiledByName /\ NamedTyped /\ ClosingInv

\* A connection that is closing has the handle of a connection, and NoConn has none.
LEMMA ClosingTyped ==
  /\ \A h \in Handles : h # NoConn.handle /\ Conn(h).handle = h /\ Conn(h) # NoConn
  /\ TypeOK /\ closing # NoConn => closing \in Closing /\ closing.handle \in Handles
BY HandlesAssumption DEF Conn, NoConn, TypeOK, Closing

LEMMA Units == 1 \in Int /\ -1 \in Int
OBVIOUS

USE DEF NoName, NoUser, NoImUser, NoType

LEMMA AnnounceType ==
  ASSUME announced \in [UserIds -> [ClientTypes -> Int]],
         NEW u \in UserIds, NEW c \in ClientTypes, NEW d \in Int
  PROVE  Announce(u, c, d) \in [UserIds -> [ClientTypes -> Int]]
<1>1. announced[u] \in [ClientTypes -> Int]
  OBVIOUS
<1>2. [announced[u] EXCEPT ![c] = @ + d] \in [ClientTypes -> Int]
  BY <1>1
<1> QED
  BY <1>2 DEF Announce

LEMMA InitIInv == Init => IInv
<1> SUFFICES ASSUME Init PROVE IInv
  OBVIOUS
<1>0. 0 \in 0..MaxRequests
  BY MaxRequestsAssumption
<1>a. announced \in [UserIds -> [ClientTypes -> Int]]
  <2>1. [c \in ClientTypes |-> 0] \in [ClientTypes -> Int]
    OBVIOUS
  <2> QED
    BY <2>1 DEF Init
<1> USE NamesAssumption, UserIdsAssumption, TypesAssumption DEF Init
<1>1. TypeOK
  <2>1. requests \in [Handles \X Names -> 0..MaxRequests]
    BY <1>0
  <2>2. announced \in [UserIds -> [ClientTypes -> Int]]
    BY <1>a
  <2>3. /\ m_im_user_map \in [UserIds -> Names \union {NoImUser}]
        /\ imuser_id \in [Names -> UserIds \union {NoUser}]
        /\ conn_map \in [Names -> SUBSET Handles]
        /\ unvalidated \in [Names -> SUBSET Handles]
    OBVIOUS
  <2>4. /\ login_name \in [Handles -> Names \union {NoName}]
        /\ user_id \in [Handles -> UserIds \union {NoUser}]
        /\ client_type \in [Handles -> ClientTypes \union {NoType}]
    OBVIOUS
  <2> QED
    BY <2>1, <2>2, <2>3, <2>4 DEF TypeOK
<1>2. UserTables
  BY DEF UserTables, FiledUserAlive, OpenConnOwned, ConnMapSound, PendingSound, NoLeakedUser
<1>3. IdsFiled /\ FiledByName /\ NamedTyped /\ ClosingInv
  BY DEF IdsFiled, FiledByName, NamedTyped, ClosingInv
<1> QED
  BY <1>1, <1>2, <1>3 DEF IInv

-----------------------------------------------------------------------------
(* Closing a connection *)

\* Close of connection c, whose tables hold what it says, or of one that has closed already.
LEMMA CloseKeepsIInv ==
  ASSUME IInv, NEW c, c.handle \in Handles, CloseConn(c),
         \A n \in Names : c.handle \in conn_map[n] => n \in UserById(c.uid),
         Announces(c) => c.type \in ClientTypes,
         c.handle \in g_msg_conn_map => c.name = login_name[c.handle],
         requests' \in [Handles \X Names -> 0..MaxRequests],
         closing' \in Closing \union {NoConn}, undefined' \in BOOLEAN, UNCHANGED late, ClosingInv'
  PROVE  IInv'
<1> DEFINE h       == c.handle
           byId    == UserById(c.uid)
           byName  == {c.name} \intersect m_im_user_map_by_name
           left    == [n \in Names |-> IF n \in byId THEN conn_map[n] \ {h} ELSE conn_map[n]]
           removed == {n \in byId \union byName : left[n] = {}}
<1> USE NamesAssumption, UserIdsAssumption, TypesAssumption
<1>1. byId \subseteq Names /\ byName \subseteq Names /\ removed \subseteq Names
  BY DEF UserById, IInv, TypeOK
<1>2. /\ g_msg_conn_map' = g_msg_conn_map \ {h}
      /\ open' = open \ {h}
      /\ kicked' = kicked \ {h}
      /\ login_name' = [login_name EXCEPT ![h] = NoName]
      /\ user_id' = [user_id EXCEPT ![h] = NoUser]
      /\ client_type' = [client_type EXCEPT ![h] = NoType]
      /\ announced' = IF Announces(c) THEN Announce(c.uid, c.type, -1) ELSE announced
      /\ conn_map' = left
      /\ m_im_user_map_by_name' = m_im_user_map_by_name \ removed
      /\ m_im_user_map' = [u \in UserIds |-> IF \E n \in removed : imuser_id[n] = u
                                             THEN NoImUser ELSE m_im_user_map[u]]
      /\ imuser_id' = [n \in Names |-> IF n \in removed THEN NoUser ELSE imuser_id[n]]
      /\ unvalidated' = [n \in Names |-> IF n \in removed THEN {}
                                         ELSE IF n \in byId \union byName THEN unvalidated[n] \ {h}
                                         ELSE unvalidated[n]]
  BY DEF CloseConn
<1> HIDE DEF h, byId, byName, left, removed
<1>3. \A n \in Names : left[n] = conn_map[n] \ {h}
  <2> SUFFICES ASSUME NEW n \in Names, n \notin byId PROVE h \notin conn_map[n]
    BY DEF left
  <2> QED
    BY DEF h, byId
<1>4. \A n \in removed : \A g \in conn_map[n] : g = h
  BY <1>1, <1>3 DEF removed
<1>5. \A n \in Names \ removed : n \in byId \union byName => conn_map[n] \ {h} # {}
  BY <1>3 DEF removed
<1>6. TypeOK'
  <2>1. announced' \in [UserIds -> [ClientTypes -> Int]]
    <3>1. CASE Announces(c)
      <4>1. c.uid \in UserIds /\ c.type \in ClientTypes
        BY <3>1 DEF Announces, UserById
      <4>2. announced' = Announce(c.uid, c.type, -1)
        BY <1>2, <3>1
      <4>3. announced \in [UserIds -> [ClientTypes -> Int]]
        BY DEF IInv, TypeOK
      <4>4. Announce(c.uid, c.type, -1) \in [UserIds -> [ClientTypes -> Int]]
        BY Units, <4>1, <4>3, AnnounceType, Zenon
      <4> QED
        BY <4>2, <4>4
    <3>2. CASE ~Announces(c)
      BY <1>2, <3>2 DEF IInv, TypeOK
    <3> QED
      BY <3>1, <3>2
  <2>2. conn_map' \in [Names -> SUBSET Handles] /\ unvalidated' \in [Names -> SUBSET Handles]
    BY <1>2, <1>1 DEF IInv, TypeOK, left
  <2>3. /\ m_im_user_map_by_name' \subseteq Names
        /\ m_im_user_map' \in [UserIds -> Names \union {NoImUser}]
        /\ imuser_id' \in [Names -> UserIds \union {NoUser}]
    BY <1>2 DEF IInv, TypeOK
  <2>4. /\ g_msg_conn_map' \subseteq Handles /\ open' \subseteq Handles /\ kicked' \subseteq Handles
        /\ login_name' \in [Handles -> Names \union {NoName}]
        /\ user_id' \in [Handles -> UserIds \union {NoUser}]
        /\ client_type' \in [Handles -> ClientTypes \union {NoType}]
    BY <1>2 DEF IInv, TypeOK
  <2>5. late' \subseteq Names
    BY DEF IInv, TypeOK
  <2> QED
    BY <2>1, <2>2, <2>3, <2>4, <2>5 DEF TypeOK
<1>7. \A u \in UserIds, n \in Names :
          m_im_user_map'[u] = n <=> m_im_user_map[u] = n /\ n \notin removed
  <2> SUFFICES ASSUME NEW u \in UserIds, NEW n \in Names
               PROVE  m_im_user_map'[u] = n <=> m_im_user_map[u] = n /\ n \notin removed
    OBVIOUS
  <2>1. \A m \in removed : imuser_id[m] = u => m_im_user_map[u] = m
    BY <1>1 DEF IInv, IdsFiled
  <2>2. m_im_user_map[u] = n => imuser_id[n] = u
    BY DEF IInv, UserTables, FiledUserAlive
  <2> QED
    BY <1>2, <2>1, <2>2
<1>8. IdsFiled' /\ FiledByName' /\ NamedTyped'
  <2>1. IdsFiled'
    BY <1>2, <1>7 DEF IInv, IdsFiled, TypeOK
  <2>2. FiledByName'
    BY <1>7 DEF IInv, FiledByName
  <2>3. NamedTyped'
    BY <1>2 DEF IInv, NamedTyped, TypeOK
  <2> QED
    BY <2>1, <2>2, <2>3
<1>9. FiledUserAlive'
  <2> SUFFICES ASSUME NEW u \in UserIds, NEW n \in Names, m_im_user_map'[u] = n
               PROVE  n \in m_im_user_map_by_name' /\ imuser_id'[n] = u /\ conn_map'[n] # {}
    BY DEF FiledUserAlive
  <2>1. m_im_user_map[u] = n /\ n \notin removed
    BY <1>7
  <2>2. n \in m_im_user_map_by_name /\ imuser_id[n] = u /\ conn_map[n] # {}
    BY <2>1 DEF IInv, UserTables, FiledUserAlive
  <2>3. conn_map[n] \ {h} # {}
    <3>1. CASE n \in byId
      BY <3>1, <2>1, <1>5
    <3>2. CASE n \notin byId
      BY <3>2, <2>2, <1>3 DEF left
    <3> QED
      BY <3>1, <3>2
  <2> QED
    BY <1>2, <1>3, <2>1, <2>2, <2>3
<1>10. \A g \in open' : g \in open /\ g # h /\ user_id'[g] = user_id[g]
  BY <1>2 DEF IInv, TypeOK
<1>11. ConnMapSound'
  <2> SUFFICES ASSUME NEW n \in Names, NEW g \in conn_map'[n]
               PROVE  g \in open' /\ user_id'[g] \in UserIds /\ m_im_user_map'[user_id'[g]] = n
    BY DEF ConnMapSound, UserById
  <2>1. g \in conn_map[n] /\ g # h
    <3>1. g \in left[n]
      BY <1>2
    <3> QED
      BY <1>3, <3>1
  <2>2. g \in open /\ user_id[g] \in UserIds /\ m_im_user_map[user_id[g]] = n
    BY <2>1 DEF IInv, UserTables, ConnMapSound, UserById
  <2>3. n \notin removed
    BY <2>1, <1>4
  <2>4. g \in open' /\ user_id'[g] = user_id[g]
    BY <1>2, <1>10, <2>1, <2>2
  <2> QED
    BY <1>7, <2>2, <2>3, <2>4
<1>12. OpenConnOwned'
  <2> SUFFICES ASSUME NEW g \in open'
               PROVE  /\ g \in g_msg_conn_map'
                      /\ \E n \in Names : /\ user_id'[g] \in UserIds
                                         /\ m_im_user_map'[user_id'[g]] = n
                                         /\ g \in conn_map'[n]
    BY DEF OpenConnOwned, UserById
  <2>1. g \in open /\ g # h /\ user_id'[g] = user_id[g]
    BY <1>10
  <2>2. g \in g_msg_conn_map'
    BY <2>1, <1>2 DEF IInv, UserTables, OpenConnOwned
  <2>3. PICK n \in Names : user_id[g] \in UserIds /\ m_im_user_map[user_id[g]] = n /\ g \in conn_map[n]
    BY <2>1 DEF IInv, UserTables, OpenConnOwned, UserById
  <2>4. n \notin removed
    BY <2>1, <2>3, <1>4
  <2>5. g \in conn_map'[n]
    BY <1>2, <1>3, <2>1, <2>3
  <2>6. m_im_user_map'[user_id'[g]] = n
    BY <1>7, <2>1, <2>3, <2>4
  <2> QED
    BY <2>1, <2>2, <2>3, <2>5, <2>6
<1>13. PendingSound'
  <2> SUFFICES ASSUME NEW n \in Names, NEW g \in unvalidated'[n]
               PROVE  /\ n \in m_im_user_map_by_name'
                      /\ n \notin late \union {NoName} => /\ g \in g_msg_conn_map' \ open'
                                                        /\ login_name'[g] = n
    BY DEF PendingSound
  <2>1. n \notin removed /\ g \in unvalidated[n]
    BY <1>2
  <2>2. n \in m_im_user_map_by_name
    BY <2>1 DEF IInv, UserTables, PendingSound
  <2>3. ASSUME n \notin late \union {NoName}
        PROVE  g \in g_msg_conn_map' \ open' /\ login_name'[g] = n
    <3>1. g \in g_msg_conn_map \ open /\ login_name[g] = n
      BY <2>1, <2>3 DEF IInv, UserTables, PendingSound
    <3>2. g # h
      BY <1>2, <2>1, <2>2, <3>1 DEF byName, h
    <3> QED
      BY <1>2, <3>1, <3>2 DEF IInv, TypeOK
  <2> QED
    BY <1>2, <2>1, <2>2, <2>3
<1>14. NoLeakedUser'
  <2> SUFFICES ASSUME NEW n \in m_im_user_map_by_name', conn_map'[n] = {}
               PROVE  unvalidated'[n] # {}
    BY DEF NoLeakedUser
  <2>1. n \in Names /\ n \in m_im_user_map_by_name /\ n \notin removed
    BY <1>2 DEF IInv, TypeOK
  <2>2. n \notin byId \union byName
    BY <1>2, <1>3, <1>5, <2>1
  <2>3. conn_map[n] = {}
    BY <1>2, <2>1, <2>2 DEF left
  <2> QED
    BY <1>2, <2>1, <2>2, <2>3 DEF IInv, UserTables, NoLeakedUser
<1> QED
  BY <1>6, <1>8, <1>9, <1>11, <1>12, <1>13, <1>14 DEF IInv, UserTables
-----------------------------------------------------------------------------
(* The other handlers *)

LEMMA OneMore ==
  ASSUME NEW k \in 0..MaxRequests, k < MaxRequests
  PROVE  k + 1 \in 0..MaxRequests
BY MaxRequestsAssumption

LEMMA TakeAnswerType ==
  ASSUME TypeOK, NEW h \in Handles, NEW n \in Names, TakeAnswer(h, n)
  PROVE  requests' \in [Handles \X Names -> 0..MaxRequests]
<1>1. requests[<<h, n>>] \in 0..MaxRequests /\ requests[<<h, n>>] > 0
  BY DEF TypeOK, TakeAnswer
<1>2. requests[<<h, n>>] - 1 \in 0..MaxRequests
  BY <1>1, MaxRequestsAssumption
<1> QED
  BY <1>2 DEF TypeOK, TakeAnswer

LEMMA OnConnectKeepsIInv ==
  ASSUME IInv, NEW h \in Handles, OnConnect(h)
  PROVE  IInv'
<1> USE DEF OnConnect, userVars, readVars, IInv
<1>1. TypeOK'
  BY DEF TypeOK
<1>2. FiledUserAlive' /\ OpenConnOwned' /\ ConnMapSound' /\ PendingSound' /\ NoLeakedUser'
  BY DEF UserTables, FiledUserAlive, OpenConnOwned, ConnMapSound, PendingSound, NoLeakedUser, UserById
<1>3. IdsFiled' /\ FiledByName' /\ NamedTyped'
  BY DEF IdsFiled, FiledByName, NamedTyped
<1>4. ClosingInv'
  BY DEF ClosingInv, Idle
<1> QED
  BY <1>1, <1>2, <1>3, <1>4 DEF UserTables

\* Of a waiting connection, what its answer says of it: it is live, and its login name is the
\* one that the answer is for.
LEMMA AnswerFinds ==
  ASSUME IInv, NEW h \in Handles, NEW n \in Names, TakeAnswer(h, n), AnswerMatches(h, n)
  PROVE  /\ h \in g_msg_conn_map /\ h \notin open
         /\ n # NoName => login_name[h] = n /\ client_type[h] \in ClientTypes
<1>1. Idle /\ h \in unvalidated[n] /\ h \notin open
  BY DEF TakeAnswer, AnswerMatches
<1>2. closing = NoConn /\ late = {} /\ unvalidated[n] \ (g_msg_conn_map \union {closing.handle}) = {}
  <2>1. closing = NoConn /\ late = {} /\ Dangling = {}
    BY <1>1 DEF Idle, Defined, IInv, ClosingInv
  <2> QED
    BY <2>1 DEF Dangling
<1>3. h # closing.handle
  BY <1>2, ClosingTyped
<1>4. h \in g_msg_conn_map
  BY <1>1, <1>2, <1>3
<1>5. n # NoName => login_name[h] = n
  BY <1>1, <1>2 DEF IInv, UserTables, PendingSound
<1> QED
  BY <1>1, <1>4, <1>5 DEF IInv, NamedTyped

\* What a login request does, of a connection that is live or has just closed
LEMMA AskKeepsIInv ==
  ASSUME IInv, NEW h \in Handles, NEW n \in Names, AskValidate(h, n), h \notin open,
         login_name' \in [Handles -> Names \union {NoName}],
         client_type' \in [Handles -> ClientTypes \union {NoType}],
         \A g \in Handles : login_name[g] # NoName \/ g \in open =>
             login_name'[g] = login_name[g] /\ client_type'[g] = client_type[g],
         NamedTyped',
         late \subseteq late', late' \subseteq Names, closing' \in Closing \union {NoConn}, ClosingInv',
         n \notin late' \union {NoName} => h \in g_msg_conn_map /\ login_name'[h] = n
  PROVE  IInv'
<1> USE NamesAssumption, TypesAssumption DEF AskValidate
<1>2. TypeOK'
  <2>1. requests' \in [Handles \X Names -> 0..MaxRequests]
    <3>1. requests[<<h, n>>] \in 0..MaxRequests /\ requests[<<h, n>>] < MaxRequests
      BY DEF IInv, TypeOK
    <3>2. requests[<<h, n>>] + 1 \in 0..MaxRequests
      BY <3>1, OneMore
    <3> QED
      BY <3>2 DEF IInv, TypeOK
  <2>2. unvalidated' \in [Names -> SUBSET Handles] /\ m_im_user_map_by_name' \subseteq Names
    BY DEF IInv, TypeOK
  <2> QED
    BY <2>1, <2>2 DEF IInv, TypeOK
<1>3. FiledUserAlive' /\ OpenConnOwned' /\ ConnMapSound'
  BY DEF IInv, UserTables, FiledUserAlive, OpenConnOwned, ConnMapSound, UserById
<1>4. PendingSound'
  <2> SUFFICES ASSUME NEW m \in Names, NEW g \in unvalidated'[m]
               PROVE  /\ m \in m_im_user_map_by_name'
                      /\ m \notin late' \union {NoName} => /\ g \in g_msg_conn_map' \ open'
                                                         /\ login_name'[g] = m
    BY DEF PendingSound
  <2>1. CASE m = n /\ g = h
    BY <2>1
  <2>2. CASE ~(m = n /\ g = h)
    <3>1. g \in unvalidated[m] /\ g \in Handles
      BY <2>2 DEF IInv, TypeOK
    <3>2. m \in m_im_user_map_by_name'
      BY <3>1 DEF IInv, UserTables, PendingSound
    <3>3. ASSUME m \notin late' \union {NoName}
          PROVE  g \in g_msg_conn_map' \ open' /\ login_name'[g] = m
      BY <3>1, <3>3 DEF IInv, UserTables, PendingSound
    <3> QED
      BY <3>2, <3>3
  <2> QED
    BY <2>1, <2>2
<1>5. NoLeakedUser'
  <2> SUFFICES ASSUME NEW m \in m_im_user_map_by_name', conn_map'[m] = {}
               PROVE  unvalidated'[m] # {}
    BY DEF NoLeakedUser
  <2>1. CASE m = n
    BY <2>1 DEF IInv, TypeOK
  <2>2. CASE m # n
    <3>1. m \in m_im_user_map_by_name /\ conn_map[m] = {}
      BY <2>2
    <3>2. unvalidated[m] # {}
      BY <3>1 DEF IInv, UserTables, NoLeakedUser
    <3> QED
      BY <2>2, <3>1, <3>2 DEF IInv, TypeOK
  <2> QED
    BY <2>1, <2>2
<1>6. IdsFiled' /\ FiledByName'
  BY DEF IInv, IdsFiled, FiledByName
<1> QED
  BY <1>2, <1>3, <1>4, <1>5, <1>6 DEF IInv, UserTables

LEMMA LoginRequestKeepsIInv ==
  ASSUME IInv, NEW h \in Handles, NEW n \in Names, NEW c \in ClientTypes, LoginRequest(h, n, c)
  PROVE  IInv'
<1> USE TypesAssumption
<1>1. /\ h \notin open /\ h \in g_msg_conn_map /\ login_name[h] = NoName
      /\ AskValidate(h, n) /\ UNCHANGED <<closing, late, undefined, open>>
      /\ login_name' = [login_name EXCEPT ![h] = n]
      /\ client_type' = [client_type EXCEPT ![h] = c]
  BY DEF IInv, NamedTyped, LoginRequest, AskValidate
<1>2. /\ login_name' \in [Handles -> Names \union {NoName}]
      /\ client_type' \in [Handles -> ClientTypes \union {NoType}]
      /\ \A g \in Handles : login_name[g] # NoName \/ g \in open =>
             login_name'[g] = login_name[g] /\ client_type'[g] = client_type[g]
      /\ login_name'[h] = n
  BY <1>1 DEF IInv, TypeOK
<1>3. NamedTyped'
  BY <1>1 DEF IInv, NamedTyped, TypeOK
<1>4. ClosingInv'
  BY <1>1 DEF LoginRequest, Idle, IInv, ClosingInv
<1>5. late' \subseteq Names /\ closing' \in Closing \union {NoConn}
  BY <1>1 DEF IInv, TypeOK
<1> QED
  BY <1>1, <1>2, <1>3, <1>4, <1>5, AskKeepsIInv

LEMMA LateLoginKeepsIInv ==
  ASSUME IInv, NEW n \in Names, NEW c \in ClientTypes, LateLogin(n, c)
  PROVE  IInv'
<1> DEFINE h == closing.handle
<1>1. /\ closing # NoConn /\ ~undefined /\ closing.name = NoName /\ AskValidate(h, n)
      /\ closing' = [closing EXCEPT !.name = n, !.type = c] /\ late' = late \union {n}
      /\ UNCHANGED <<login_name, client_type, open, g_msg_conn_map, undefined>>
      /\ unvalidated' = [unvalidated EXCEPT ![n] = @ \union {h}]
  BY DEF LateLogin, AskValidate
<1>2. closing \in Closing /\ h \in Handles /\ h \notin g_msg_conn_map /\ ~closing.open
  BY <1>1, ClosingTyped DEF IInv, ClosingInv
<1>3. h \notin open
  BY <1>2 DEF IInv, UserTables, OpenConnOwned
<1>4. closing' \in Closing /\ closing'.handle = h /\ ~closing'.open
  BY <1>1, <1>2, Zenon DEF Closing
<1>5. closing' # NoConn
  BY <1>2, <1>4, ClosingTyped
<1>6. ClosingInv'
  <2>1. \A m \in late' : h \in unvalidated'[m]
    <3>1. \A m \in late : m \in Names /\ h \in unvalidated[m]
      BY <1>1 DEF IInv, TypeOK, ClosingInv
    <3>2. \A m \in Names : unvalidated[m] \subseteq unvalidated'[m]
      BY <1>1 DEF IInv, TypeOK
    <3>3. h \in unvalidated'[n]
      BY <1>1 DEF IInv, TypeOK
    <3>4. late' = late \union {n}
      BY <1>1
    <3> HIDE DEF h
    <3> QED
      BY <3>1, <3>2, <3>3, <3>4
  <2>2. closing'.handle = h /\ h \notin g_msg_conn_map' /\ closing' # NoConn /\ ~closing'.open
    BY <1>1, <1>2, <1>4, <1>5
  <2> HIDE DEF h
  <2> QED
    BY <2>1, <2>2 DEF ClosingInv, Idle
<1>7. NamedTyped'
  BY <1>1 DEF IInv, NamedTyped
<1>8. /\ login_name' \in [Handles -> Names \union {NoName}]
      /\ client_type' \in [Handles -> ClientTypes \union {NoType}]
      /\ late' \subseteq Names /\ late \subseteq late' /\ n \in late'
      /\ \A g \in Handles : login_name'[g] = login_name[g] /\ client_type'[g] = client_type[g]
  BY <1>1 DEF IInv, TypeOK
<1> HIDE DEF h
<1> QED
  BY <1>1, <1>2, <1>3, <1>4, <1>6, <1>7, <1>8, AskKeepsIInv

\* The reactor is idle before and after: nothing closes inside its OnRead.
LEMMA IdleKeepsClosing ==
  ASSUME IInv, Idle, UNCHANGED <<closing, late>>
  PROVE  ClosingInv'
BY DEF IInv, ClosingInv, Idle

\* A Close of a connection that is in the map, by a handler that leaves it or goes on reading
LEMMA ConnCloseKeepsIInv ==
  ASSUME IInv, NEW h \in Handles, h \in g_msg_conn_map, Idle, CloseConn(Conn(h)),
         requests' \in [Handles \X Names -> 0..MaxRequests], UNCHANGED <<late, undefined>>,
         closing' \in {closing, Conn(h)}
  PROVE  IInv'
<1> DEFINE c == Conn(h)
<1>1. c.handle = h /\ c.name = login_name[h] /\ c.uid = user_id[h] /\ c.type = client_type[h] /\ (c.open <=> h \in open)
  BY DEF Conn
<1>2. \A n \in Names : h \in conn_map[n] => n \in UserById(user_id[h])
  BY DEF IInv, UserTables, ConnMapSound
<1>3. c.open => c.type \in ClientTypes /\ c.name # NoName
  BY <1>1 DEF IInv, NamedTyped
<1>4. Conn(h) \in Closing
  <2>1. /\ login_name[h] \in Names \union {NoName} /\ user_id[h] \in UserIds \union {NoUser}
        /\ client_type[h] \in ClientTypes \union {NoType}
    BY DEF IInv, TypeOK
  <2>2. (h \in open) \in BOOLEAN
    OBVIOUS
  <2> QED
    BY <2>1, <2>2 DEF Conn, Closing
<1>5. g_msg_conn_map' = g_msg_conn_map \ {h} /\ late = {}
  BY <1>1 DEF CloseConn, IInv, ClosingInv
<1>6. c # NoConn
  BY ClosingTyped
<1> HIDE DEF c
<1>7. ClosingInv'
  <2>1. CASE closing' = closing
    BY <2>1, IdleKeepsClosing
  <2>2. CASE closing' = c
    BY <2>2, <1>1, <1>3, <1>5, <1>6 DEF ClosingInv, Idle
  <2> QED
    BY <2>1, <2>2 DEF c
<1>8. closing' \in Closing \union {NoConn} /\ undefined' \in BOOLEAN
  BY <1>4 DEF IInv, TypeOK, c
<1>9. Announces(c) => c.type \in ClientTypes
  BY <1>3 DEF Announces
<1>10. CloseConn(c)
  BY DEF c
<1> QED
  BY <1>1, <1>2, <1>7, <1>8, <1>9, <1>10, CloseKeepsIInv

LEMMA LateCloseKeepsIInv ==
  ASSUME IInv, LateClose
  PROVE  IInv'
<1>1. closing # NoConn /\ CloseConn(closing) /\ undefined' = TRUE /\ UNCHANGED <<requests, closing, late>>
  BY DEF LateClose
<1>2. closing \in Closing /\ closing.handle \in Handles /\ closing.handle \notin g_msg_conn_map
  BY <1>1, ClosingTyped DEF IInv, ClosingInv
<1>3. \A n \in Names : closing.handle \notin conn_map[n]
  BY <1>2 DEF IInv, UserTables, ConnMapSound, OpenConnOwned
<1>4. Announces(closing) => closing.type \in ClientTypes
  BY <1>1 DEF Announces, IInv, ClosingInv
<1>5. ClosingInv'
  <2>1. g_msg_conn_map' \subseteq g_msg_conn_map
    BY <1>1 DEF CloseConn
  <2> QED
    BY <1>1, <2>1 DEF IInv, ClosingInv, Idle, Defined
<1>6. requests' \in [Handles \X Names -> 0..MaxRequests] /\ closing' \in Closing \union {NoConn}
  BY <1>1 DEF IInv, TypeOK
<1> QED
  BY <1>1, <1>2, <1>3, <1>4, <1>5, <1>6, CloseKeepsIInv
\* What changes no table: kicks, lost answers, the end of OnRead, a user id that nobody set
LEMMA QuietKeepsIInv ==
  ASSUME IInv, kicked' \subseteq Handles, requests' \in [Handles \X Names -> 0..MaxRequests],
         UNCHANGED <<g_msg_conn_map, login_name, user_id, client_type, open, userVars, announced, late>>,
         closing' \in {closing, NoConn}, undefined' \in BOOLEAN, ClosingInv'
  PROVE  IInv'
<1> USE DEF IInv, userVars
<1>1. TypeOK'
  BY DEF TypeOK
<1>2. FiledUserAlive' /\ OpenConnOwned' /\ ConnMapSound' /\ PendingSound' /\ NoLeakedUser'
  BY DEF UserTables, FiledUserAlive, OpenConnOwned, ConnMapSound, PendingSound, NoLeakedUser, UserById
<1>3. IdsFiled' /\ FiledByName' /\ NamedTyped'
  BY DEF IdsFiled, FiledByName, NamedTyped
<1> QED
  BY <1>1, <1>2, <1>3 DEF UserTables

LEMMA ReadEndKeepsIInv ==
  ASSUME IInv, ReadEnd
  PROVE  IInv'
<1>1. /\ closing # NoConn /\ ~undefined /\ closing' = NoConn
      /\ UNCHANGED <<connVars, userVars, requests, announced, late, undefined>>
  BY DEF ReadEnd
<1>2. ClosingInv'
  <2> SUFFICES ASSUME NEW n \in late PROVE Dangling' # {}
    BY <1>1 DEF ClosingInv, Idle, Defined
  <2>1. closing.handle \in unvalidated[n] /\ closing.handle \notin g_msg_conn_map /\ n \in Names
    BY <1>1 DEF IInv, ClosingInv, TypeOK
  <2>2. closing.handle # closing'.handle
    BY <1>1, ClosingTyped, HandlesAssumption DEF IInv, NoConn
  <2>3. unvalidated' = unvalidated /\ g_msg_conn_map' = g_msg_conn_map
    BY <1>1 DEF userVars, connVars
  <2>4. closing.handle \in unvalidated'[n] \ (g_msg_conn_map' \union {closing'.handle})
    BY <2>1, <2>2, <2>3
  <2> QED
    BY <2>1, <2>4 DEF Dangling
<1> QED
  BY <1>1, <1>2, QuietKeepsIInv DEF IInv, TypeOK, connVars

LEMMA KickKeepsIInv ==
  ASSUME IInv,
         \/ \E c : KickPCClient(c)
         \/ \E u \in UserIds, c \in ClientTypes : RouteKickUser(u, c)
  PROVE  IInv'
<1>1. /\ UNCHANGED <<g_msg_conn_map, login_name, user_id, client_type, open, userVars, announced>>
      /\ UNCHANGED <<requests, closing, late, undefined>>
  BY DEF KickPCClient, RouteKickUser, readVars
<1>2. \A cs \in SUBSET Handles, c \in ClientTypes : FirstOfClass(cs, c) \subseteq Handles
  BY DEF FirstOfClass
<1>3. kicked' \subseteq Handles
  <2>1. CASE \E c : KickPCClient(c)
    <3>1. PICK c : KickPCClient(c)
      BY <2>1
    <3>2. PICK n \in UserById(c.uid), pc \in ClientTypes \ Mobile :
             kicked' = kicked \union FirstOfClass(conn_map[n] \ {c.handle}, pc)
      BY <3>1 DEF KickPCClient
    <3>3. conn_map[n] \ {c.handle} \in SUBSET Handles
      BY <3>2 DEF UserById, IInv, TypeOK
    <3> QED
      BY <3>2, <3>3, <1>2 DEF IInv, TypeOK
  <2>2. CASE \E u \in UserIds, c \in ClientTypes : RouteKickUser(u, c)
    <3>1. PICK u \in UserIds, c \in ClientTypes : RouteKickUser(u, c)
      BY <2>2
    <3>2. PICK n \in UserById(u) : kicked' = kicked \union FirstOfClass(conn_map[n], c)
      BY <3>1 DEF RouteKickUser
    <3>3. conn_map[n] \in SUBSET Handles
      BY <3>2 DEF UserById, IInv, TypeOK
    <3> QED
      BY <3>2, <3>3, <1>2 DEF IInv, TypeOK
  <2> QED
    BY <2>1, <2>2
<1>4. ClosingInv'
  <2>1. UNCHANGED unvalidated
    BY <1>1 DEF userVars
  <2> QED
    BY <1>1, <2>1 DEF IInv, ClosingInv, Idle, Defined, Dangling
<1> QED
  BY <1>1, <1>3, <1>4, QuietKeepsIInv DEF IInv, TypeOK

(* A validated connection enters the m_conn_map of the CImUser filed under *)
(* the user id of the answer, its owner.                                   *)
LEMMA ValidateOkKeepsIInv ==
  ASSUME IInv, NEW h \in Handles, NEW n \in Names, ValidateOk(h, n)
  PROVE  IInv'
<1> DEFINE u     == UserOf[n]
           found == UserById(u)
           owner == IF found = {} THEN n ELSE CHOOSE m \in found : TRUE
           gone  == IF found # {} /\ conn_map[n] = {} THEN {n} ELSE {}
<1> USE NamesAssumption, UserIdsAssumption, TypesAssumption
<1>1. /\ AnswerMatches(h, n)
      /\ m_im_user_map_by_name' = m_im_user_map_by_name \ gone
      /\ imuser_id' = [m \in Names |-> IF m \in gone THEN NoUser
                                       ELSE IF m = owner THEN u ELSE imuser_id[m]]
      /\ m_im_user_map' = IF found = {} THEN [m_im_user_map EXCEPT ![u] = owner] ELSE m_im_user_map
      /\ kicked' = kicked \union FirstOfClass(conn_map[owner] \ {h}, client_type[h])
      /\ user_id' = [user_id EXCEPT ![h] = u]
      /\ open' = open \union {h}
      /\ announced' = Announce(u, client_type[h], 1)
      /\ conn_map' = [conn_map EXCEPT ![owner] = @ \union {h}]
      /\ unvalidated' = [m \in Names |-> IF m \in gone THEN {}
                                         ELSE IF m \in {n, owner} THEN unvalidated[m] \ {h}
                                         ELSE unvalidated[m]]
      /\ UNCHANGED <<g_msg_conn_map, login_name, client_type, closing, late, undefined>>
      /\ TakeAnswer(h, n) /\ u # NoUser
  BY DEF ValidateOk, readVars
<1>a. n # NoName /\ u \in UserIds
  BY <1>1, UserOfAssumption
<1>2. /\ u \in UserIds /\ h \notin open /\ h \in g_msg_conn_map /\ h \in unvalidated[n]
      /\ login_name[h] = n /\ client_type[h] \in ClientTypes /\ n \in m_im_user_map_by_name
  <2> HIDE DEF u
  <2> QED
    BY <1>1, <1>a, AnswerFinds DEF AnswerMatches
<1>3. found = {m \in Names : m_im_user_map[u] = m}
  BY <1>2 DEF UserById
<1>4. owner \in Names /\ owner \in m_im_user_map_by_name
  <2>1. CASE found = {}
    BY <2>1, <1>2
  <2>2. CASE found # {}
    <3>1. owner \in found
      BY <2>2
    <3> QED
      BY <3>1, <1>2, <1>3 DEF IInv, UserTables, FiledUserAlive
  <2> QED
    BY <2>1, <2>2
<1>5. /\ found = {} => owner = n /\ m_im_user_map[u] = NoImUser
      /\ found # {} => m_im_user_map[u] = owner
      /\ UserOf[owner] = u
  <2>1. CASE found = {}
    BY <2>1, <1>2, <1>3 DEF IInv, TypeOK
  <2>2. CASE found # {}
    <3>1. owner \in found
      BY <2>2
    <3> QED
      BY <2>2, <3>1, <1>2, <1>3 DEF IInv, FiledByName
  <2> QED
    BY <2>1, <2>2
<1>6. owner \notin gone /\ gone \subseteq {n} /\ (gone # {} => found # {} /\ conn_map[n] = {})
  <2>1. gone # {} => gone = {n} /\ found # {} /\ conn_map[n] = {}
    BY Zenon
  <2>2. found # {} => conn_map[owner] # {}
    BY <1>2, <1>4, <1>5 DEF IInv, UserTables, FiledUserAlive
  <2> HIDE DEF found, owner, gone
  <2> QED
    BY <2>1, <2>2
<1>7. found # {} /\ owner # n => (n \in gone <=> conn_map[n] = {})
  OBVIOUS
<1> HIDE DEF u, found, owner, gone
<1>8. \A v \in UserIds : m_im_user_map'[v] = IF v = u THEN owner ELSE m_im_user_map[v]
  <2>1. CASE found = {}
    BY <2>1, <1>1, <1>2 DEF IInv, TypeOK
  <2>2. CASE found # {}
    BY <2>2, <1>1, <1>5
  <2> QED
    BY <2>1, <2>2
<1>9. TypeOK'
  <2>1. announced' \in [UserIds -> [ClientTypes -> Int]]
    <3>1. announced \in [UserIds -> [ClientTypes -> Int]]
      BY DEF IInv, TypeOK
    <3>3. Announce(u, client_type[h], 1) \in [UserIds -> [ClientTypes -> Int]]
      BY <3>1, Units, <1>2, AnnounceType, Zenon
    <3> QED
      BY <3>3, <1>1
  <2>2. requests' \in [Handles \X Names -> 0..MaxRequests]
    BY TakeAnswerType DEF IInv, ValidateOk
  <2>3. kicked' \subseteq Handles
    <3>1. conn_map[owner] \in SUBSET Handles
      BY <1>4 DEF IInv, TypeOK
    <3> QED
      BY <3>1, <1>1 DEF FirstOfClass, IInv, TypeOK
  <2>4. m_im_user_map' \in [UserIds -> Names \union {NoImUser}]
    BY <1>1, <1>4 DEF IInv, TypeOK
  <2>5. conn_map' \in [Names -> SUBSET Handles] /\ unvalidated' \in [Names -> SUBSET Handles]
    BY <1>1, <1>4 DEF IInv, TypeOK
  <2>6. /\ user_id' \in [Handles -> UserIds \union {NoUser}]
        /\ imuser_id' \in [Names -> UserIds \union {NoUser}]
    BY <1>1, <1>2 DEF IInv, TypeOK
  <2> QED
    BY <1>1, <2>1, <2>2, <2>3, <2>4, <2>5, <2>6 DEF IInv, TypeOK
<1>10. \A m \in Names : imuser_id[m] = u => m_im_user_map[u] = m /\ owner = m
  <2> SUFFICES ASSUME NEW m \in Names, imuser_id[m] = u PROVE m_im_user_map[u] = m /\ owner = m
    OBVIOUS
  <2>1. m_im_user_map[u] = m
    BY <1>2 DEF IInv, IdsFiled
  <2> QED
    BY <2>1, <1>5
<1>11. IdsFiled'
  <2> SUFFICES ASSUME NEW m \in Names, imuser_id'[m] # NoUser
               PROVE  imuser_id'[m] \in UserIds /\ m_im_user_map'[imuser_id'[m]] = m
    BY DEF IdsFiled
  <2>1. CASE m = owner
    BY <2>1, <1>1, <1>2, <1>6, <1>8
  <2>2. CASE m # owner
    <3>1. imuser_id'[m] = imuser_id[m]
      BY <2>2, <1>1
    <3>2. imuser_id[m] \in UserIds /\ m_im_user_map[imuser_id[m]] = m
      BY <3>1 DEF IInv, IdsFiled
    <3>3. imuser_id[m] # u
      BY <2>2, <1>10
    <3> QED
      BY <3>1, <3>2, <3>3, <1>8
  <2> QED
    BY <2>1, <2>2
<1>12. FiledByName'
  <2> SUFFICES ASSUME NEW v \in UserIds, NEW m \in Names, m_im_user_map'[v] = m PROVE UserOf[m] = v
    BY DEF FiledByName
  <2>1. CASE v = u
    BY <2>1, <1>5, <1>8
  <2>2. CASE v # u
    <3>1. m_im_user_map[v] = m
      BY <2>2, <1>8
    <3>2. \A w \in UserIds, k \in Names : m_im_user_map[w] = k => UserOf[k] = w
      BY DEF IInv, FiledByName
    <3> QED
      BY <3>1, <3>2
  <2> QED
    BY <2>1, <2>2
<1>13. NamedTyped'
  BY <1>1, <1>2, <1>a DEF IInv, NamedTyped
<1>14. FiledUserAlive'
  <2> SUFFICES ASSUME NEW v \in UserIds, NEW m \in Names, m_im_user_map'[v] = m
               PROVE  m \in m_im_user_map_by_name' /\ imuser_id'[m] = v /\ conn_map'[m] # {}
    BY DEF FiledUserAlive
  <2>1. CASE v = u
    <3>1. m = owner
      BY <2>1, <1>8
    <3>2. owner \in m_im_user_map_by_name' /\ imuser_id'[owner] = u
      BY <1>1, <1>4, <1>6
    <3>3. h \in conn_map'[owner]
      BY <1>1, <1>4 DEF IInv, TypeOK
    <3> QED
      BY <2>1, <3>1, <3>2, <3>3
  <2>2. CASE v # u
    <3>1. m_im_user_map[v] = m
      BY <2>2, <1>8
    <3>2. m \in m_im_user_map_by_name /\ imuser_id[m] = v /\ conn_map[m] # {}
      BY <3>1 DEF IInv, UserTables, FiledUserAlive
    <3>3. m # owner
      BY <2>2, <3>1, <1>5 DEF IInv, FiledByName
    <3>4. m \notin gone
      BY <3>2, <1>6
    <3> QED
      BY <3>2, <3>3, <3>4, <1>1 DEF IInv, TypeOK
  <2> QED
    BY <2>1, <2>2
<1>15. \A v \in UserIds, m \in Names : m_im_user_map[v] = m => m_im_user_map'[v] = m
  <2> SUFFICES ASSUME NEW v \in UserIds, NEW m \in Names, m_im_user_map[v] = m
               PROVE  m_im_user_map'[v] = m
    OBVIOUS
  <2>1. v = u => owner = m
    BY <1>5
  <2> QED
    BY <2>1, <1>8
<1>16. OpenConnOwned'
  <2> SUFFICES ASSUME NEW g \in open'
               PROVE  /\ g \in g_msg_conn_map'
                      /\ \E m \in Names : /\ user_id'[g] \in UserIds
                                         /\ m_im_user_map'[user_id'[g]] = m
                                         /\ g \in conn_map'[m]
    BY DEF OpenConnOwned, UserById
  <2>1. CASE g = h
    <3>1. user_id'[h] = u /\ h \in conn_map'[owner]
      BY <1>1, <1>4 DEF IInv, TypeOK
    <3> QED
      BY <2>1, <3>1, <1>1, <1>2, <1>4, <1>8
  <2>2. CASE g # h
    <3>1. g \in open /\ g \in g_msg_conn_map'
      BY <2>2, <1>1 DEF IInv, UserTables, OpenConnOwned
    <3>2. user_id'[g] = user_id[g]
      BY <2>2, <3>1, <1>1 DEF IInv, TypeOK
    <3>3. PICK m \in Names : user_id[g] \in UserIds /\ m_im_user_map[user_id[g]] = m /\ g \in conn_map[m]
      BY <3>1 DEF IInv, UserTables, OpenConnOwned, UserById
    <3>4. g \in conn_map'[m]
      BY <3>3, <1>1 DEF IInv, TypeOK
    <3>5. m_im_user_map'[user_id'[g]] = m
      BY <3>2, <3>3, <1>15
    <3> QED
      BY <3>1, <3>2, <3>3, <3>4, <3>5
  <2> QED
    BY <2>1, <2>2
<1>17. ConnMapSound'
  <2> SUFFICES ASSUME NEW m \in Names, NEW g \in conn_map'[m]
               PROVE  g \in open' /\ user_id'[g] \in UserIds /\ m_im_user_map'[user_id'[g]] = m
    BY DEF ConnMapSound, UserById
  <2>1. CASE g \in conn_map[m]
    <3>1. g \in open /\ user_id[g] \in UserIds /\ m_im_user_map[user_id[g]] = m
      BY <2>1 DEF IInv, UserTables, ConnMapSound, UserById
    <3>2. g # h /\ user_id'[g] = user_id[g]
      BY <3>1, <1>1, <1>2 DEF IInv, TypeOK
    <3> QED
      BY <3>1, <3>2, <1>1, <1>15
  <2>2. CASE g \notin conn_map[m]
    <3>1. g = h /\ m = owner
      BY <2>2, <1>1 DEF IInv, TypeOK
    <3>2. user_id'[h] = u /\ h \in open'
      BY <1>1 DEF IInv, TypeOK
    <3> QED
      BY <3>1, <3>2, <1>2, <1>8
  <2> QED
    BY <2>1, <2>2
<1>18. PendingSound'
  <2> SUFFICES ASSUME NEW m \in Names, NEW g \in unvalidated'[m]
               PROVE  /\ m \in m_im_user_map_by_name'
                      /\ m \notin late \union {NoName} => /\ g \in g_msg_conn_map' \ open'
                                                        /\ login_name'[g] = m
    BY <1>1 DEF PendingSound
  <2>1. m \notin gone /\ g \in unvalidated[m]
    BY <1>1
  <2>2. m \in m_im_user_map_by_name
    BY <2>1 DEF IInv, UserTables, PendingSound
  <2>3. ASSUME m \notin late \union {NoName}
        PROVE  g \in g_msg_conn_map' \ open' /\ login_name'[g] = m
    <3>1. g \in g_msg_conn_map \ open /\ login_name[g] = m
      BY <2>1, <2>3 DEF IInv, UserTables, PendingSound
    <3>2. g # h
      <4> SUFFICES ASSUME g = h PROVE FALSE
        OBVIOUS
      <4>1. m = n
        BY <3>1, <1>2
      <4>2. h \notin unvalidated'[m]
        BY <4>1, <2>1, <1>1
      <4> QED
        BY <4>2
    <3> QED
      BY <3>1, <3>2, <1>1
  <2> QED
    BY <2>1, <2>2, <2>3, <1>1
<1>19. NoLeakedUser'
  <2> SUFFICES ASSUME NEW m \in m_im_user_map_by_name', conn_map'[m] = {}
               PROVE  unvalidated'[m] # {}
    BY DEF NoLeakedUser
  <2>1. m \in m_im_user_map_by_name /\ m \notin gone /\ m \in Names
    BY <1>1 DEF IInv, TypeOK
  <2>2. m # owner
    BY <1>1, <1>4 DEF IInv, TypeOK
  <2>3. conn_map[m] = {}
    BY <2>1, <2>2, <1>1 DEF IInv, TypeOK
  <2>4. m # n
    <3> SUFFICES ASSUME m = n PROVE FALSE
      OBVIOUS
    <3>1. found # {}
      BY <2>2, <1>5
    <3> QED
      BY <3>1, <2>1, <2>2, <2>3, <1>7
  <2>5. unvalidated[m] # {}
    BY <2>1, <2>3 DEF IInv, UserTables, NoLeakedUser
  <2> QED
    BY <2>1, <2>2, <2>4, <2>5, <1>1
<1>20. ClosingInv'
  BY <1>1, IdleKeepsClosing DEF TakeAnswer
<1> QED
  BY <1>9, <1>11, <1>12, <1>13, <1>14, <1>16, <1>17, <1>18, <1>19, <1>20 DEF IInv, UserTables
-----------------------------------------------------------------------------
(* Every step *)

LEMMA StepKeepsIInv == IInv /\ [Next]_vars => IInv'
<1> SUFFICES ASSUME IInv, [Next]_vars PROVE IInv'
  OBVIOUS
<1>1. requests \in [Handles \X Names -> 0..MaxRequests] /\ kicked \subseteq Handles
  BY DEF IInv, TypeOK
<1>2. ASSUME NEW h \in Handles, OnConnect(h) PROVE IInv'
  BY <1>2, OnConnectKeepsIInv
<1>3. ASSUME NEW h \in Handles, NEW n \in Names, NEW c \in ClientTypes, LoginRequest(h, n, c)
      PROVE  IInv'
  BY <1>3, LoginRequestKeepsIInv
<1>4. ASSUME NEW h \in Handles, LoginRefused(h) \/ LoginOut(h) PROVE IInv'
  BY <1>1, <1>4, ConnCloseKeepsIInv DEF LoginRefused, LoginOut, CloseInRead
<1>5. ASSUME NEW h \in Handles, LoginTimeout(h) \/ PeerClose(h) PROVE IInv'
  BY <1>1, <1>5, ConnCloseKeepsIInv DEF LoginTimeout, PeerClose, readVars
<1>6. ASSUME NEW h \in Handles, NEW n \in Names, ValidateOk(h, n) PROVE IInv'
  BY <1>6, ValidateOkKeepsIInv
<1>7. ASSUME NEW h \in Handles, NEW n \in Names, ValidateFail(h, n) PROVE IInv'
  <2>1. h \in g_msg_conn_map /\ Idle
    BY <1>7, AnswerFinds DEF ValidateFail, TakeAnswer
  <2>2. requests' \in [Handles \X Names -> 0..MaxRequests]
    BY <1>7, TakeAnswerType DEF ValidateFail, IInv
  <2> QED
    BY <1>7, <2>1, <2>2, ConnCloseKeepsIInv DEF ValidateFail, readVars
<1>8. ASSUME NEW h \in Handles, NEW n \in Names, AnswerDropped(h, n) \/ ValidateUnset(h, n) PROVE IInv'
  <2>1. TakeAnswer(h, n) /\ UNCHANGED <<connVars, userVars, announced, closing, late>>
    BY <1>8 DEF AnswerDropped, ValidateUnset, readVars
  <2>2. requests' \in [Handles \X Names -> 0..MaxRequests]
    BY <2>1, TakeAnswerType DEF IInv
  <2>3. ClosingInv' /\ undefined' \in BOOLEAN
    BY <1>8, <2>1, IdleKeepsClosing DEF TakeAnswer, AnswerDropped, ValidateUnset, readVars, IInv, TypeOK
  <2> QED
    BY <1>1, <2>1, <2>2, <2>3, QuietKeepsIInv DEF connVars
<1>9. ASSUME NEW c, KickPCClient(c) PROVE IInv'
  BY <1>9, KickKeepsIInv
<1>10. ASSUME NEW u \in UserIds, NEW c \in ClientTypes, RouteKickUser(u, c) PROVE IInv'
  BY <1>10, KickKeepsIInv
<1>11. ASSUME NEW n \in Names, NEW c \in ClientTypes, LateLogin(n, c) PROVE IInv'
  BY <1>11, LateLoginKeepsIInv
<1>12. CASE LateClose \/ ReadEnd
  BY <1>12, LateCloseKeepsIInv, ReadEndKeepsIInv
<1>13. CASE UNCHANGED vars
  <2>1. ClosingInv'
    BY <1>13 DEF vars, connVars, userVars, readVars, IInv, ClosingInv, Idle, Defined, Dangling
  <2> QED
    BY <1>1, <1>13, <2>1, QuietKeepsIInv DEF vars, connVars, userVars, readVars, IInv, TypeOK
<1> QED
  BY <1>2, <1>3, <1>4, <1>5, <1>6, <1>7, <1>8, <1>9, <1>10, <1>11, <1>12, <1>13 DEF Next

\* The variables of msg_server keep their types in every reachable state.
THEOREM MsgServerTypeOK == Spec => []TypeOK
<1>1. IInv => TypeOK
  BY DEF IInv
<1> QED
  BY <1>1, InitIInv, StepKeepsIInv, PTL DEF Spec

\* The tables of connections and users agree in every reachable state: no table holds a
\* closed connection or a deleted user, no open connection or waiting one is lost, and no
\* user is leaked, in whatever order answers, kicks, time-outs and closes arrive.
THEOREM MsgServerUserTables == Spec => []UserTables
<1>1. IInv => UserTables
  BY DEF IInv
<1> QED
  BY <1>1, InitIInv, StepKeepsIInv, PTL DEF Spec

\* Whatever connections have had a handle before, the answer that opens one is for the name
\* that it sent, and gives it that name's user.
THEOREM MsgServerOpensAsAsked == Spec => OpensAsAsked
<1> DEFINE Asked == \A h \in open' \ open : login_name[h] \in Names /\ user_id'[h] = UserOf[login_name[h]]
<1>1. IInv /\ [Next]_vars => [Asked]_vars
  <2> SUFFICES ASSUME IInv, Next, NEW h \in open' \ open PROVE login_name[h] \in Names /\ user_id'[h] = UserOf[login_name[h]]
    OBVIOUS
  <2>a. ASSUME NEW c, CloseConn(c) PROVE FALSE
    BY <2>a DEF CloseConn
  <2>b. ASSUME NEW c, KickPCClient(c) PROVE FALSE
    BY <2>b DEF KickPCClient
  <2>c. \A g \in Handles : ~LoginRefused(g) /\ ~LoginOut(g) /\ ~LoginTimeout(g) /\ ~PeerClose(g)
    BY <2>a DEF LoginRefused, LoginOut, CloseInRead, LoginTimeout, PeerClose
  <2>d. \A g \in Handles, n \in Names : ~ValidateFail(g, n) /\ ~ValidateUnset(g, n) /\ ~AnswerDropped(g, n)
    BY <2>a DEF ValidateFail, ValidateUnset, AnswerDropped, connVars
  <2>e. ~LateClose /\ ~ReadEnd /\ \A g \in Handles : ~OnConnect(g)
    BY <2>a DEF LateClose, ReadEnd, OnConnect, connVars
  <2>f. /\ \A n \in Names, c \in ClientTypes : ~LateLogin(n, c)
        /\ \A g \in Handles, n \in Names, c \in ClientTypes : ~LoginRequest(g, n, c)
        /\ \A u \in UserIds, c \in ClientTypes : ~RouteKickUser(u, c)
    BY DEF LateLogin, LoginRequest, AskValidate, RouteKickUser
  <2>1. PICK g \in Handles, n \in Names : ValidateOk(g, n)
    BY <2>b, <2>c, <2>d, <2>e, <2>f DEF Next
  <2>2. /\ h = g /\ TakeAnswer(g, n) /\ AnswerMatches(g, n) /\ UserOf[n] # NoUser
        /\ user_id' = [user_id EXCEPT ![g] = UserOf[n]]
    BY <2>1 DEF ValidateOk
  <2>3. n # NoName
    BY <2>2, UserOfAssumption
  <2>4. login_name[g] = n
    BY <2>2, <2>3, AnswerFinds
  <2>5. user_id'[g] = UserOf[n]
    BY <2>2 DEF IInv, TypeOK
  <2> QED
    BY <2>2, <2>4, <2>5
<1> QED
  BY <1>1, InitIInv, StepKeepsIInv, PTL DEF Spec, OpensAsAsked

-----------------------------------------------------------------------------
(* The refinement *)

TheSessions == {[handle |-> g, uid |-> user_id[g], type |-> client_type[g]] : g \in open}

LEMMA OpenTyped ==
  ASSUME IInv, NEW h \in open
  PROVE  h \in Handles /\ user_id[h] \in UserIds /\ client_type[h] \in ClientTypes
<1>1. h \in Handles /\ user_id[h] \in UserIds
  BY DEF IInv, TypeOK, UserTables, OpenConnOwned, UserById
<1> QED
  BY <1>1 DEF IInv, NamedTyped

\* A close logs the session of an open connection out and leaves the others alone.
LEMMA CloseRefines ==
  ASSUME IInv, NEW h \in Handles, h \in g_msg_conn_map, CloseConn(Conn(h)), ~undefined, UNCHANGED undefined
  PROVE  Sessions!Next \/ UNCHANGED Sessions!vars
<1>1. /\ open' = open \ {h}
      /\ \A g \in open \ {h} : user_id'[g] = user_id[g] /\ client_type'[g] = client_type[g]
      /\ announced' = IF UserById(user_id[h]) # {} /\ h \in open
                      THEN Announce(user_id[h], client_type[h], -1) ELSE announced
  BY DEF CloseConn, Announces, Conn, IInv, TypeOK
<1>2. CASE h \in open
  <2>1. UserById(user_id[h]) # {}
    BY <1>2 DEF IInv, UserTables, OpenConnOwned
  <2>2. PICK s \in TheSessions : s = [handle |-> h, uid |-> user_id[h], type |-> client_type[h]]
    BY <1>2 DEF TheSessions
  <2>3. announced' = Announce(s.uid, s.type, -1)
    BY <1>1, <1>2, <2>1, <2>2
  <2>4. TheSessions' = TheSessions \ {s}
    BY <1>1, <1>2, <2>2 DEF TheSessions
  <2>5. Sessions!Logout(s)
    BY <2>3, <2>4 DEF Sessions!Logout, Sessions!Announce, Announce, TheSessions
  <2>6. \E t \in TheSessions : Sessions!Logout(t)
    BY <2>5
  <2> QED
    BY <2>6 DEF Sessions!Next, TheSessions
<1>3. CASE h \notin open
  <2>1. open' = open /\ announced' = announced
    BY <1>1, <1>3
  <2>2. \A g \in open : user_id'[g] = user_id[g] /\ client_type'[g] = client_type[g]
    BY <1>1, <1>3
  <2>3. TheSessions' = TheSessions
    BY <2>1, <2>2 DEF TheSessions
  <2> QED
    BY <2>1, <2>3 DEF Sessions!vars, TheSessions
<1> QED
  BY <1>2, <1>3

LEMMA ValidateOkRefines ==
  ASSUME IInv, NEW h \in Handles, NEW n \in Names, ValidateOk(h, n)
  PROVE  Sessions!Next
<1>1. h \notin open /\ UserOf[n] \in UserIds /\ client_type[h] \in ClientTypes
  <2>1. TakeAnswer(h, n) /\ AnswerMatches(h, n) /\ UserOf[n] # NoUser
    BY DEF ValidateOk
  <2>2. n # NoName /\ UserOf[n] \in UserIds
    BY <2>1, UserOfAssumption
  <2> QED
    BY <2>1, <2>2, AnswerFinds
<1>2. PICK u \in UserIds, c \in ClientTypes : u = UserOf[n] /\ c = client_type[h]
  BY <1>1
<1>3. /\ open' = open \union {h} /\ user_id' = [user_id EXCEPT ![h] = u]
      /\ client_type' = client_type /\ announced' = Announce(u, c, 1)
      /\ ~undefined /\ UNCHANGED undefined
  BY <1>2 DEF ValidateOk, readVars, TakeAnswer, Idle, Defined
<1>4. user_id'[h] = u /\ \A g \in open : user_id'[g] = user_id[g]
  BY <1>1, <1>3 DEF IInv, TypeOK
<1>5. TheSessions' = TheSessions \union {[handle |-> h, uid |-> u, type |-> c]}
  BY <1>2, <1>3, <1>4 DEF TheSessions
<1>6. \A t \in TheSessions : t.handle # h
  BY <1>1 DEF TheSessions
<1>7. Sessions!Login(h, u, c)
  BY <1>3, <1>5, <1>6 DEF Sessions!Login, Sessions!Announce, Announce, TheSessions
<1>8. \E g \in Handles, v \in UserIds, d \in ClientTypes : Sessions!Login(g, v, d)
  BY <1>7
<1> QED
  BY <1>8 DEF Sessions!Next

\* A second Close ends no session that is still open, but may announce its user once more.
LEMMA LateCloseRefines ==
  ASSUME IInv, LateClose
  PROVE  Sessions!Next
<1> DEFINE h == closing.handle
<1>1. ~undefined /\ undefined' = TRUE /\ CloseConn(closing) /\ closing # NoConn
  BY DEF LateClose
<1>2. h \notin open
  BY <1>1 DEF IInv, ClosingInv, UserTables, OpenConnOwned
<1>3. /\ open' = open
      /\ \A g \in open : user_id'[g] = user_id[g] /\ client_type'[g] = client_type[g]
      /\ announced' = IF Announces(closing) THEN Announce(closing.uid, closing.type, -1) ELSE announced
  BY <1>1, <1>2 DEF CloseConn, IInv, TypeOK
<1>4. TheSessions' = TheSessions
  BY <1>3 DEF TheSessions
<1>5. announced' = announced \/ \E u \in UserIds, c \in ClientTypes : announced' = Sessions!Announce(u, c, -1)
  <2>1. CASE Announces(closing)
    <3>1. closing.uid \in UserIds /\ closing.type \in ClientTypes
      BY <1>1, <2>1 DEF Announces, UserById, IInv, ClosingInv
    <3>2. announced' = Sessions!Announce(closing.uid, closing.type, -1)
      BY <1>3, <2>1 DEF Announce, Sessions!Announce
    <3> QED
      BY <3>1, <3>2
  <2>2. CASE ~Announces(closing)
    BY <1>3, <2>2
  <2> QED
    BY <2>1, <2>2
<1> QED
  BY <1>1, <1>4, <1>5 DEF Sessions!Next, Sessions!End, TheSessions

LEMMA InitRefines == Init => Sessions!Init
<1> SUFFICES ASSUME Init PROVE Sessions!Init
  OBVIOUS
<1>1. TheSessions = {}
  BY DEF Init, TheSessions
<1> QED
  BY <1>1 DEF Init, Sessions!Init, TheSessions

LEMMA StepRefines == IInv /\ [Next]_vars => [Sessions!Next]_(Sessions!vars)
<1> SUFFICES ASSUME IInv, [Next]_vars PROVE Sessions!Next \/ UNCHANGED Sessions!vars
  OBVIOUS
<1>1. ASSUME UNCHANGED <<open, user_id, client_type, announced, undefined>>
      PROVE  UNCHANGED Sessions!vars
  BY <1>1 DEF Sessions!vars
<1>2. ASSUME NEW h \in Handles, NEW n \in Names, NEW c \in ClientTypes, LoginRequest(h, n, c)
      PROVE  UNCHANGED Sessions!vars
  <2>1. h \notin open
    BY <1>2 DEF LoginRequest, IInv, NamedTyped
  <2>2. /\ open' = open /\ announced' = announced /\ undefined' = undefined
        /\ \A g \in open : user_id'[g] = user_id[g] /\ client_type'[g] = client_type[g]
    BY <1>2, <2>1 DEF LoginRequest, AskValidate, IInv, TypeOK
  <2>3. TheSessions' = TheSessions
    BY <2>2 DEF TheSessions
  <2> QED
    BY <2>2, <2>3 DEF Sessions!vars, TheSessions
<1>3. ASSUME NEW h \in Handles, LoginRefused(h) \/ LoginOut(h) \/ LoginTimeout(h) \/ PeerClose(h)
      PROVE  Sessions!Next \/ UNCHANGED Sessions!vars
  BY <1>3, CloseRefines DEF LoginRefused, LoginOut, CloseInRead, LoginTimeout, PeerClose, Idle, Defined, readVars
<1>4. ASSUME NEW h \in Handles, NEW n \in Names, ValidateFail(h, n)
      PROVE  Sessions!Next \/ UNCHANGED Sessions!vars
  <2>1. h \in g_msg_conn_map /\ ~undefined
    BY <1>4, AnswerFinds DEF ValidateFail, TakeAnswer, Idle, Defined
  <2> QED
    BY <1>4, <2>1, CloseRefines DEF ValidateFail, readVars
<1>5. ASSUME \/ \E h \in Handles : OnConnect(h) \/ \E n \in Names : AnswerDropped(h, n)
             \/ \E c : KickPCClient(c)
             \/ \E u \in UserIds, c \in ClientTypes : RouteKickUser(u, c)
             \/ \E n \in Names, c \in ClientTypes : LateLogin(n, c)
             \/ ReadEnd
      PROVE  UNCHANGED <<open, user_id, client_type, announced, undefined>>
  BY <1>5 DEF OnConnect, KickPCClient, AnswerDropped, RouteKickUser, LateLogin, AskValidate, ReadEnd,
              connVars, readVars
<1>6. ASSUME NEW h \in Handles, NEW n \in Names, ValidateUnset(h, n)
      PROVE  Sessions!Next
  <2>1. ~undefined /\ undefined' = TRUE /\ UNCHANGED <<open, user_id, client_type, announced>>
    BY <1>6 DEF ValidateUnset, TakeAnswer, Idle, Defined, connVars
  <2> QED
    BY <2>1 DEF Sessions!Next, Sessions!End
<1>7. CASE LateClose
  BY <1>7, LateCloseRefines
<1>8. CASE UNCHANGED vars
  BY <1>1, <1>8 DEF vars, connVars, readVars
<1> QED
  BY <1>1, <1>2, <1>3, <1>4, <1>5, <1>6, <1>7, <1>8, ValidateOkRefines DEF Next

\* msg_server implements Sessions: every step opens one announced session, closes one and
\* announces that, or changes neither, whatever the handlers do to the tables meanwhile.
THEOREM MsgServerImplementsSessions == Spec => ImplementsSessions
BY InitIInv, StepKeepsIInv, InitRefines, StepRefines, PTL DEF Spec, ImplementsSessions, Sessions!Spec

-----------------------------------------------------------------------------
(* What Sessions promises, proved of its own two steps and so of every     *)
(* specification that takes no others.                                     *)

SessionsFor(u, c) == {s \in TheSessions : s.uid = u /\ s.type = c}

\* The announcements add up, over sessions that are finitely many.
SessionsInv ==
    /\ Sessions!TypeOK
    /\ IsFiniteSet(TheSessions)
    /\ ~undefined => \A u \in UserIds, c \in ClientTypes : announced[u][c] = Cardinality(SessionsFor(u, c))

LEMMA SessionsInit == Sessions!Init => SessionsInv
<1> SUFFICES ASSUME Sessions!Init PROVE SessionsInv
  OBVIOUS
<1>1. TheSessions = {}
  BY DEF Sessions!Init, TheSessions
<1>2. Sessions!TypeOK /\ IsFiniteSet(TheSessions)
  <2>1. undefined \in BOOLEAN
    BY DEF Sessions!Init
  <2>2. announced \in [UserIds -> [ClientTypes -> Int]]
    <3>1. [c \in ClientTypes |-> 0] \in [ClientTypes -> Int]
      OBVIOUS
    <3> QED
      BY <3>1 DEF Sessions!Init
  <2> QED
    BY <1>1, <2>1, <2>2, FS_EmptySet DEF Sessions!TypeOK, TheSessions
<1>3. ASSUME NEW u \in UserIds, NEW c \in ClientTypes
      PROVE  announced[u][c] = Cardinality(SessionsFor(u, c))
  <2>1. SessionsFor(u, c) = {}
    BY <1>1 DEF SessionsFor
  <2> QED
    BY <2>1, FS_EmptySet DEF Sessions!Init
<1> QED
  BY <1>2, <1>3 DEF SessionsInv

LEMMA SessionsLogin ==
  ASSUME SessionsInv, NEW h \in Handles, NEW u \in UserIds, NEW c \in ClientTypes,
         Sessions!Login(h, u, c)
  PROVE  SessionsInv'
<1> DEFINE s == [handle |-> h, uid |-> u, type |-> c]
<1>1. s \in Sessions!Session /\ s \notin TheSessions /\ TheSessions' = TheSessions \union {s}
  BY DEF Sessions!Login, Sessions!Session, TheSessions
<1>2. announced' = Announce(u, c, 1) /\ announced \in [UserIds -> [ClientTypes -> Int]]
  BY DEF Sessions!Login, Sessions!Announce, Announce, SessionsInv, Sessions!TypeOK
<1>3. Sessions!TypeOK'
  <2>1. TheSessions' \subseteq Sessions!Session
    BY <1>1 DEF SessionsInv, Sessions!TypeOK, TheSessions
  <2>2. undefined' \in BOOLEAN
    BY DEF Sessions!Login, SessionsInv, Sessions!TypeOK
  <2>3. announced' \in [UserIds -> [ClientTypes -> Int]]
    BY <1>2, AnnounceType, Units
  <2> QED
    BY <2>1, <2>2, <2>3 DEF Sessions!TypeOK, TheSessions
<1>4. IsFiniteSet(TheSessions')
  BY <1>1, FS_AddElement DEF SessionsInv
<1>5. ASSUME NEW v \in UserIds, NEW d \in ClientTypes
      PROVE  announced'[v][d] = Cardinality(SessionsFor(v, d)')
  <2>1. IsFiniteSet(SessionsFor(v, d)) /\ announced[v][d] = Cardinality(SessionsFor(v, d))
    BY FS_Subset DEF SessionsInv, SessionsFor, Sessions!Login, Sessions!Logout
  <2>2. CASE v = u /\ d = c
    <3>1. SessionsFor(v, d)' = SessionsFor(v, d) \union {s} /\ s \notin SessionsFor(v, d)
      BY <1>1, <2>2 DEF SessionsFor
    <3>2. announced'[v][d] = announced[v][d] + 1
      BY <1>2, <2>2 DEF Announce
    <3> QED
      BY <2>1, <3>1, <3>2, FS_AddElement
  <2>3. CASE ~(v = u /\ d = c)
    <3>1. SessionsFor(v, d)' = SessionsFor(v, d)
      BY <1>1, <2>3 DEF SessionsFor
    <3>2. announced'[v][d] = announced[v][d]
      BY <1>2, <2>3 DEF Announce
    <3> QED
      BY <2>1, <3>1, <3>2
  <2> QED
    BY <2>2, <2>3
<1> QED
  BY <1>3, <1>4, <1>5 DEF SessionsInv

LEMMA SessionsLogout ==
  ASSUME SessionsInv, NEW s \in TheSessions, Sessions!Logout(s)
  PROVE  SessionsInv'
<1>1. s.uid \in UserIds /\ s.type \in ClientTypes /\ TheSessions' = TheSessions \ {s}
  <2>1. s \in Sessions!Session
    BY DEF SessionsInv, Sessions!TypeOK, TheSessions
  <2> QED
    BY <2>1 DEF Sessions!Logout, Sessions!Session, TheSessions
<1>2. announced' = Announce(s.uid, s.type, -1) /\ announced \in [UserIds -> [ClientTypes -> Int]]
  BY DEF Sessions!Logout, Sessions!Announce, Announce, SessionsInv, Sessions!TypeOK
<1>3. Sessions!TypeOK'
  <2>1. TheSessions' \subseteq Sessions!Session
    BY <1>1 DEF SessionsInv, Sessions!TypeOK, TheSessions
  <2>2. undefined' \in BOOLEAN
    BY DEF Sessions!Logout, SessionsInv, Sessions!TypeOK
  <2>3. announced' \in [UserIds -> [ClientTypes -> Int]]
    BY <1>1, <1>2, AnnounceType, Units
  <2> QED
    BY <2>1, <2>2, <2>3 DEF Sessions!TypeOK, TheSessions
<1>4. IsFiniteSet(TheSessions')
  BY <1>1, FS_RemoveElement DEF SessionsInv
<1>5. ASSUME NEW v \in UserIds, NEW d \in ClientTypes
      PROVE  announced'[v][d] = Cardinality(SessionsFor(v, d)')
  <2>1. IsFiniteSet(SessionsFor(v, d)) /\ announced[v][d] = Cardinality(SessionsFor(v, d))
    BY FS_Subset DEF SessionsInv, SessionsFor, Sessions!Login, Sessions!Logout
  <2>2. CASE v = s.uid /\ d = s.type
    <3>1. SessionsFor(v, d)' = SessionsFor(v, d) \ {s} /\ s \in SessionsFor(v, d)
      BY <1>1, <2>2 DEF SessionsFor
    <3>2. announced'[v][d] = announced[v][d] - 1
      BY <1>1, <1>2, <2>2 DEF Announce
    <3>3. Cardinality(SessionsFor(v, d)) \in Nat
      BY <2>1, FS_CardinalityType
    <3> QED
      BY <2>1, <3>1, <3>2, <3>3, FS_RemoveElement
  <2>3. CASE ~(v = s.uid /\ d = s.type)
    <3>1. SessionsFor(v, d)' = SessionsFor(v, d)
      BY <1>1, <2>3 DEF SessionsFor
    <3>2. announced'[v][d] = announced[v][d]
      BY <1>1, <1>2, <2>3 DEF Announce
    <3> QED
      BY <2>1, <3>1, <3>2
  <2> QED
    BY <2>2, <2>3
<1> QED
  BY <1>3, <1>4, <1>5 DEF SessionsInv

LEMMA SessionsEnd ==
  ASSUME SessionsInv, Sessions!End
  PROVE  SessionsInv'
<1>1. TheSessions' = TheSessions /\ undefined' = TRUE
  BY DEF Sessions!End, TheSessions
<1>2. announced \in [UserIds -> [ClientTypes -> Int]]
  BY DEF SessionsInv, Sessions!TypeOK
<1>3. announced' = announced \/ \E u \in UserIds, c \in ClientTypes : announced' = Announce(u, c, -1)
  BY DEF Sessions!End, Sessions!Announce, Announce
<1>4. announced' \in [UserIds -> [ClientTypes -> Int]]
  BY <1>2, <1>3, AnnounceType, Units
<1> QED
  BY <1>1, <1>4 DEF SessionsInv, Sessions!TypeOK, TheSessions

\* Whatever takes only the steps of Sessions announces each session once when it opens and once
\* when it closes: what SendUserStatusUpdate promises to route_server and login_server.
THEOREM SessionsAnnouncedOnce == Sessions!Spec => []AnnouncedOnce
<1>1. SessionsInv /\ [Sessions!Next]_(Sessions!vars) => SessionsInv'
  <2> SUFFICES ASSUME SessionsInv, [Sessions!Next]_(Sessions!vars) PROVE SessionsInv'
    OBVIOUS
  <2>1. ASSUME NEW h \in Handles, NEW u \in UserIds, NEW c \in ClientTypes, Sessions!Login(h, u, c)
        PROVE  SessionsInv'
    BY <2>1, SessionsLogin
  <2>2. ASSUME NEW s \in TheSessions, Sessions!Logout(s) PROVE SessionsInv'
    BY <2>2, SessionsLogout
  <2>3. CASE UNCHANGED Sessions!vars
    <3>1. TheSessions' = TheSessions /\ announced' = announced /\ undefined' = undefined
      BY <2>3 DEF Sessions!vars, TheSessions
    <3> QED
      BY <3>1 DEF SessionsInv, Sessions!TypeOK, SessionsFor, TheSessions
  <2> QED
    BY <2>1, <2>2, <2>3, SessionsEnd DEF Sessions!Next, TheSessions
<1>2. SessionsInv => AnnouncedOnce
  <2>1. \A S : Sessions!Cardinality(S) = Cardinality(S)
    BY DEF Sessions!Cardinality, Cardinality
  <2>2. \A u \in UserIds, c \in ClientTypes : Sessions!SessionsOf(u, c) = SessionsFor(u, c)
    BY DEF Sessions!SessionsOf, SessionsFor, TheSessions
  <2> QED
    BY <2>1, <2>2 DEF AnnouncedOnce, Sessions!AnnouncedOnce, SessionsInv
<1> QED
  BY <1>1, <1>2, SessionsInit, PTL DEF Sessions!Spec

\* The ONLINE and OFFLINE announcements that msg_server sends for a user and a client type
\* add up to the open connections, as long as no connection is closed a second time inside its
\* OnRead and no user id comes unset: none is announced twice, missed, or left online.
THEOREM MsgServerAnnouncedOnce == Spec => []AnnouncedOnce
BY MsgServerImplementsSessions, SessionsAnnouncedOnce, PTL DEF ImplementsSessions

-----------------------------------------------------------------------------
(* The connections of the same process to the other servers: ServConn, for *)
(* any list of servers and any delays.  The master stays the oldest        *)
(* connection because times of connection do not pass the clock, so a      *)
(* connection confirmed later is never older.                              *)

\* A connection was confirmed at a time that the clock has reached.
TimesPassed == \A i \in Slots : serv_conn[i] = "open" => m_connect_time[i] <= clock

ConnInv == ConnTypeOK /\ MasterIsOldest /\ DelayBounded /\ TimesPassed

USE DEF NoMaster

LEMMA NatMinimum ==
  ASSUME NEW T, T \subseteq Nat, T # {}
  PROVE  \E x \in T : \A y \in T : x <= y
<1>1. PICK x \in T : \A y \in T : ~ (<<y, x>> \in OpToRel(<, Nat))
  BY NatLessThanWellFounded, WFMin
<1>2. ASSUME NEW y \in T PROVE x <= y
  <2>1. x \in Nat /\ y \in Nat
    OBVIOUS
  <2>2. y < x => <<y, x>> \in OpToRel(<, Nat)
    BY <2>1 DEF OpToRel
  <2>3. ~(y < x)
    BY <1>1, <2>2
  <2> QED
    BY <2>1, <2>3
<1> QED
  BY <1>2

\* update_master_route_serv_conn finds an open connection of the oldest, if there is one.
LEMMA OldestFound ==
  ASSUME NEW conn, NEW time \in [Slots -> Nat]
  PROVE  LET up == {i \in Slots : conn[i] = "open"}
         IN  /\ up = {} => Oldest(conn, time) = NoMaster
             /\ up # {} => /\ Oldest(conn, time) \in up
                           /\ \A j \in up : time[Oldest(conn, time)] <= time[j]
<1> DEFINE up == {i \in Slots : conn[i] = "open"}
           best(i) == i \in up /\ \A j \in up : time[i] < time[j] \/ (time[i] = time[j] /\ i <= j)
<1> SUFFICES ASSUME up # {}
             PROVE  Oldest(conn, time) \in up /\ \A j \in up : time[Oldest(conn, time)] <= time[j]
  BY DEF Oldest
<1> HIDE DEF up
<1>1. \A i \in up : i \in Slots /\ i \in Nat /\ time[i] \in Nat
  BY SlotsAssumption DEF up
<1>2. PICK t \in {time[i] : i \in up} : \A s \in {time[i] : i \in up} : t <= s
  <2>1. {time[i] : i \in up} \subseteq Nat /\ {time[i] : i \in up} # {}
    BY <1>1
  <2> QED
    BY <2>1, NatMinimum
<1>3. PICK i \in {k \in up : time[k] = t} : \A j \in {k \in up : time[k] = t} : i <= j
  <2>1. {k \in up : time[k] = t} \subseteq Nat /\ {k \in up : time[k] = t} # {}
    BY <1>1, <1>2
  <2> QED
    BY <2>1, NatMinimum
<1>4. best(i)
  <2> SUFFICES ASSUME NEW j \in up PROVE time[i] < time[j] \/ (time[i] = time[j] /\ i <= j)
    BY <1>3
  <2>1. time[i] = t /\ t <= time[j] /\ (time[j] = t => i <= j)
    BY <1>2, <1>3
  <2>2. t \in Nat /\ time[j] \in Nat
    BY <1>1, <2>1
  <2> QED
    BY <2>1, <2>2
<1>5. Oldest(conn, time) = CHOOSE k \in up : \A j \in up : time[k] < time[j] \/ (time[k] = time[j] /\ k <= j)
  BY DEF Oldest, up
<1>6. best(Oldest(conn, time))
  BY <1>4, <1>5
<1>7. \A j \in up : time[Oldest(conn, time)] <= time[j]
  BY <1>1, <1>6
<1> QED
  BY <1>6, <1>7

LEMMA BackoffBounded ==
  ASSUME NEW n \in MIN_RECONNECT_CNT \div 2 .. MAX_RECONNECT_CNT
  PROVE  Backoff(n) \in MIN_RECONNECT_CNT \div 2 .. MAX_RECONNECT_CNT /\ Backoff(n) > 0 /\ Backoff(n) \in Nat
BY ReconnectAssumption DEF Backoff

LEMMA InitConnInv == ConnInit => ConnInv
<1> SUFFICES ASSUME ConnInit PROVE ConnInv
  OBVIOUS
<1>1. \A i \in Slots : serv_conn[i] \in {"connecting", "dead"}
  BY DEF ConnInit, Attempts
<1>2. ConnTypeOK
  BY <1>1, ReconnectAssumption DEF ConnInit, Attempts, ConnTypeOK
<1>3. MasterIsOldest
  BY <1>1 DEF ConnInit, MasterIsOldest
<1>4. DelayBounded
  BY <1>1 DEF DelayBounded, Null
<1>5. TimesPassed
  BY <1>1 DEF TimesPassed
<1> QED
  BY <1>2, <1>3, <1>4, <1>5 DEF ConnInv

LEMMA TickKeepsConnInv == ASSUME ConnInv, Tick PROVE ConnInv'
<1>1. PICK new \in [Due -> Attempts] :
          serv_conn' = [i \in Slots |-> IF i \in Due THEN new[i] ELSE serv_conn[i]]
  BY DEF Tick
<1>2. /\ idle_cnt' = [i \in Slots |-> IF i \in Null THEN idle_cnt[i] + 1 ELSE idle_cnt[i]]
      /\ UNCHANGED <<reconnect_cnt, m_connect_time, master, clock>>
  BY DEF Tick
<1>3. \A i \in Slots : /\ serv_conn'[i] = "open" <=> serv_conn[i] = "open"
                       /\ serv_conn'[i] = "null" => i \in Null /\ i \notin Due
                       /\ serv_conn'[i] \in {"null", "connecting", "open", "dead"}
  BY <1>1 DEF Attempts, ConnInv, ConnTypeOK, Null, Due
<1>4. ConnTypeOK'
  BY <1>1, <1>2, <1>3 DEF ConnInv, ConnTypeOK
<1>5. MasterIsOldest'
  BY <1>2, <1>3 DEF ConnInv, MasterIsOldest
<1>6. DelayBounded'
  <2> SUFFICES ASSUME NEW i \in Slots, serv_conn'[i] = "null"
               PROVE  idle_cnt'[i] < reconnect_cnt'[i] /\ reconnect_cnt'[i] <= MAX_RECONNECT_CNT
    BY DEF DelayBounded, Null
  <2>1. reconnect_cnt[i] \in MIN_RECONNECT_CNT \div 2 .. MAX_RECONNECT_CNT /\ idle_cnt[i] \in Nat
    BY DEF ConnInv, ConnTypeOK
  <2>2. i \in Null /\ idle_cnt'[i] = idle_cnt[i] + 1 /\ ~(idle_cnt[i] + 1 >= reconnect_cnt[i])
    BY <1>2, <1>3 DEF Due
  <2> QED
    BY <1>2, <2>1, <2>2, ReconnectAssumption
<1>7. TimesPassed'
  BY <1>2, <1>3 DEF ConnInv, TimesPassed
<1> QED
  BY <1>4, <1>5, <1>6, <1>7 DEF ConnInv

LEMMA OnConfirmKeepsConnInv == ASSUME ConnInv, NEW i \in Slots, OnConfirm(i) PROVE ConnInv'
<1>1. clock' \in Nat /\ clock <= clock'
  BY DEF ConnInv, ConnTypeOK, OnConfirm
<1>2. \A j \in Slots : serv_conn'[j] = "open" <=> j = i \/ serv_conn[j] = "open"
  BY DEF ConnInv, ConnTypeOK, OnConfirm
<1>3. \A j \in Slots : m_connect_time'[j] = IF j = i THEN clock' ELSE m_connect_time[j]
  BY DEF ConnInv, ConnTypeOK, OnConfirm
<1>4. m_connect_time' \in [Slots -> Nat]
  BY <1>1 DEF ConnInv, ConnTypeOK, OnConfirm
<1>5. MasterIsOldest' /\ master' \in Slots \union {NoMaster}
  <2> DEFINE up == {j \in Slots : serv_conn'[j] = "open"}
  <2>1. i \in up
    BY <1>2
  <2>2. CASE master = NoMaster
    <3>1. master' = Oldest(serv_conn', m_connect_time')
      BY <2>2 DEF OnConfirm
    <3>2. master' \in up /\ \A j \in up : m_connect_time'[master'] <= m_connect_time'[j]
      BY <1>4, <2>1, <3>1, OldestFound
    <3> QED
      BY <2>1, <3>2, SlotsAssumption DEF MasterIsOldest
  <2>3. CASE master # NoMaster
    <3>1. master' = master /\ serv_conn[master] = "open" /\ master \in Slots /\ master # i
      BY <2>3 DEF OnConfirm, ConnInv, MasterIsOldest
    <3>2. m_connect_time'[master] = m_connect_time[master] /\ m_connect_time[master] <= clock
      BY <3>1, <1>3 DEF ConnInv, TimesPassed
    <3>3. ASSUME NEW j \in up PROVE m_connect_time'[master] <= m_connect_time'[j]
      <4>1. CASE j = i
        <5>1. m_connect_time[master] \in Nat /\ clock \in Nat
          BY <3>1 DEF ConnInv, ConnTypeOK
        <5> QED
          BY <4>1, <5>1, <1>1, <1>3, <3>2
      <4>2. CASE j # i
        BY <4>2, <1>2, <1>3, <2>3, <3>2 DEF ConnInv, MasterIsOldest
      <4> QED
        BY <4>1, <4>2
    <3>4. master \in up
      BY <3>1, <1>2
    <3> QED
      BY <3>1, <3>3, <3>4, <2>3, SlotsAssumption DEF MasterIsOldest
  <2> QED
    BY <2>2, <2>3
<1>6. ConnTypeOK'
  BY <1>1, <1>4, <1>5, ReconnectAssumption DEF ConnInv, ConnTypeOK, OnConfirm
<1>7. DelayBounded'
  BY ReconnectAssumption DEF ConnInv, ConnTypeOK, DelayBounded, Null, OnConfirm
<1>8. TimesPassed'
  <2> SUFFICES ASSUME NEW j \in Slots, serv_conn'[j] = "open" PROVE m_connect_time'[j] <= clock'
    BY DEF TimesPassed
  <2>1. CASE j = i
    BY <2>1, <1>1, <1>3
  <2>2. CASE j # i
    <3>1. m_connect_time[j] <= clock /\ m_connect_time[j] \in Nat /\ clock \in Nat
      BY <2>2, <1>2 DEF ConnInv, ConnTypeOK, TimesPassed
    <3> QED
      BY <2>2, <3>1, <1>1, <1>3
  <2> QED
    BY <2>1, <2>2
<1> QED
  BY <1>5, <1>6, <1>7, <1>8 DEF ConnInv

LEMMA CloseKeepsConnInv == ASSUME ConnInv, NEW i \in Slots, Close(i) PROVE ConnInv'
<1>1. \A j \in Slots : serv_conn'[j] = "open" <=> j # i /\ serv_conn[j] = "open"
  BY DEF ConnInv, ConnTypeOK, Close
<1>2. m_connect_time' = m_connect_time /\ m_connect_time \in [Slots -> Nat] /\ clock' = clock
  BY DEF ConnInv, ConnTypeOK, Close
<1>3. MasterIsOldest' /\ master' \in Slots \union {NoMaster}
  <2> DEFINE up == {j \in Slots : serv_conn'[j] = "open"}
  <2>1. CASE master = i
    <3>1. master' = Oldest(serv_conn', m_connect_time')
      BY <2>1, <1>2 DEF Close
    <3>2. /\ up = {} => master' = NoMaster
          /\ up # {} => master' \in up /\ \A j \in up : m_connect_time'[master'] <= m_connect_time'[j]
      BY <1>2, <3>1, OldestFound
    <3> QED
      BY <3>2, SlotsAssumption DEF MasterIsOldest
  <2>2. CASE master # i
    <3>1. master' = master
      BY <2>2 DEF Close
    <3> QED
      BY <2>2, <3>1, <1>1, <1>2 DEF ConnInv, ConnTypeOK, MasterIsOldest
  <2> QED
    BY <2>1, <2>2
<1>4. reconnect_cnt' = [reconnect_cnt EXCEPT ![i] = Backoff(reconnect_cnt[i])]
  BY DEF Close
<1>5. /\ Backoff(reconnect_cnt[i]) \in MIN_RECONNECT_CNT \div 2 .. MAX_RECONNECT_CNT
      /\ Backoff(reconnect_cnt[i]) > 0 /\ Backoff(reconnect_cnt[i]) \in Nat
  BY BackoffBounded DEF ConnInv, ConnTypeOK
<1>6. ConnTypeOK'
  BY <1>2, <1>3, <1>4, <1>5 DEF ConnInv, ConnTypeOK, Close
<1>7. DelayBounded'
  BY <1>4, <1>5, ReconnectAssumption DEF ConnInv, ConnTypeOK, DelayBounded, Null, Close
<1>8. TimesPassed'
  BY <1>1, <1>2 DEF ConnInv, TimesPassed
<1> QED
  BY <1>3, <1>6, <1>7, <1>8 DEF ConnInv

LEMMA StepKeepsConnInv == ConnInv /\ [ConnNext]_servVars => ConnInv'
<1> SUFFICES ASSUME ConnInv, [ConnNext]_servVars PROVE ConnInv'
  OBVIOUS
<1>1. CASE UNCHANGED servVars
  BY <1>1 DEF servVars, ConnInv, ConnTypeOK, MasterIsOldest, DelayBounded, Null, TimesPassed
<1> QED
  BY <1>1, TickKeepsConnInv, OnConfirmKeepsConnInv, CloseKeepsConnInv DEF ConnNext

\* The variables of the connection list keep their types in every reachable state.
THEOREM ServConnTypeOK == ConnSpec => []ConnTypeOK
<1>1. ConnInv => ConnTypeOK
  BY DEF ConnInv
<1> QED
  BY <1>1, InitConnInv, StepKeepsConnInv, PTL DEF ConnSpec

\* g_master_rs_conn is NULL exactly when no connection is open; otherwise it is an open one,
\* never a closed and deleted object, and none is older: for any number of servers.
THEOREM ServConnMasterIsOldest == ConnSpec => []MasterIsOldest
<1>1. ConnInv => MasterIsOldest
  BY DEF ConnInv
<1> QED
  BY <1>1, InitConnInv, StepKeepsConnInv, PTL DEF ConnSpec

\* The wait of a slot for its next attempt never exceeds MAX_RECONNECT_CNT rounds of the timer,
\* whatever doubling serv_reset has done.
THEOREM ServConnDelayBounded == ConnSpec => []DelayBounded
<1>1. ConnInv => DelayBounded
  BY DEF ConnInv
<1> QED
  BY <1>1, InitConnInv, StepKeepsConnInv, PTL DEF ConnSpec
=============================================================================
