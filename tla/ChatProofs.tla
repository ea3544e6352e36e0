----------------------------- MODULE ChatProofs -----------------------------
(***************************************************************************)
(* Proofs about Chat for any msg_servers, connections, users, links and    *)
(* bounds.  Who is told to go was superseded, or is on a msg_server that   *)
(* lost a link.  The argument follows a kick.  On its way to the           *)
(* route_server, all sessions that it could hit are due but those of the   *)
(* msg_server that it comes from (KicksUp): the login that asked for it.   *)
(* The broadcast leaves out its link, and while no link was lost that is   *)
(* the msg_server's only one, so that on the way to a msg_server all       *)
(* sessions there are due (KicksDown).                                     *)
(*                                                                         *)
(* Of two clients of a class one is told to go: that kick is under way     *)
(* while neither was (ActiveInv).  A message is given once: it is in one   *)
(* place at a time, and ahead of it nothing was sent (OnceInv).  And it is *)
(* missed by nobody: who was not sent it is still ahead of it (MissInv).   *)
(***************************************************************************)
EXTENDS Chat, WellFoundedInduction, TLAPS

\* Only a link that was made has pdus on the way to the route_server.
UpSound == \A l \in Links : up[l] # <<>> => link[l] # "new"

\* A session that no kick is in order for, but which a kick in queue q would hit.
Endangered(c, q) ==
    /\ conns[c] # None /\ ~conns[c].due
    /\ InQueue(q, KickPdu(conns[c].user, conns[c].class))

KicksUp == \A l \in Links, c \in Conns :
    Endangered(c, up[l]) => c[1] = l[1] \/ c[1] \in dropped

KicksDown == \A l \in Links, c \in Conns :
    Endangered(c, down[l]) => c[1] # l[1] \/ c[1] \in dropped

IInv == TypeOK /\ UpSound /\ KicksUp /\ KicksDown /\ LatestStays

-----------------------------------------------------------------------------
(* Queues *)

LEMMA AppendQueue ==
  ASSUME NEW q \in Seq(Pdu), NEW e \in Pdu, NEW p, InQueue(Append(q, e), p)
  PROVE  InQueue(q, p) \/ p = e
  BY DEF InQueue

LEMMA TailQueue ==
  ASSUME NEW q \in Seq(Pdu), q # <<>>
  PROVE  /\ Head(q) \in Pdu /\ Tail(q) \in Seq(Pdu) /\ InQueue(q, Head(q))
         /\ \A p : InQueue(Tail(q), p) => InQueue(q, p)
<1>1. Head(q) \in Pdu /\ Tail(q) \in Seq(Pdu) /\ Len(q) \in Nat /\ Len(q) >= 1
  OBVIOUS
<1>2. Head(q) = q[1] /\ 1 \in DOMAIN q
  BY <1>1
<1>3. ASSUME NEW p, InQueue(Tail(q), p) PROVE InQueue(q, p)
  <2>1. PICK i \in 1..(Len(q) - 1) : Tail(q)[i] = p
    BY <1>1, <1>3 DEF InQueue
  <2>2. i + 1 \in DOMAIN q /\ q[i + 1] = p
    BY <1>1, <2>1
  <2> QED
    BY <2>2 DEF InQueue
<1> QED
  BY <1>1, <1>2, <1>3 DEF InQueue

LEMMA PduTypes ==
  /\ \A m \in Msgs : [kind |-> "data", msg |-> m] \in Pdu
  /\ \A u \in Users, k \in Classes : KickPdu(u, k) \in Pdu
  /\ \A m, u, k : KickPdu(u, k) # [kind |-> "data", msg |-> m]
<1>1. \A m, u, k : KickPdu(u, k).kind = "kick" /\ [kind |-> "data", msg |-> m].kind = "data"
  BY DEF KickPdu
<1> QED
  BY <1>1 DEF Pdu, KickPdu

LEMMA KickPduSame ==
  ASSUME NEW u, NEW k, NEW v, NEW j, KickPdu(u, k) = KickPdu(v, j)
  PROVE  u = v /\ k = j
<1>1. KickPdu(u, k).user = u /\ KickPdu(u, k).class = k /\ KickPdu(v, j).user = v /\ KickPdu(v, j).class = j
  BY DEF KickPdu
<1> QED
  BY <1>1

\* A pdu to the route_server is the only one that is new, on a link that was open.
LEMMA ToRouteOf ==
  ASSUME TypeOK, NEW s, NEW e \in Pdu, ToRoute(s, e)
  PROVE  /\ up' \in [Links -> Seq(Pdu)]
         /\ \A l \in Links : up'[l] # <<>> => up[l] # <<>> \/ link[l] = "open"
         /\ \A l \in Links : \A p : InQueue(up'[l], p) => InQueue(up[l], p) \/ (p = e /\ l[1] = s)
<1>1. ASSUME NEW l \in Links
      PROVE  /\ up'[l] \in Seq(Pdu)
             /\ up'[l] # <<>> => up[l] # <<>> \/ link[l] = "open"
             /\ \A p : InQueue(up'[l], p) => InQueue(up[l], p) \/ (p = e /\ l[1] = s)
  <2>1. up[l] \in Seq(Pdu)
    BY DEF TypeOK
  <2>2. CASE l[1] = s /\ link[l] = "open"
    <3>1. up'[l] = Append(up[l], e)
      BY <2>2 DEF ToRoute
    <3> QED
      BY <2>1, <2>2, <3>1, AppendQueue
  <2>3. CASE ~(l[1] = s /\ link[l] = "open")
    <3>1. up'[l] = up[l]
      BY <2>3 DEF ToRoute
    <3> QED
      BY <2>1, <3>1
  <2> QED
    BY <2>2, <2>3
<1>2. up' = [l \in Links |-> up'[l]]
  BY DEF ToRoute
<1>3. up' \in [Links -> Seq(Pdu)]
  BY <1>1, <1>2
<1> QED
  BY <1>1, <1>3

-----------------------------------------------------------------------------
(* Sessions *)

LEMMA NatMinimum ==
  ASSUME NEW T, T \subseteq Nat, T # {}
  PROVE  \E x \in T : \A y \in T : x <= y
<1>1. PICK x \in T : \A y \in T : ~ (<<y, x>> \in OpToRel(<, Nat))
  BY NatLessThanWellFounded, WFMin
<1>2. ASSUME NEW y \in T PROVE x <= y
  <2>1. x \in Nat /\ y \in Nat
    OBVIOUS
  <2>2. y < x => <<y, x>> \in OpToRel(<, Nat)
    BY <2>1 DEF OpToRel
  <2>3. ~(y < x)
    BY <1>1, <2>2
  <2> QED
    BY <2>1, <2>3
<1> QED
  BY <1>2

\* KickOutSameClientType hits a connection of the class, if there is one.
LEMMA TargetIn ==
  ASSUME NEW C, C \subseteq Conns, C # {}
  PROVE  Target(C) \in C
<1>1. \A c \in C : c[2] \in Nat
  BY ConnsAssumption
<1>2. PICK h \in {c[2] : c \in C} : \A g \in {c[2] : c \in C} : h <= g
  <2>1. {c[2] : c \in C} \subseteq Nat /\ {c[2] : c \in C} # {}
    BY <1>1
  <2> QED
    BY <2>1, NatMinimum
<1>3. PICK c \in C : c[2] = h
  BY <1>2
<1>4. \A d \in C : c[2] <= d[2]
  BY <1>2, <1>3
<1> QED
  BY <1>4 DEF Target

ConnTable == [Conns -> Session \cup {None}]

\* A kick sets m_bKickOff of one connection of the user and class on the msg_server.
LEMMA KickOutOf ==
  ASSUME conns \in ConnTable, NEW u, NEW k, NEW s
  PROVE  /\ KickOut(u, k, s) \in ConnTable
         /\ \A c \in Conns :
              LET old == conns[c]
                  new == KickOut(u, k, s)[c]
              IN  new # None =>
                    /\ old # None
                    /\ new.user = old.user /\ new.class = old.class /\ new.due = old.due
                    /\ new.kicked /\ ~old.kicked => c[1] = s /\ old.user = u /\ old.class = k
<1> DEFINE C == SameClass(u, k, s)
<1>1. C \subseteq Conns
      /\ \A c \in C : conns[c] # None /\ c[1] = s /\ conns[c].user = u /\ conns[c].class = k
  BY DEF SameClass, SessionsOf
<1>2. CASE C = {}
  BY <1>2 DEF KickOut
<1>3. CASE C # {}
  <2> DEFINE t == Target(C)
  <2>1. t \in C
    BY <1>1, <1>3, TargetIn
  <2>2. KickOut(u, k, s) = [conns EXCEPT ![t].kicked = TRUE]
    BY <1>3 DEF KickOut
  <2> HIDE DEF t, C
  <2>3. conns[t] \in Session
    BY <1>1, <2>1 DEF ConnTable
  <2>4. [conns[t] EXCEPT !.kicked = TRUE] \in Session
    BY <2>3 DEF Session
  <2>5. KickOut(u, k, s) \in ConnTable
    BY <1>1, <2>1, <2>2, <2>4 DEF ConnTable
  <2>6. \A c \in Conns : c # t => KickOut(u, k, s)[c] = conns[c]
    BY <2>2 DEF ConnTable
  <2>7. KickOut(u, k, s)[t] = [conns[t] EXCEPT !.kicked = TRUE]
    BY <1>1, <2>1, <2>2 DEF ConnTable
  <2>8. conns[t] # None /\ t[1] = s /\ conns[t].user = u /\ conns[t].class = k
    BY <1>1, <2>1
  <2>9. /\ KickOut(u, k, s)[t].user = conns[t].user /\ KickOut(u, k, s)[t].class = conns[t].class
        /\ KickOut(u, k, s)[t].due = conns[t].due
    BY <2>3, <2>7 DEF Session
  <2> QED
    BY <2>5, <2>6, <2>8, <2>9
<1> QED
  BY <1>2, <1>3

LEMMA SupersedeOf ==
  ASSUME NEW cs \in ConnTable, NEW u, NEW k
  PROVE  /\ Supersede(cs, u, k) \in ConnTable
         /\ \A c \in Conns :
              LET old == cs[c]
                  new == Supersede(cs, u, k)[c]
              IN  new # None =>
                    /\ old # None
                    /\ new.user = old.user /\ new.class = old.class /\ new.kicked = old.kicked
                    /\ ~new.due => ~old.due /\ ~(old.user = u /\ old.class = k)
<1>1. ASSUME NEW c \in Conns, cs[c] # None
      PROVE  /\ cs[c] \in Session /\ [cs[c] EXCEPT !.due = TRUE] \in Session
             /\ [cs[c] EXCEPT !.due = TRUE].user = cs[c].user
             /\ [cs[c] EXCEPT !.due = TRUE].class = cs[c].class
             /\ [cs[c] EXCEPT !.due = TRUE].kicked = cs[c].kicked
             /\ [cs[c] EXCEPT !.due = TRUE].due
  BY <1>1 DEF ConnTable, Session
<1>2. \A c \in Conns : Supersede(cs, u, k)[c] =
         IF cs[c] # None /\ cs[c].user = u /\ cs[c].class = k
         THEN [cs[c] EXCEPT !.due = TRUE] ELSE cs[c]
  BY DEF Supersede
<1>3. Supersede(cs, u, k) \in ConnTable
  BY <1>1 DEF Supersede, ConnTable
<1> QED
  BY <1>1, <1>2, <1>3

LEMMA RekickTypes ==
  ASSUME TypeOK, NEW u \in Users, NEW k, NEW s, NoteRekick(u, k, s)
  PROVE  rekicked' \subseteq Users
  BY DEF TypeOK, NoteRekick

LEMMA SendTypes ==
  ASSUME NEW g \in [Conns -> [Msgs -> Nat]], NEW m \in Msgs, NEW C
  PROVE  Send(g, m, C) \in [Conns -> [Msgs -> Nat]]
  BY DEF Send

-----------------------------------------------------------------------------
(* What keeps the invariant *)

\* Sessions that are no more endangered than before: those there are were there, for the same
\* user and class, and are due if they were.
SessionsKept ==
    \A c \in Conns : conns'[c] # None =>
        /\ conns[c] # None
        /\ conns'[c].user = conns[c].user /\ conns'[c].class = conns[c].class
        /\ ~conns'[c].due => ~conns[c].due

NoNewKicks(q, r) == \A u, k : InQueue(r, KickPdu(u, k)) => InQueue(q, KickPdu(u, k))

LEMMA KicksKept ==
  ASSUME KicksUp, KicksDown, SessionsKept, dropped \subseteq dropped',
         \A l \in Links : NoNewKicks(up[l], up'[l]) /\ NoNewKicks(down[l], down'[l])
  PROVE  KicksUp' /\ KicksDown'
<1>1. ASSUME NEW l \in Links, NEW c \in Conns
      PROVE  /\ Endangered(c, up[l])' => Endangered(c, up[l])
             /\ Endangered(c, down[l])' => Endangered(c, down[l])
  BY DEF SessionsKept, NoNewKicks, Endangered
<1> QED
  BY <1>1 DEF KicksUp, KicksDown

LEMMA StaysKept ==
  ASSUME LatestStays, dropped \subseteq dropped',
         \A c \in Conns : conns'[c] # None /\ conns'[c].kicked /\ ~conns'[c].due =>
            \/ c[1] \in dropped
            \/ conns[c] # None /\ conns[c].kicked /\ ~conns[c].due
  PROVE  LatestStays'
  BY DEF LatestStays

LEMMA DroppedOf == /\ dropped \subseteq Servers
                   /\ link' = link => dropped' = dropped
                   /\ \A l \in Links : link[l] \notin {"new", "open"} => l[1] \in dropped
  BY LinksAssumption DEF dropped

LEMMA ToRouteOther ==
  ASSUME TypeOK, NEW s, NEW e \in Pdu, \A u, k : KickPdu(u, k) # e, ToRoute(s, e)
  PROVE  /\ up' \in [Links -> Seq(Pdu)]
         /\ \A l \in Links : up'[l] # <<>> => up[l] # <<>> \/ link[l] = "open"
         /\ \A l \in Links : NoNewKicks(up[l], up'[l])
<1>1. \A l \in Links : \A p : InQueue(up'[l], p) => InQueue(up[l], p) \/ p = e
  BY ToRouteOf
<1>2. ASSUME NEW l \in Links, NEW u, NEW k, InQueue(up'[l], KickPdu(u, k))
      PROVE  InQueue(up[l], KickPdu(u, k))
  <2> DEFINE p == KickPdu(u, k)
  <2>1. p # e /\ InQueue(up'[l], p)
    BY <1>2
  <2> HIDE DEF p
  <2>2. InQueue(up[l], p)
    BY <1>1, <2>1
  <2> QED
    BY <2>2 DEF p
<1>3. \A l \in Links : NoNewKicks(up[l], up'[l])
  BY <1>2 DEF NoNewKicks
<1> QED
  BY <1>3, ToRouteOf

\* Steps that touch no session and no link, and send nothing or a message to the route_server
LEMMA MessageStep ==
  ASSUME IInv, UNCHANGED <<conns, link, down, kicks, rekicked, left>>,
         UNCHANGED up \/ \E m \in Msgs : \E s : ToRoute(s, [kind |-> "data", msg |-> m]),
         msgs' \in [Msgs -> Msg \cup {None}], infos' \subseteq Info,
         got' \in [Conns -> [Msgs -> Nat]]
  PROVE  IInv'
<1>1. /\ up' \in [Links -> Seq(Pdu)]
      /\ \A l \in Links : up'[l] # <<>> => up[l] # <<>> \/ link[l] = "open"
      /\ \A l \in Links : NoNewKicks(up[l], up'[l])
  <2>1. CASE UNCHANGED up
    BY <2>1 DEF IInv, TypeOK, NoNewKicks
  <2>2. ASSUME NEW m \in Msgs, NEW s, ToRoute(s, [kind |-> "data", msg |-> m])
        PROVE  /\ up' \in [Links -> Seq(Pdu)]
               /\ \A l \in Links : up'[l] # <<>> => up[l] # <<>> \/ link[l] = "open"
               /\ \A l \in Links : NoNewKicks(up[l], up'[l])
    BY <2>2, PduTypes, ToRouteOther DEF IInv
  <2> QED
    BY <2>1, <2>2
<1>2. TypeOK'
  BY <1>1 DEF IInv, TypeOK
<1>3. UpSound'
  BY <1>1 DEF IInv, UpSound
<1>4. SessionsKept /\ dropped' = dropped
  BY DroppedOf DEF SessionsKept
<1>5. KicksUp' /\ KicksDown'
  <2>1. \A l \in Links : NoNewKicks(down[l], down'[l])
    BY DEF NoNewKicks
  <2> QED
    BY <1>1, <1>4, <2>1, KicksKept DEF IInv
<1>6. LatestStays'
  BY <1>4, StaysKept DEF IInv
<1> QED
  BY <1>2, <1>3, <1>5, <1>6 DEF IInv

\* Steps that ask all msg_servers but s to kick, with what becomes of the sessions: the ones the
\* kick could hit are due, and a new one is on s and does not cross an earlier kick unless due.
LEMMA KickStep ==
  ASSUME IInv, NEW u \in Users, NEW k \in Classes, NEW s, ToRoute(s, KickPdu(u, k)),
         UNCHANGED <<msgs, infos, link, down, got, left>>,
         kicks' \in 0..MaxKicks, rekicked' \subseteq Users, conns' \in ConnTable,
         \A c \in Conns : conns'[c] # None =>
            \/ /\ conns[c] # None
               /\ conns'[c].user = conns[c].user /\ conns'[c].class = conns[c].class
               /\ ~conns'[c].due => ~conns[c].due /\ ~(conns[c].user = u /\ conns[c].class = k)
               /\ conns'[c].kicked /\ ~conns'[c].due => conns[c].kicked
            \/ /\ c[1] = s /\ conns'[c].user = u /\ conns'[c].class = k
               /\ ~conns'[c].kicked
               /\ ~conns'[c].due => ~UnderWay(KickPdu(u, k))
  PROVE  IInv'
<1> DEFINE Kept(c) == /\ conns[c] # None
                      /\ conns'[c].user = conns[c].user /\ conns'[c].class = conns[c].class
                      /\ ~conns'[c].due => ~conns[c].due /\ ~(conns[c].user = u /\ conns[c].class = k)
                      /\ conns'[c].kicked /\ ~conns'[c].due => conns[c].kicked
           Fresh(c) == /\ c[1] = s /\ conns'[c].user = u /\ conns'[c].class = k
                       /\ ~conns'[c].kicked
                       /\ ~conns'[c].due => ~UnderWay(KickPdu(u, k))
<1>1. \A c \in Conns : conns'[c] # None => Kept(c) \/ Fresh(c)
  OBVIOUS
<1>2. /\ up' \in [Links -> Seq(Pdu)]
      /\ \A l \in Links : up'[l] # <<>> => up[l] # <<>> \/ link[l] = "open"
      /\ \A l \in Links : \A p :
            InQueue(up'[l], p) => InQueue(up[l], p) \/ (p = KickPdu(u, k) /\ l[1] = s)
  BY PduTypes, ToRouteOf DEF IInv
<1>3. TypeOK'
  BY <1>2 DEF IInv, TypeOK, ConnTable
<1>4. UpSound'
  BY <1>2 DEF IInv, UpSound
<1>5. dropped' = dropped
  BY DroppedOf
<1>6. ASSUME NEW l \in Links, NEW c \in Conns, Endangered(c, up[l])'
      PROVE  c[1] = l[1] \/ c[1] \in dropped
  <2>1. /\ conns'[c] # None /\ ~conns'[c].due
        /\ InQueue(up'[l], KickPdu(conns'[c].user, conns'[c].class))
    BY <1>6 DEF Endangered
  <2>2. \/ InQueue(up[l], KickPdu(conns'[c].user, conns'[c].class))
        \/ KickPdu(conns'[c].user, conns'[c].class) = KickPdu(u, k) /\ l[1] = s
    BY <1>2, <2>1
  <2>3. CASE Kept(c)
    <3>1. ~(conns'[c].user = u /\ conns'[c].class = k)
      BY <2>1, <2>3
    <3>2. InQueue(up[l], KickPdu(conns[c].user, conns[c].class))
      BY <2>2, <2>3, <3>1, KickPduSame
    <3> QED
      BY <2>1, <2>3, <3>2 DEF IInv, KicksUp, Endangered
  <2>4. CASE Fresh(c)
    <3>1. ~InQueue(up[l], KickPdu(u, k))
      BY <2>1, <2>4 DEF UnderWay
    <3> QED
      BY <2>2, <2>4, <3>1
  <2> QED
    BY <1>1, <2>1, <2>3, <2>4
<1>7. ASSUME NEW l \in Links, NEW c \in Conns, Endangered(c, down[l])'
      PROVE  c[1] # l[1] \/ c[1] \in dropped
  <2>1. /\ conns'[c] # None /\ ~conns'[c].due
        /\ InQueue(down[l], KickPdu(conns'[c].user, conns'[c].class))
    BY <1>7 DEF Endangered
  <2>2. CASE Kept(c)
    BY <2>1, <2>2 DEF IInv, KicksDown, Endangered
  <2>3. CASE Fresh(c)
    BY <2>1, <2>3 DEF UnderWay
  <2> QED
    BY <1>1, <2>1, <2>2, <2>3
<1>8. LatestStays'
  <2>1. \A c \in Conns : conns'[c] # None /\ conns'[c].kicked /\ ~conns'[c].due =>
           conns[c] # None /\ conns[c].kicked /\ ~conns[c].due
    BY <1>1
  <2> QED
    BY <1>5, <2>1, StaysKept DEF IInv
<1>9. KicksUp' /\ KicksDown'
  BY <1>5, <1>6, <1>7 DEF KicksUp, KicksDown
<1> QED
  BY <1>3, <1>4, <1>8, <1>9 DEF IInv

-----------------------------------------------------------------------------
(* The steps *)

LEMMA InitStep == Init => IInv
<1> SUFFICES ASSUME Init PROVE IInv
  OBVIOUS
<1>1. conns \in [Conns -> Session \cup {None}]
  <2>1. \A c \in DOMAIN First : First[c][1] \in Users /\ First[c][2] \in Classes
    BY FirstAssumption, ClientsAssumption
  <2>2. \A c \in DOMAIN First :
           [user |-> First[c][1], class |-> First[c][2], kicked |-> FALSE, due |-> FALSE, old |-> {}]
             \in Session
    BY <2>1 DEF Session
  <2> QED
    BY <2>2 DEF Init
<1>2. \A k, l \in Links : link[k] \in MsgOpen /\ link[l] \in MsgOpen /\ k[1] = l[1] => k = l
  <2>1. \A l \in Links : link[l] \in MsgOpen => l[2] = 1
    BY DEF Init, MsgOpen
  <2> QED
    BY <2>1, LinksAssumption
<1>3. TypeOK
  BY <1>1, <1>2, BoundAssumption DEF Init, TypeOK, Link
<1>4. \A l \in Links : up[l] = <<>> /\ down[l] = <<>>
  BY DEF Init
<1>5. UpSound /\ KicksUp /\ KicksDown
  BY <1>4 DEF UpSound, KicksUp, KicksDown, Endangered, InQueue
<1>6. LatestStays
  <2>1. \A c \in Conns : conns[c] # None => ~conns[c].kicked
    BY DEF Init
  <2> QED
    BY <2>1 DEF LatestStays
<1> QED
  BY <1>3, <1>5, <1>6 DEF IInv

LEMMA LoginStep ==
  ASSUME IInv, NEW c \in Conns, NEW u \in Users, NEW k \in Classes, Login(c, u, k)
  PROVE  IInv'
<1> DEFINE out == KickOut(u, k, c[1])
           rest == Supersede(out, u, k)
<1>1. conns \in ConnTable /\ conns[c] = None
  BY DEF IInv, TypeOK, ConnTable, Login
<1>2. out \in ConnTable
      /\ \A d \in Conns : out[d] # None =>
            /\ conns[d] # None
            /\ out[d].user = conns[d].user /\ out[d].class = conns[d].class /\ out[d].due = conns[d].due
            /\ out[d].kicked /\ ~conns[d].kicked => conns[d].user = u /\ conns[d].class = k
  BY <1>1, KickOutOf
<1> HIDE DEF out
<1>3. rest \in ConnTable
      /\ \A d \in Conns : rest[d] # None =>
            /\ out[d] # None
            /\ rest[d].user = out[d].user /\ rest[d].class = out[d].class
            /\ rest[d].kicked = out[d].kicked
            /\ ~rest[d].due => ~out[d].due /\ ~(out[d].user = u /\ out[d].class = k)
  BY <1>2, SupersedeOf
<1>4. conns' = [rest EXCEPT ![c] = NewSession(u, k)]
  BY DEF Login, out
<1> HIDE DEF rest
<1>5. /\ NewSession(u, k) \in Session
      /\ NewSession(u, k).user = u /\ NewSession(u, k).class = k /\ ~NewSession(u, k).kicked
      /\ ~NewSession(u, k).due => ~UnderWay(KickPdu(u, k))
  <2>1. UnderWay(KickPdu(u, k)) \in BOOLEAN
    BY DEF UnderWay
  <2>2. Stored \subseteq Msgs
    BY DEF Stored
  <2> QED
    BY <2>1, <2>2 DEF NewSession, Session
<1>6. conns' \in ConnTable
  BY <1>3, <1>4, <1>5 DEF ConnTable
<1>7. conns'[c] = NewSession(u, k) /\ \A d \in Conns \ {c} : conns'[d] = rest[d]
  BY <1>3, <1>4 DEF ConnTable
<1>8. ASSUME NEW d \in Conns, d # c, conns'[d] # None
      PROVE  /\ conns[d] # None
             /\ conns'[d].user = conns[d].user /\ conns'[d].class = conns[d].class
             /\ ~conns'[d].due => ~conns[d].due /\ ~(conns[d].user = u /\ conns[d].class = k)
             /\ conns'[d].kicked /\ ~conns'[d].due => conns[d].kicked
  <2>1. conns'[d] = rest[d] /\ rest[d] # None
    BY <1>7, <1>8
  <2>2. out[d] # None
    BY <1>3, <2>1
  <2> QED
    BY <1>2, <1>3, <2>1, <2>2
<1>9. kicks' \in 0..MaxKicks
  BY BoundAssumption DEF IInv, TypeOK, Login
<1>10. rekicked' \subseteq Users
  BY RekickTypes DEF IInv, Login
<1>11. /\ ToRoute(c[1], KickPdu(u, k))
       /\ UNCHANGED <<msgs, infos, link, down, got, left>>
  BY DEF Login
<1>12. \A d \in Conns : conns'[d] # None =>
          \/ /\ conns[d] # None
             /\ conns'[d].user = conns[d].user /\ conns'[d].class = conns[d].class
             /\ ~conns'[d].due => ~conns[d].due /\ ~(conns[d].user = u /\ conns[d].class = k)
             /\ conns'[d].kicked /\ ~conns'[d].due => conns[d].kicked
          \/ /\ d[1] = c[1] /\ conns'[d].user = u /\ conns'[d].class = k
             /\ ~conns'[d].kicked
             /\ ~conns'[d].due => ~UnderWay(KickPdu(u, k))
  BY <1>5, <1>7, <1>8
<1> QED
  BY <1>6, <1>9, <1>10, <1>11, <1>12, KickStep

LEMMA KickPCClientStep ==
  ASSUME IInv, NEW c \in Conns, KickPCClient(c)
  PROVE  IInv'
<1> DEFINE u == conns[c].user
           out == KickOut(u, "pc", c[1])
<1>1. conns \in ConnTable
  BY DEF IInv, TypeOK, ConnTable
<1>2. u \in Users /\ "pc" \in Classes
  BY <1>1 DEF ConnTable, Session, KickPCClient, Classes
<1>3. /\ conns' = Supersede(out, u, "pc") /\ NoteRekick(u, "pc", c[1])
      /\ ToRoute(c[1], KickPdu(u, "pc")) /\ UNCHANGED <<msgs, infos, link, down, got, left>>
  BY DEF KickPCClient
<1>4. kicks' \in 0..MaxKicks
  BY BoundAssumption DEF IInv, TypeOK, KickPCClient
<1> HIDE DEF u
<1>5. out \in ConnTable
      /\ \A d \in Conns : out[d] # None =>
            /\ conns[d] # None
            /\ out[d].user = conns[d].user /\ out[d].class = conns[d].class /\ out[d].due = conns[d].due
            /\ out[d].kicked /\ ~conns[d].kicked => conns[d].user = u /\ conns[d].class = "pc"
  BY <1>1, KickOutOf
<1> HIDE DEF out
<1>6. conns' \in ConnTable
      /\ \A d \in Conns : conns'[d] # None =>
            /\ out[d] # None
            /\ conns'[d].user = out[d].user /\ conns'[d].class = out[d].class
            /\ conns'[d].kicked = out[d].kicked
            /\ ~conns'[d].due => ~out[d].due /\ ~(out[d].user = u /\ out[d].class = "pc")
  BY <1>3, <1>5, SupersedeOf
<1>7. rekicked' \subseteq Users
  BY <1>2, <1>3, RekickTypes DEF IInv
<1>8. ASSUME NEW d \in Conns, conns'[d] # None
      PROVE  /\ conns[d] # None
             /\ conns'[d].user = conns[d].user /\ conns'[d].class = conns[d].class
             /\ ~conns'[d].due => ~conns[d].due /\ ~(conns[d].user = u /\ conns[d].class = "pc")
             /\ conns'[d].kicked /\ ~conns'[d].due => conns[d].kicked
  <2>1. out[d] # None
    BY <1>6, <1>8
  <2> QED
    BY <1>5, <1>6, <1>8, <2>1
<1> QED
  BY <1>2, <1>3, <1>4, <1>6, <1>7, <1>8, KickStep

LEMMA CloseStep ==
  ASSUME IInv, NEW c \in Conns, Close(c)
  PROVE  IInv'
<1>1. conns' \in ConnTable /\ \A d \in Conns : conns'[d] # None => conns'[d] = conns[d]
  BY DEF IInv, TypeOK, ConnTable, Close
<1>2. TypeOK'
  BY <1>1 DEF IInv, TypeOK, ConnTable, Close, linkVars
<1>3. dropped' = dropped /\ UNCHANGED <<up, down, link>>
  BY DroppedOf DEF Close, linkVars
<1>4. SessionsKept /\ \A l \in Links : NoNewKicks(up[l], up'[l]) /\ NoNewKicks(down[l], down'[l])
  BY <1>1, <1>3 DEF SessionsKept, NoNewKicks
<1>5. KicksUp' /\ KicksDown'
  BY <1>3, <1>4, KicksKept DEF IInv
<1>6. LatestStays'
  BY <1>1, <1>3, StaysKept DEF IInv
<1>7. UpSound'
  BY <1>3 DEF IInv, UpSound
<1> QED
  BY <1>2, <1>5, <1>6, <1>7 DEF IInv

LEMMA MessageTypes ==
  ASSUME IInv, NEW m \in Msgs, msgs[m] # None
  PROVE  msgs[m] \in Msg /\ msgs[m].via[1] \in Servers /\ msgs[m].via[2] \in Nat
BY ConnsAssumption DEF IInv, TypeOK, Msg

LEMMA ClientMsgDataStep ==
  ASSUME IInv, NEW c \in Conns, NEW m \in Msgs, NEW to \in Users \cup {Group}, ClientMsgData(c, m, to)
  PROVE  IInv'
<1> DEFINE kind == IF to = Group THEN "group" ELSE "single"
<1>1. conns[c].user \in Users /\ kind \in Kinds
  BY DEF ClientMsgData, IInv, TypeOK, Session
<1> HIDE DEF kind
<1>2. NewMsg(c, to, kind, "asked") \in Msg
  BY <1>1 DEF NewMsg, Msg
<1>3. msgs' \in [Msgs -> Msg \cup {None}]
  BY <1>2 DEF ClientMsgData, IInv, TypeOK, kind
<1> QED
  BY <1>3, MessageStep DEF ClientMsgData, linkVars, IInv, TypeOK

LEMMA StoreStep ==
  ASSUME IInv, NEW m \in Msgs, Store(m)
  PROVE  IInv'
<1>1. [msgs[m] EXCEPT !.state = "stored"] \in Msg
  BY MessageTypes DEF Store, Msg
<1>2. msgs' \in [Msgs -> Msg \cup {None}]
  BY <1>1 DEF Store, IInv, TypeOK
<1> QED
  BY <1>2, MessageStep DEF Store, linkVars, IInv, TypeOK

LEMMA MsgDataAnswerStep ==
  ASSUME IInv, NEW m \in Msgs, MsgDataAnswer(m)
  PROVE  IInv'
<1>1. [msgs[m] EXCEPT !.state = "done"] \in Msg
  BY MessageTypes DEF MsgDataAnswer, Msg
<1>2. msgs' \in [Msgs -> Msg \cup {None}]
  BY <1>1 DEF MsgDataAnswer, IInv, TypeOK
<1>3. got' \in [Conns -> [Msgs -> Nat]]
  BY SendTypes DEF MsgDataAnswer, ToBoth, IInv, TypeOK
<1>4. \E s : ToRoute(s, [kind |-> "data", msg |-> m])
  BY DEF MsgDataAnswer
<1> QED
  BY <1>2, <1>3, <1>4, MessageStep DEF MsgDataAnswer, IInv, TypeOK

LEMMA GroupMsgAnswerStep ==
  ASSUME IInv, NEW m \in Msgs, GroupMsgAnswer(m)
  PROVE  IInv'
<1>1. [msgs[m] EXCEPT !.state = "done"] \in Msg
  BY MessageTypes DEF GroupMsgAnswer, Msg
<1>2. msgs' \in [Msgs -> Msg \cup {None}]
  BY <1>1 DEF GroupMsgAnswer, IInv, TypeOK
<1>3. infos' \subseteq Info
  BY MessageTypes DEF GroupMsgAnswer, IInv, TypeOK, Info
<1>4. \E s : ToRoute(s, [kind |-> "data", msg |-> m])
  BY DEF GroupMsgAnswer
<1> QED
  BY <1>2, <1>3, <1>4, MessageStep DEF GroupMsgAnswer, IInv, TypeOK

LEMMA GroupInfoAnswerStep ==
  ASSUME IInv, NEW i \in infos, GroupInfoAnswer(i)
  PROVE  IInv'
<1>1. i.msg \in Msgs
  BY DEF IInv, TypeOK, Info
<1>2. got' \in [Conns -> [Msgs -> Nat]]
  BY <1>1, SendTypes DEF GroupInfoAnswer, IInv, TypeOK
<1>3. infos' \subseteq Info
  BY DEF GroupInfoAnswer, IInv, TypeOK
<1> QED
  BY <1>2, <1>3, MessageStep DEF GroupInfoAnswer, linkVars, IInv, TypeOK

LEMMA NoticeStep ==
  ASSUME IInv, NEW c \in Conns, NEW m \in Msgs, Notice(c, m)
  PROVE  IInv'
<1>1. conns[c].user \in Users /\ "notice" \in Kinds
  BY DEF Notice, IInv, TypeOK, Session
<1>2. NewMsg(c, conns[c].user, "notice", "done") \in Msg
  BY <1>1 DEF NewMsg, Msg
<1>3. msgs' \in [Msgs -> Msg \cup {None}]
  BY <1>2 DEF Notice, IInv, TypeOK
<1>4. got' \in [Conns -> [Msgs -> Nat]]
  BY SendTypes DEF Notice, IInv, TypeOK
<1>5. \E s : ToRoute(s, [kind |-> "data", msg |-> m])
  BY DEF Notice
<1> QED
  BY <1>3, <1>4, <1>5, MessageStep DEF Notice, IInv, TypeOK

LEMMA P2PCmdMsgStep ==
  ASSUME IInv, NEW c \in Conns, NEW m \in Msgs, NEW to, P2PCmdMsg(c, m, to)
  PROVE  IInv'
<1>1. conns[c].user \in Users /\ to \in Users /\ "p2p" \in Kinds
  BY DEF P2PCmdMsg, IInv, TypeOK, Session
<1>2. NewMsg(c, to, "p2p", "done") \in Msg
  BY <1>1 DEF NewMsg, Msg
<1>3. msgs' \in [Msgs -> Msg \cup {None}]
  BY <1>2 DEF P2PCmdMsg, IInv, TypeOK
<1>4. got' \in [Conns -> [Msgs -> Nat]]
  BY SendTypes DEF P2PCmdMsg, IInv, TypeOK
<1>5. \E s : ToRoute(s, [kind |-> "data", msg |-> m])
  BY DEF P2PCmdMsg
<1> QED
  BY <1>3, <1>4, <1>5, MessageStep DEF P2PCmdMsg, IInv, TypeOK

LEMMA ConnectStep ==
  ASSUME IInv, NEW s, Connect(s)
  PROVE  IInv'
<1>1. PICK l \in Links : l[1] = s /\ link[l] = "new" /\ link' = [link EXCEPT ![l] = "open"]
  BY DEF Connect
<1>2. /\ link'[l] = "open" /\ \A k \in Links \ {l} : link'[k] = link[k]
      /\ link' \in [Links -> Link]
  BY <1>1 DEF IInv, TypeOK, Link
<1>3. UNCHANGED <<conns, msgs, infos, up, down, got, kicks, rekicked, left>>
  BY DEF Connect
<1>4. \A k, j \in Links : link'[k] \in MsgOpen /\ link'[j] \in MsgOpen /\ k[1] = j[1] => k = j
  BY <1>1, <1>2 DEF Connect, IInv, TypeOK
<1>5. TypeOK'
  BY <1>2, <1>3, <1>4 DEF IInv, TypeOK, MsgOpen
<1>6. dropped \subseteq dropped'
  BY <1>1, <1>2 DEF dropped
<1>7. UpSound'
  BY <1>2, <1>3 DEF IInv, UpSound
<1>8. SessionsKept /\ \A j \in Links : NoNewKicks(up[j], up'[j]) /\ NoNewKicks(down[j], down'[j])
  BY <1>3 DEF SessionsKept, NoNewKicks
<1>9. KicksUp' /\ KicksDown'
  BY <1>6, <1>8, KicksKept DEF IInv
<1>10. LatestStays'
  BY <1>3, <1>6, StaysKept DEF IInv
<1> QED
  BY <1>5, <1>7, <1>9, <1>10 DEF IInv

\* The end of a link that is closed throws its queue away; the msg_server has now lost a link.
LEMMA CloseLinkStep ==
  ASSUME IInv, NEW l \in Links, MsgClose(l) \/ RouteClose(l)
  PROVE  IInv'
<1>1. /\ UNCHANGED <<conns, msgs, infos, got, kicks, rekicked, left>>
      /\ link' \in [Links -> Link]
      /\ link[l] # "new" /\ link'[l] \notin {"new", "open"} /\ \A k \in Links \ {l} : link'[k] = link[k]
      /\ link'[l] \in MsgOpen => link[l] \in MsgOpen
  BY DEF MsgClose, RouteClose, IInv, TypeOK, Link, MsgOpen
<1>2. \A k \in Links : /\ up'[k] = up[k] \/ up'[k] = <<>>
                       /\ down'[k] = down[k] \/ down'[k] = <<>>
  <2>1. \A k \in Links : (MsgClose(l) => up'[k] = up[k]) /\ (RouteClose(l) => down'[k] = down[k])
    BY DEF MsgClose, RouteClose
  <2>2. ASSUME MsgClose(l), NEW k \in Links PROVE down'[k] = down[k] \/ down'[k] = <<>>
    BY <2>2 DEF MsgClose, IInv, TypeOK
  <2>3. ASSUME RouteClose(l), NEW k \in Links PROVE up'[k] = up[k] \/ up'[k] = <<>>
    BY <2>3 DEF RouteClose, IInv, TypeOK
  <2> QED
    BY <2>1, <2>2, <2>3
<1>3. up' \in [Links -> Seq(Pdu)] /\ down' \in [Links -> Seq(Pdu)]
  <2>1. <<>> \in Seq(Pdu)
    OBVIOUS
  <2>2. MsgClose(l) => down' \in [Links -> Seq(Pdu)] /\ up' = up
    BY <2>1 DEF MsgClose, IInv, TypeOK
  <2>3. RouteClose(l) => up' \in [Links -> Seq(Pdu)] /\ down' = down
    BY <2>1 DEF RouteClose, IInv, TypeOK
  <2> QED
    BY <2>2, <2>3 DEF IInv, TypeOK
<1>4. TypeOK'
  BY <1>1, <1>3 DEF IInv, TypeOK
<1>5. dropped \subseteq dropped'
  BY <1>1 DEF dropped
<1>6. UpSound'
  BY <1>1, <1>2 DEF IInv, UpSound
<1>7. SessionsKept
  BY <1>1 DEF SessionsKept
<1>8. \A k \in Links : NoNewKicks(up[k], up'[k]) /\ NoNewKicks(down[k], down'[k])
  BY <1>2 DEF NoNewKicks, InQueue
<1>9. KicksUp' /\ KicksDown'
  BY <1>5, <1>7, <1>8, KicksKept DEF IInv
<1>10. LatestStays'
  BY <1>1, <1>5, StaysKept DEF IInv
<1> QED
  BY <1>4, <1>6, <1>9, <1>10 DEF IInv

\* The broadcast: of the links that it goes to, none is of the msg_server that the kick is from,
\* or that has lost the link that the kick came on.
LEMMA RouteReadStep ==
  ASSUME IInv, NEW l \in Links, RouteRead(l)
  PROVE  IInv'
<1> DEFINE e == Head(up[l])
<1>1. up[l] # <<>> /\ up[l] \in Seq(Pdu)
      /\ UNCHANGED <<conns, msgs, infos, link, got, kicks, rekicked, left>>
  BY DEF RouteRead, IInv, TypeOK
<1>2. /\ e \in Pdu /\ Tail(up[l]) \in Seq(Pdu) /\ InQueue(up[l], e)
      /\ \A p : InQueue(Tail(up[l]), p) => InQueue(up[l], p)
  BY <1>1, TailQueue
<1>3. \A k \in Links : up'[k] = IF k = l THEN Tail(up[l]) ELSE up[k]
  BY DEF RouteRead, IInv, TypeOK
<1>4. \A k \in Links : down'[k] = IF k # l /\ link[k] = "open" THEN Append(down[k], e) ELSE down[k]
  BY DEF RouteRead
<1> HIDE DEF e
<1>5. up' \in [Links -> Seq(Pdu)] /\ down' \in [Links -> Seq(Pdu)]
  <2>1. up' = [up EXCEPT ![l] = Tail(up[l])]
    BY DEF RouteRead
  <2>2. up' \in [Links -> Seq(Pdu)]
    BY <1>2, <2>1 DEF IInv, TypeOK
  <2>3. down' = [k \in Links |-> down'[k]]
    BY DEF RouteRead
  <2>4. ASSUME NEW k \in Links PROVE down'[k] \in Seq(Pdu)
    <3>1. down[k] \in Seq(Pdu)
      BY DEF IInv, TypeOK
    <3>2. Append(down[k], e) \in Seq(Pdu)
      BY <1>2, <3>1
    <3> QED
      BY <1>4, <3>1, <3>2
  <2> QED
    BY <2>2, <2>3, <2>4
<1>6. TypeOK'
  BY <1>1, <1>5 DEF IInv, TypeOK
<1>7. dropped' = dropped
  BY <1>1, DroppedOf
<1>8. UpSound'
  BY <1>1, <1>3 DEF IInv, UpSound
<1>9. KicksUp'
  <2>1. ASSUME NEW k \in Links, NEW c \in Conns, Endangered(c, up[k])' PROVE Endangered(c, up[k])
    <3>1. conns'[c] = conns[c] /\ (up'[k] = up[k] \/ (k = l /\ up'[k] = Tail(up[l])))
      BY <1>1, <1>3
    <3> QED
      BY <1>2, <2>1, <3>1 DEF Endangered
  <2> QED
    BY <1>7, <2>1 DEF IInv, KicksUp
<1>10. KicksDown'
  <2> SUFFICES ASSUME NEW k \in Links, NEW c \in Conns, Endangered(c, down[k])'
               PROVE  c[1] # k[1] \/ c[1] \in dropped
    BY <1>7 DEF KicksDown
  <2>1. conns[c] # None /\ ~conns[c].due /\ InQueue(down'[k], KickPdu(conns[c].user, conns[c].class))
    BY <1>1 DEF Endangered
  <2>2. CASE InQueue(down[k], KickPdu(conns[c].user, conns[c].class))
    BY <2>1, <2>2 DEF IInv, KicksDown, Endangered
  <2>3. CASE ~InQueue(down[k], KickPdu(conns[c].user, conns[c].class))
    <3>1. k # l /\ link[k] = "open" /\ down'[k] = Append(down[k], e)
      BY <1>4, <2>1, <2>3
    <3>2. KickPdu(conns[c].user, conns[c].class) = e
      <4>1. down[k] \in Seq(Pdu)
        BY DEF IInv, TypeOK
      <4> QED
        BY <1>2, <2>1, <2>3, <3>1, <4>1, AppendQueue
    <3>3. c[1] = l[1] \/ c[1] \in dropped
      BY <1>2, <2>1, <3>2 DEF IInv, KicksUp, Endangered
    <3>4. ASSUME k[1] = l[1] PROVE l[1] \in dropped
      <4>1. link[l] \notin MsgOpen
        BY <3>1, <3>4 DEF IInv, TypeOK, MsgOpen
      <4>2. link[l] # "new"
        BY <1>1 DEF IInv, UpSound
      <4> QED
        BY <4>1, <4>2, DroppedOf DEF MsgOpen
    <3> QED
      BY <3>3, <3>4
  <2> QED
    BY <2>2, <2>3
<1>11. LatestStays'
  BY <1>1, <1>7, StaysKept DEF IInv
<1> QED
  BY <1>6, <1>8, <1>9, <1>10, <1>11 DEF IInv

LEMMA ServerReadStep ==
  ASSUME IInv, NEW l \in Links, ServerRead(l)
  PROVE  IInv'
<1> DEFINE e == Head(down[l])
<1>1. down[l] # <<>> /\ down[l] \in Seq(Pdu) /\ UNCHANGED <<msgs, link, up, kicks, left>>
  BY DEF ServerRead, IInv, TypeOK
<1>2. /\ e \in Pdu /\ Tail(down[l]) \in Seq(Pdu) /\ InQueue(down[l], e)
      /\ \A p : InQueue(Tail(down[l]), p) => InQueue(down[l], p)
  BY <1>1, TailQueue
<1>3. \A k \in Links : down'[k] = IF k = l THEN Tail(down[l]) ELSE down[k]
  BY DEF ServerRead, IInv, TypeOK
<1>4. ReadKick(l, l[1], e) \/ ReadData(l, l[1], e) \/ ReadGroupData(l, l[1], e)
  BY DEF ServerRead
<1> HIDE DEF e
<1>5. up' \in [Links -> Seq(Pdu)] /\ down' \in [Links -> Seq(Pdu)]
  <2>1. down' = [down EXCEPT ![l] = Tail(down[l])]
    BY DEF ServerRead
  <2> QED
    BY <1>1, <1>2, <2>1 DEF IInv, TypeOK
<1>6. dropped' = dropped
  BY <1>1, DroppedOf
<1>7. \A k \in Links : NoNewKicks(up[k], up'[k]) /\ NoNewKicks(down[k], down'[k])
  BY <1>1, <1>2, <1>3 DEF NoNewKicks
<1>8. UpSound'
  BY <1>1 DEF IInv, UpSound
<1>9. /\ conns' \in ConnTable /\ infos' \subseteq Info /\ got' \in [Conns -> [Msgs -> Nat]]
      /\ rekicked' \subseteq Users /\ SessionsKept /\ LatestStays'
  <2>1. CASE ReadKick(l, l[1], e)
    <3>1. e.user \in Users /\ e.class \in Classes /\ e = KickPdu(e.user, e.class)
      BY <1>2, <2>1 DEF ReadKick, Pdu, KickPdu
    <3>2. conns \in ConnTable /\ conns' = KickOut(e.user, e.class, l[1])
      BY <2>1 DEF ReadKick, IInv, TypeOK, ConnTable
    <3>3. conns' \in ConnTable
          /\ \A c \in Conns : conns'[c] # None =>
                /\ conns[c] # None
                /\ conns'[c].user = conns[c].user /\ conns'[c].class = conns[c].class
                /\ conns'[c].due = conns[c].due
                /\ conns'[c].kicked /\ ~conns[c].kicked =>
                      c[1] = l[1] /\ conns[c].user = e.user /\ conns[c].class = e.class
      BY <3>2, KickOutOf
    <3>4. ASSUME NEW c \in Conns, conns'[c] # None, conns'[c].kicked, ~conns'[c].due
          PROVE  c[1] \in dropped \/ (conns[c] # None /\ conns[c].kicked /\ ~conns[c].due)
      <4>1. CASE conns[c].kicked
        BY <3>3, <3>4, <4>1
      <4>2. CASE ~conns[c].kicked
        <5>1. conns[c] # None /\ ~conns[c].due /\ c[1] = l[1]
              /\ conns[c].user = e.user /\ conns[c].class = e.class
          BY <3>3, <3>4, <4>2
        <5>2. Endangered(c, down[l])
          BY <1>2, <3>1, <5>1 DEF Endangered
        <5> QED
          BY <5>1, <5>2 DEF IInv, KicksDown
      <4> QED
        BY <4>1, <4>2
    <3>5. LatestStays'
      BY <1>6, <3>4, StaysKept DEF IInv
    <3>6. SessionsKept
      BY <3>3 DEF SessionsKept
    <3>7. rekicked' \subseteq Users
      BY <2>1, <3>1, RekickTypes DEF ReadKick, IInv
    <3> QED
      BY <2>1, <3>3, <3>5, <3>6, <3>7 DEF ReadKick, IInv, TypeOK
  <2>2. CASE ReadData(l, l[1], e) \/ ReadGroupData(l, l[1], e)
    <3>1. UNCHANGED <<conns, rekicked>>
      BY <2>2 DEF ReadData, ReadGroupData
    <3>2. e.msg \in Msgs /\ l[1] \in Servers
      BY <1>2, <2>2, LinksAssumption DEF ReadData, ReadGroupData, Pdu
    <3>3. infos' \subseteq Info
      BY <2>2, <3>2 DEF ReadData, ReadGroupData, IInv, TypeOK, Info
    <3>4. got' \in [Conns -> [Msgs -> Nat]]
      <4>1. /\ Send(got, e.msg, SessionsOf(msgs[e.msg].from, l[1])) \in [Conns -> [Msgs -> Nat]]
            /\ Send(got, e.msg, SessionsOf(msgs[e.msg].from, l[1]) \ {None}) \in [Conns -> [Msgs -> Nat]]
        BY <3>2, SendTypes DEF IInv, TypeOK
      <4>2. ToBoth(got, e.msg, l[1], None) \in [Conns -> [Msgs -> Nat]]
        BY <3>2, <4>1, SendTypes DEF ToBoth
      <4> QED
        BY <2>2, <4>1, <4>2 DEF ReadData, ReadGroupData, IInv, TypeOK
    <3>5. SessionsKept
      BY <3>1 DEF SessionsKept
    <3>6. LatestStays'
      BY <1>6, <3>1, StaysKept DEF IInv
    <3> QED
      BY <3>1, <3>3, <3>4, <3>5, <3>6 DEF IInv, TypeOK, ConnTable
  <2> QED
    BY <1>4, <2>1, <2>2
<1>10. TypeOK'
  BY <1>1, <1>5, <1>9 DEF IInv, TypeOK, ConnTable
<1>11. KicksUp' /\ KicksDown'
  BY <1>6, <1>7, <1>9, KicksKept DEF IInv
<1> QED
  BY <1>8, <1>9, <1>10, <1>11 DEF IInv

LEMMA NextStep ==
  ASSUME IInv, Next
  PROVE  IInv'
<1>1. ASSUME NEW c \in Conns, NEW u \in Users, NEW k \in Classes, Login(c, u, k) PROVE IInv'
  BY <1>1, LoginStep
<1>2. ASSUME NEW c \in Conns, Close(c) \/ KickPCClient(c) PROVE IInv'
  BY <1>2, CloseStep, KickPCClientStep
<1>3. ASSUME NEW c \in Conns, NEW m \in Msgs, NEW to \in Users \cup {Group},
             ClientMsgData(c, m, to) \/ P2PCmdMsg(c, m, to)
      PROVE  IInv'
  BY <1>3, ClientMsgDataStep, P2PCmdMsgStep
<1>4. ASSUME NEW c \in Conns, NEW m \in Msgs, Notice(c, m) PROVE IInv'
  BY <1>4, NoticeStep
<1>5. ASSUME NEW m \in Msgs, Store(m) \/ MsgDataAnswer(m) \/ GroupMsgAnswer(m) PROVE IInv'
  BY <1>5, StoreStep, MsgDataAnswerStep, GroupMsgAnswerStep
<1>6. ASSUME NEW i \in infos, GroupInfoAnswer(i) PROVE IInv'
  BY <1>6, GroupInfoAnswerStep
<1>7. ASSUME NEW s \in Servers, Connect(s) PROVE IInv'
  BY <1>7, ConnectStep
<1>8. ASSUME NEW l \in Links, MsgClose(l) \/ RouteClose(l) PROVE IInv'
  BY <1>8, CloseLinkStep
<1>9. ASSUME NEW l \in Links, RouteRead(l) PROVE IInv'
  BY <1>9, RouteReadStep
<1>10. ASSUME NEW l \in Links, ServerRead(l) PROVE IInv'
  BY <1>10, ServerReadStep
<1> QED
  BY <1>1, <1>2, <1>3, <1>4, <1>5, <1>6, <1>7, <1>8, <1>9, <1>10 DEF Next

LEMMA StutterStep ==
  ASSUME IInv, UNCHANGED vars
  PROVE  IInv'
<1>1. UNCHANGED <<conns, msgs, infos, link, up, down, got, kicks, rekicked, left>>
  BY DEF vars, linkVars
<1> QED
  BY <1>1, MessageStep DEF IInv, TypeOK

LEMMA Invariance == Spec => []IInv
<1>1. IInv /\ [Next]_vars => IInv'
  BY NextStep, StutterStep
<1> QED
  BY <1>1, InitStep, PTL DEF Spec

-----------------------------------------------------------------------------
(* One active client of a user and class.  Of two that no kick has hit,    *)
(* the later one logged in on another msg_server, and the kick that it     *)
(* asked for is on the way from its msg_server to the other one's.         *)

\* Each msg_server has made its first link.
FirstLinked == \A s \in Servers : link[<<s, 1>>] # "new"

\* Two clients of one user and class, neither of which was told to go, while every kick of the
\* user's clients hit one that was not.
Twins(c, d) ==
    /\ c # d /\ conns[c] # None /\ conns[d] # None
    /\ conns[c].user = conns[d].user /\ conns[c].class = conns[d].class
Spared(c, d) == ~conns[c].kicked /\ ~conns[d].kicked /\ conns[c].user \notin rekicked

\* A kick that is to hit one of them: from the msg_server of one, or already on the way to it
Coming(c, d) ==
    \E l \in Links :
        /\ l[1] \in {c[1], d[1]}
        /\ \/ InQueue(up[l], KickPdu(conns[c].user, conns[c].class))
           \/ InQueue(down[l], KickPdu(conns[c].user, conns[c].class))

KickPending(c, d) ==
    Twins(c, d) /\ Spared(c, d) =>
        c[1] # d[1] /\ (c[1] \in dropped \/ d[1] \in dropped \/ Coming(c, d))

ActiveInv == FirstLinked /\ \A c, d \in Conns : KickPending(c, d)

\* A session that is there was there, for the same user and class, and was not kicked if it is not.
Remains(c) ==
    conns'[c] # None =>
        /\ conns[c] # None
        /\ conns'[c].user = conns[c].user /\ conns'[c].class = conns[c].class
        /\ conns[c].kicked => conns'[c].kicked

LEMMA PendingKept ==
  ASSUME NEW c \in Conns, NEW d \in Conns, KickPending(c, d), Remains(c), Remains(d),
         rekicked \subseteq rekicked', dropped \subseteq dropped',
         \A l \in Links : l[1] \notin dropped' =>
            NoNewKicks(up'[l], up[l]) /\ NoNewKicks(down'[l], down[l])
  PROVE  KickPending(c, d)'
<1> SUFFICES ASSUME Twins(c, d)', Spared(c, d)'
             PROVE  c[1] # d[1] /\ (c[1] \in dropped' \/ d[1] \in dropped' \/ Coming(c, d)')
  BY DEF KickPending
<1>1. /\ Twins(c, d) /\ Spared(c, d)
      /\ conns'[c].user = conns[c].user /\ conns'[c].class = conns[c].class
  BY DEF Twins, Spared, Remains
<1>2. c[1] # d[1] /\ (c[1] \in dropped \/ d[1] \in dropped \/ Coming(c, d))
  BY <1>1 DEF KickPending
<1>3. ASSUME Coming(c, d), c[1] \notin dropped', d[1] \notin dropped'
      PROVE  Coming(c, d)'
  <2>1. PICK l \in Links : /\ l[1] \in {c[1], d[1]}
                           /\ \/ InQueue(up[l], KickPdu(conns[c].user, conns[c].class))
                              \/ InQueue(down[l], KickPdu(conns[c].user, conns[c].class))
    BY <1>3 DEF Coming
  <2>2. NoNewKicks(up'[l], up[l]) /\ NoNewKicks(down'[l], down[l])
    BY <1>3, <2>1
  <2>3. \/ InQueue(up'[l], KickPdu(conns'[c].user, conns'[c].class))
        \/ InQueue(down'[l], KickPdu(conns'[c].user, conns'[c].class))
    BY <1>1, <2>1, <2>2 DEF NoNewKicks
  <2> QED
    BY <2>1, <2>3 DEF Coming
<1> QED
  BY <1>2, <1>3

LEMMA ActiveKept ==
  ASSUME ActiveInv, \A c \in Conns : Remains(c),
         rekicked \subseteq rekicked', dropped \subseteq dropped',
         \A l \in Links : link[l] # "new" => link'[l] # "new",
         \A l \in Links : l[1] \notin dropped' =>
            NoNewKicks(up'[l], up[l]) /\ NoNewKicks(down'[l], down[l])
  PROVE  ActiveInv'
<1>1. FirstLinked'
  BY LinksAssumption DEF ActiveInv, FirstLinked
<1>2. \A c, d \in Conns : KickPending(c, d)'
  BY PendingKept DEF ActiveInv
<1> QED
  BY <1>1, <1>2 DEF ActiveInv

\* A kick leaves who is kicked, and hits one of the class.
LEMMA KickOutHits ==
  ASSUME conns \in ConnTable, NEW u, NEW k, NEW s
  PROVE  /\ \A c \in Conns : /\ KickOut(u, k, s)[c] # None => conns[c] # None
                             /\ conns[c] # None /\ conns[c].kicked => KickOut(u, k, s)[c].kicked
         /\ SameClass(u, k, s) # {} =>
               /\ Target(SameClass(u, k, s)) \in SameClass(u, k, s)
               /\ KickOut(u, k, s)[Target(SameClass(u, k, s))].kicked
<1> DEFINE C == SameClass(u, k, s)
           t == Target(C)
<1>1. C \subseteq Conns
  BY DEF SameClass, SessionsOf
<1>2. CASE C = {}
  BY <1>2 DEF KickOut
<1>3. CASE C # {}
  <2>1. t \in C
    BY <1>1, <1>3, TargetIn
  <2>2. conns[t] # None /\ conns[t] \in Session
    BY <1>1, <2>1 DEF SameClass, SessionsOf, ConnTable
  <2>3. KickOut(u, k, s) = [conns EXCEPT ![t].kicked = TRUE]
    BY <1>3 DEF KickOut
  <2> HIDE DEF t, C
  <2>4. /\ KickOut(u, k, s)[t] = [conns[t] EXCEPT !.kicked = TRUE]
        /\ \A c \in Conns : c # t => KickOut(u, k, s)[c] = conns[c]
    BY <1>1, <2>1, <2>3 DEF ConnTable
  <2>5. KickOut(u, k, s)[t].kicked
    BY <2>2, <2>4 DEF Session
  <2> QED
    BY <2>1, <2>2, <2>4, <2>5 DEF t, C
<1> QED
  BY <1>2, <1>3

\* Of a user's clients of a class on a msg_server, a kick leaves none that it could have hit: there
\* was one at most that was not kicked before.
LEMMA KickHits ==
  ASSUME conns \in ConnTable, ActiveInv, NEW c \in Conns, conns[c] # None,
         NoteRekick(conns[c].user, conns[c].class, c[1])
  PROVE  KickOut(conns[c].user, conns[c].class, c[1])[c].kicked \/ conns[c].user \in rekicked'
<1> DEFINE u == conns[c].user
           k == conns[c].class
           C == SameClass(u, k, c[1])
           t == Target(C)
<1>1. c \in C
  BY DEF SameClass, SessionsOf
<1>2. t \in C /\ KickOut(u, k, c[1])[t].kicked
  BY <1>1, KickOutHits
<1>3. t \in Conns /\ conns[t] # None /\ t[1] = c[1] /\ conns[t].user = u /\ conns[t].class = k
  BY <1>2 DEF SameClass, SessionsOf
<1>4. CASE conns[t].kicked
  BY <1>1, <1>4 DEF NoteRekick
<1>5. CASE t = c
  BY <1>2, <1>5
<1>6. CASE t # c /\ ~conns[t].kicked
  <2>1. Twins(t, c)
    BY <1>3, <1>6 DEF Twins
  <2>2. ~Spared(t, c)
    BY <1>3, <2>1 DEF ActiveInv, KickPending
  <2>3. conns[c].kicked \/ u \in rekicked
    BY <1>3, <1>6, <2>2 DEF Spared
  <2>4. rekicked \subseteq rekicked'
    BY DEF NoteRekick
  <2> QED
    BY <2>3, <2>4, KickOutHits
<1> QED
  BY <1>4, <1>5, <1>6

LEMMA QueueKeeps ==
  ASSUME NEW q \in Seq(Pdu), NEW e \in Pdu
  PROVE  /\ InQueue(Append(q, e), e)
         /\ \A p : InQueue(q, p) => InQueue(Append(q, e), p)
         /\ \A p : q # <<>> /\ InQueue(q, p) => InQueue(Tail(q), p) \/ p = Head(q)
<1>1. InQueue(Append(q, e), e)
  <2>1. Len(q) + 1 \in DOMAIN Append(q, e) /\ Append(q, e)[Len(q) + 1] = e
    OBVIOUS
  <2> QED
    BY <2>1 DEF InQueue
<1>2. ASSUME NEW p, InQueue(q, p) PROVE InQueue(Append(q, e), p)
  <2>1. PICK i \in DOMAIN q : q[i] = p
    BY <1>2 DEF InQueue
  <2>2. i \in DOMAIN Append(q, e) /\ Append(q, e)[i] = p
    BY <2>1
  <2> QED
    BY <2>2 DEF InQueue
<1>3. ASSUME NEW p, q # <<>>, InQueue(q, p), p # Head(q) PROVE InQueue(Tail(q), p)
  <2>1. PICK i \in 1..Len(q) : q[i] = p
    BY <1>3 DEF InQueue
  <2>2. i # 1 /\ Len(q) \in Nat /\ Head(q) = q[1]
    BY <1>3, <2>1
  <2>3. i - 1 \in DOMAIN Tail(q) /\ Tail(q)[i - 1] = p
    BY <1>3, <2>1, <2>2
  <2> QED
    BY <2>3 DEF InQueue
<1> QED
  BY <1>1, <1>2, <1>3

\* A msg_server that has lost no link has its first one.
LEMMA FirstOpen ==
  ASSUME FirstLinked, NEW s \in Servers, s \notin dropped
  PROVE  <<s, 1>> \in Links /\ link[<<s, 1>>] = "open"
<1>1. <<s, 1>> \in Links /\ <<s, 1>>[1] = s /\ link[<<s, 1>>] # "new"
  BY LinksAssumption DEF FirstLinked
<1> QED
  BY <1>1 DEF dropped

LEMMA ToRouteReaches ==
  ASSUME TypeOK, NEW s, NEW e \in Pdu, ToRoute(s, e)
  PROVE  /\ \A l \in Links : \A p : InQueue(up[l], p) => InQueue(up'[l], p)
         /\ \A l \in Links : l[1] = s /\ link[l] = "open" => InQueue(up'[l], e)
<1>1. ASSUME NEW l \in Links
      PROVE  /\ \A p : InQueue(up[l], p) => InQueue(up'[l], p)
             /\ l[1] = s /\ link[l] = "open" => InQueue(up'[l], e)
  <2>1. up[l] \in Seq(Pdu)
    BY DEF TypeOK
  <2>2. CASE l[1] = s /\ link[l] = "open"
    <3>1. up'[l] = Append(up[l], e)
      BY <2>2 DEF ToRoute
    <3> QED
      BY <2>1, <3>1, QueueKeeps
  <2>3. CASE ~(l[1] = s /\ link[l] = "open")
    BY <2>3 DEF ToRoute
  <2> QED
    BY <2>2, <2>3
<1> QED
  BY <1>1

LEMMA NoteKeeps ==
  ASSUME NEW u, NEW k, NEW s, NoteRekick(u, k, s)
  PROVE  rekicked \subseteq rekicked'
  BY DEF NoteRekick

\* A kick, and the mark that those it is meant for are due, end no session.
LEMMA KickRemains ==
  ASSUME conns \in ConnTable, NEW u, NEW k, NEW s,
         conns' = KickOut(u, k, s) \/ conns' = Supersede(KickOut(u, k, s), u, k)
  PROVE  \A c \in Conns : Remains(c) /\ (KickOut(u, k, s)[c].kicked /\ conns'[c] # None => conns'[c].kicked)
<1> DEFINE out == KickOut(u, k, s)
<1>1. /\ out \in ConnTable
      /\ \A c \in Conns : out[c] # None =>
            conns[c] # None /\ out[c].user = conns[c].user /\ out[c].class = conns[c].class
  BY KickOutOf
<1>2. \A c \in Conns : conns[c] # None /\ conns[c].kicked => out[c].kicked
  BY KickOutHits
<1>3. conns' = out \/ conns' = Supersede(out, u, k)
  OBVIOUS
<1> HIDE DEF out
<1>4. \A c \in Conns : conns'[c] # None =>
         /\ out[c] # None /\ conns'[c].user = out[c].user /\ conns'[c].class = out[c].class
         /\ conns'[c].kicked = out[c].kicked
  BY <1>1, <1>3, SupersedeOf
<1>5. \A c \in Conns : Remains(c) /\ (out[c].kicked /\ conns'[c] # None => conns'[c].kicked)
  BY <1>1, <1>2, <1>4 DEF Remains
<1> QED
  BY <1>5 DEF out

LEMMA ActiveInit == Init => ActiveInv
<1> SUFFICES ASSUME Init PROVE ActiveInv
  OBVIOUS
<1>1. FirstLinked
  <2>1. ASSUME NEW s \in Servers PROVE link[<<s, 1>>] # "new"
    BY LinksAssumption DEF Init
  <2> QED
    BY <2>1 DEF FirstLinked
<1>2. ASSUME NEW c \in Conns, NEW d \in Conns, Twins(c, d) PROVE FALSE
  <2>1. c \in DOMAIN First /\ d \in DOMAIN First
    BY <1>2 DEF Init, Twins
  <2>2. conns[c].user = First[c][1] /\ conns[c].class = First[c][2]
        /\ conns[d].user = First[d][1] /\ conns[d].class = First[d][2]
    BY <2>1 DEF Init
  <2>3. First[c] = First[d]
    <3>1. First[c] \in Users \X Classes /\ First[d] \in Users \X Classes
      BY <2>1, FirstAssumption, ClientsAssumption
    <3>2. First[c][1] = First[d][1] /\ First[c][2] = First[d][2]
      BY <1>2, <2>2 DEF Twins
    <3> QED
      BY <3>1, <3>2
  <2> QED
    BY <1>2, <2>1, <2>3, FirstAssumption DEF Twins
<1> QED
  BY <1>1, <1>2 DEF ActiveInv, KickPending

\* Steps that leave the links as they are, end sessions at most, and send what they send
LEMMA ActiveQuietStep ==
  ASSUME IInv, ActiveInv, \A c \in Conns : conns'[c] # None => conns'[c] = conns[c],
         UNCHANGED <<link, down, rekicked>>,
         \/ UNCHANGED up
         \/ \E s, e : e \in Pdu /\ ToRoute(s, e)
  PROVE  ActiveInv'
<1>1. \A l \in Links : \A p : InQueue(up[l], p) => InQueue(up'[l], p)
  <2>1. ASSUME NEW s, NEW e \in Pdu, ToRoute(s, e)
        PROVE  \A l \in Links : \A p : InQueue(up[l], p) => InQueue(up'[l], p)
    BY <2>1, ToRouteReaches DEF IInv
  <2> QED
    BY <2>1
<1>2. \A l \in Links : NoNewKicks(up'[l], up[l]) /\ NoNewKicks(down'[l], down[l])
  BY <1>1 DEF NoNewKicks
<1>3. dropped' = dropped
  BY DroppedOf
<1>4. \A c \in Conns : Remains(c)
  BY DEF Remains
<1> QED
  BY <1>2, <1>3, <1>4, ActiveKept

LEMMA ActiveKickPCClient ==
  ASSUME IInv, ActiveInv, NEW c \in Conns, KickPCClient(c)
  PROVE  ActiveInv'
<1> DEFINE u == conns[c].user
<1>1. conns \in ConnTable
  BY DEF IInv, TypeOK, ConnTable
<1>2. u \in Users /\ KickPdu(u, "pc") \in Pdu
  <2>1. u \in Users
    BY <1>1 DEF ConnTable, Session, KickPCClient
  <2> QED
    BY <2>1, PduTypes DEF Classes
<1>3. /\ conns' = Supersede(KickOut(u, "pc", c[1]), u, "pc") /\ NoteRekick(u, "pc", c[1])
      /\ ToRoute(c[1], KickPdu(u, "pc")) /\ UNCHANGED <<link, down>>
  BY DEF KickPCClient
<1> HIDE DEF u
<1>4. \A d \in Conns : Remains(d)
  BY <1>1, <1>3, KickRemains
<1>5. rekicked \subseteq rekicked' /\ dropped' = dropped
  BY <1>3, NoteKeeps, DroppedOf
<1>6. \A l \in Links : \A p : InQueue(up[l], p) => InQueue(up'[l], p)
  BY <1>2, <1>3, ToRouteReaches DEF IInv
<1>7. \A l \in Links : NoNewKicks(up'[l], up[l]) /\ NoNewKicks(down'[l], down[l])
  BY <1>3, <1>6 DEF NoNewKicks
<1> QED
  BY <1>3, <1>4, <1>5, <1>7, ActiveKept

\* The client that logs in is the only one on its msg_server that no kick has hit, and asks for the
\* kick of those elsewhere.
LEMMA ActiveLogin ==
  ASSUME IInv, ActiveInv, NEW c \in Conns, NEW u \in Users, NEW k \in Classes, Login(c, u, k)
  PROVE  ActiveInv'
<1> DEFINE out == KickOut(u, k, c[1])
           rest == Supersede(out, u, k)
           p == KickPdu(u, k)
<1>1. conns \in ConnTable /\ conns[c] = None
  BY DEF IInv, TypeOK, ConnTable, Login
<1>2. out \in ConnTable
      /\ \A d \in Conns : out[d] # None =>
            conns[d] # None /\ out[d].user = conns[d].user /\ out[d].class = conns[d].class
  BY <1>1, KickOutOf
<1>3. rest \in ConnTable
      /\ \A d \in Conns : rest[d] # None =>
            /\ out[d] # None
            /\ rest[d].user = out[d].user /\ rest[d].class = out[d].class
            /\ rest[d].kicked = out[d].kicked
  BY <1>2, SupersedeOf
<1>4. \A d \in Conns : conns[d] # None /\ conns[d].kicked => out[d].kicked
  BY <1>1, KickOutHits
<1>5. \A d \in Conns : conns[d] # None /\ d[1] = c[1] /\ conns[d].user = u /\ conns[d].class = k =>
         out[d].kicked \/ u \in rekicked'
  <2>1. ASSUME NEW d \in Conns, conns[d] # None, d[1] = c[1], conns[d].user = u, conns[d].class = k
        PROVE  out[d].kicked \/ u \in rekicked'
    <3>1. NoteRekick(conns[d].user, conns[d].class, d[1])
      BY <2>1 DEF Login
    <3>2. KickOut(conns[d].user, conns[d].class, d[1])[d].kicked \/ conns[d].user \in rekicked'
      BY <1>1, <2>1, <3>1, KickHits
    <3> QED
      BY <2>1, <3>2
  <2> QED
    BY <2>1
<1>6. p \in Pdu /\ ToRoute(c[1], p) /\ UNCHANGED <<link, down>> /\ rekicked \subseteq rekicked'
  BY PduTypes, NoteKeeps DEF Login
<1>7. dropped' = dropped
  BY <1>6, DroppedOf
<1>8. conns' = [rest EXCEPT ![c] = NewSession(u, k)]
  BY DEF Login
<1> HIDE DEF out, rest, p
<1>9. conns'[c] = NewSession(u, k) /\ \A d \in Conns : d # c => conns'[d] = rest[d]
  BY <1>3, <1>8 DEF ConnTable
<1>10. \A d \in Conns : d # c => Remains(d)
  BY <1>2, <1>3, <1>4, <1>9 DEF Remains
<1>11. /\ \A l \in Links : \A q : InQueue(up[l], q) => InQueue(up'[l], q)
       /\ \A l \in Links : l[1] = c[1] /\ link[l] = "open" => InQueue(up'[l], p)
  BY <1>6, ToRouteReaches DEF IInv
<1>12. \A l \in Links : NoNewKicks(up'[l], up[l]) /\ NoNewKicks(down'[l], down[l])
  BY <1>6, <1>11 DEF NoNewKicks
<1>13. \A a, d \in Conns : a # c /\ d # c => KickPending(a, d)'
  BY <1>6, <1>7, <1>10, <1>12, PendingKept DEF ActiveInv
<1>14. ASSUME NEW a \in Conns, NEW d \in Conns, c \in {a, d} PROVE KickPending(a, d)'
  <2> SUFFICES ASSUME Twins(a, d)', Spared(a, d)'
               PROVE  a[1] # d[1] /\ (a[1] \in dropped' \/ d[1] \in dropped' \/ Coming(a, d)')
    BY DEF KickPending
  <2>1. PICK b \in {a, d} : b # c
    BY DEF Twins
  <2>2. /\ b \in Conns /\ conns'[b] = rest[b] /\ rest[b] # None
        /\ ~conns'[b].kicked /\ {a, d} = {b, c}
    BY <1>9, <1>14, <2>1 DEF Twins, Spared
  <2>3. NewSession(u, k).user = u /\ NewSession(u, k).class = k
    BY DEF NewSession
  <2>4. /\ conns'[a].user = u /\ conns'[a].class = k /\ u \notin rekicked'
        /\ conns'[b].user = u /\ conns'[b].class = k
    BY <1>9, <1>14, <2>2, <2>3 DEF Twins, Spared
  <2>5. /\ conns[b] # None /\ conns[b].user = u /\ conns[b].class = k /\ ~out[b].kicked
    BY <1>2, <1>3, <2>2, <2>4
  <2>6. b[1] # c[1]
    BY <1>5, <2>2, <2>4, <2>5
  <2>7. ASSUME c[1] \notin dropped PROVE Coming(a, d)'
    <3>1. c[1] \in Servers
      BY ConnsAssumption
    <3>2. PICK l \in Links : l[1] = c[1] /\ link[l] = "open"
      BY <2>7, <3>1, FirstOpen DEF ActiveInv
    <3>3. InQueue(up'[l], KickPdu(conns'[a].user, conns'[a].class))
      BY <1>11, <2>4, <3>2 DEF p
    <3> QED
      BY <2>2, <3>2, <3>3 DEF Coming
  <2> QED
    BY <1>7, <2>2, <2>6, <2>7
<1>15. FirstLinked'
  BY <1>6 DEF ActiveInv, FirstLinked
<1> QED
  BY <1>13, <1>14, <1>15 DEF ActiveInv

LEMMA ActiveLinkStep ==
  ASSUME IInv, ActiveInv,
         (\E s \in Servers : Connect(s)) \/ (\E l \in Links : MsgClose(l) \/ RouteClose(l))
  PROVE  ActiveInv'
<1>1. ASSUME NEW s \in Servers, Connect(s) PROVE ActiveInv'
  <2>1. PICK l \in Links : link[l] = "new" /\ link' = [link EXCEPT ![l] = "open"]
    BY <1>1 DEF Connect
  <2>2. link'[l] = "open" /\ \A k \in Links : k # l => link'[k] = link[k]
    BY <2>1 DEF IInv, TypeOK
  <2>3. dropped \subseteq dropped'
    BY <2>1, <2>2 DEF dropped
  <2>4. UNCHANGED <<conns, up, down, rekicked>>
    BY <1>1 DEF Connect
  <2>5. /\ \A c \in Conns : Remains(c)
        /\ \A k \in Links : NoNewKicks(up'[k], up[k]) /\ NoNewKicks(down'[k], down[k])
    BY <2>4 DEF Remains, NoNewKicks
  <2>6. \A k \in Links : link[k] # "new" => link'[k] # "new"
    BY <2>2
  <2> QED
    BY <2>3, <2>4, <2>5, <2>6, ActiveKept
<1>2. ASSUME NEW l \in Links, MsgClose(l) \/ RouteClose(l) PROVE ActiveInv'
  <2>1. /\ UNCHANGED <<conns, rekicked>>
        /\ link[l] # "new" /\ link'[l] \notin {"new", "open"} /\ \A k \in Links : k # l => link'[k] = link[k]
    BY <1>2 DEF MsgClose, RouteClose, IInv, TypeOK, Link, MsgOpen
  <2>2. \A k \in Links : k # l => up'[k] = up[k] /\ down'[k] = down[k]
    BY <1>2 DEF MsgClose, RouteClose, IInv, TypeOK
  <2>3. dropped \subseteq dropped'
    BY <2>1 DEF dropped
  <2>4. l[1] \in dropped'
    BY <2>1, LinksAssumption DEF dropped
  <2>5. \A k \in Links : k[1] \notin dropped' =>
           NoNewKicks(up'[k], up[k]) /\ NoNewKicks(down'[k], down[k])
    BY <2>2, <2>4 DEF NoNewKicks
  <2>6. \A c \in Conns : Remains(c)
    BY <2>1 DEF Remains
  <2>7. \A k \in Links : link[k] # "new" => link'[k] # "new"
    BY <2>1
  <2> QED
    BY <2>1, <2>3, <2>5, <2>6, <2>7, ActiveKept
<1> QED
  BY <1>1, <1>2

\* The broadcast brings a kick from the msg_server of one client to that of the other.
LEMMA ActiveRouteRead ==
  ASSUME IInv, ActiveInv, NEW l \in Links, RouteRead(l)
  PROVE  ActiveInv'
<1> DEFINE e == Head(up[l])
<1>1. up[l] # <<>> /\ up[l] \in Seq(Pdu) /\ UNCHANGED <<conns, link, rekicked>>
  BY DEF RouteRead, IInv, TypeOK
<1>2. e \in Pdu
  BY <1>1, TailQueue
<1>3. /\ \A k \in Links : k # l => up'[k] = up[k]
      /\ up'[l] = Tail(up[l])
  BY DEF RouteRead, IInv, TypeOK
<1>4. \A k \in Links : down'[k] = IF k # l /\ link[k] = "open" THEN Append(down[k], e) ELSE down[k]
  BY DEF RouteRead
<1>5. \A p : InQueue(up[l], p) => InQueue(Tail(up[l]), p) \/ p = e
  BY <1>1, <1>2, QueueKeeps
<1> HIDE DEF e
<1>6. /\ \A k \in Links : \A p : InQueue(down[k], p) => InQueue(down'[k], p)
      /\ \A k \in Links : k # l /\ link[k] = "open" => InQueue(down'[k], e)
  <2>1. ASSUME NEW k \in Links
        PROVE  /\ \A p : InQueue(down[k], p) => InQueue(down'[k], p)
               /\ k # l /\ link[k] = "open" => InQueue(down'[k], e)
    <3>1. down[k] \in Seq(Pdu)
      BY DEF IInv, TypeOK
    <3> QED
      BY <1>2, <1>4, <3>1, QueueKeeps
  <2> QED
    BY <2>1
<1>7. dropped' = dropped /\ FirstLinked'
  BY <1>1, DroppedOf DEF ActiveInv, FirstLinked
<1>8. ASSUME NEW c \in Conns, NEW d \in Conns PROVE KickPending(c, d)'
  <2> SUFFICES ASSUME Twins(c, d)', Spared(c, d)'
               PROVE  c[1] # d[1] /\ (c[1] \in dropped \/ d[1] \in dropped \/ Coming(c, d)')
    BY <1>7 DEF KickPending
  <2>1. Twins(c, d) /\ Spared(c, d)
    BY <1>1 DEF Twins, Spared
  <2>2. c[1] # d[1] /\ (c[1] \in dropped \/ d[1] \in dropped \/ Coming(c, d))
    BY <2>1 DEF ActiveInv, KickPending
  <2>3. ASSUME Coming(c, d), c[1] \notin dropped, d[1] \notin dropped PROVE Coming(c, d)'
    <3> DEFINE p == KickPdu(conns[c].user, conns[c].class)
    <3>1. PICK k \in Links : k[1] \in {c[1], d[1]} /\ (InQueue(up[k], p) \/ InQueue(down[k], p))
      BY <2>3 DEF Coming
    <3>2. p = KickPdu(conns'[c].user, conns'[c].class)
      BY <1>1
    <3> HIDE DEF p
    <3>3. CASE InQueue(up'[k], p) \/ InQueue(down'[k], p)
      BY <3>1, <3>2, <3>3 DEF Coming
    <3>4. CASE k = l /\ p = e
      <4>1. PICK s \in {c[1], d[1]} : s # l[1]
        BY <2>2
      <4>2. s \in Servers /\ s \notin dropped
        BY <2>3, ConnsAssumption
      <4>3. PICK j \in Links : j[1] = s /\ link[j] = "open"
        BY <4>2, FirstOpen DEF ActiveInv
      <4>4. InQueue(down'[j], p)
        BY <1>6, <3>4, <4>1, <4>3
      <4> QED
        BY <3>2, <4>3, <4>4 DEF Coming
    <3> QED
      BY <1>3, <1>5, <1>6, <3>1, <3>3, <3>4
  <2> QED
    BY <2>2, <2>3
<1> QED
  BY <1>7, <1>8 DEF ActiveInv

\* The kick that arrives hits the one of the two that is there.
LEMMA ActiveServerRead ==
  ASSUME IInv, ActiveInv, NEW l \in Links, ServerRead(l)
  PROVE  ActiveInv'
<1> DEFINE e == Head(down[l])
<1>1. down[l] # <<>> /\ down[l] \in Seq(Pdu) /\ UNCHANGED <<link, up>>
  BY DEF ServerRead, IInv, TypeOK
<1>2. e \in Pdu
  BY <1>1, TailQueue
<1>3. /\ \A k \in Links : k # l => down'[k] = down[k]
      /\ down'[l] = Tail(down[l])
  BY DEF ServerRead, IInv, TypeOK
<1>4. ReadKick(l, l[1], e) \/ ReadData(l, l[1], e) \/ ReadGroupData(l, l[1], e)
  BY DEF ServerRead
<1>5. \A p : InQueue(down[l], p) => InQueue(Tail(down[l]), p) \/ p = e
  BY <1>1, <1>2, QueueKeeps
<1> HIDE DEF e
<1>6. dropped' = dropped /\ FirstLinked' /\ conns \in ConnTable
  BY <1>1, DroppedOf DEF ActiveInv, FirstLinked, IInv, TypeOK, ConnTable
<1>7. CASE ReadKick(l, l[1], e)
  <2>1. /\ conns' = KickOut(e.user, e.class, l[1]) /\ NoteRekick(e.user, e.class, l[1])
        /\ e = KickPdu(e.user, e.class)
    BY <1>2, <1>7 DEF ReadKick, Pdu, KickPdu
  <2>2. /\ \A c \in Conns : Remains(c)
        /\ rekicked \subseteq rekicked'
    BY <1>6, <2>1, KickRemains, NoteKeeps
  <2>3. ASSUME NEW c \in Conns, NEW d \in Conns PROVE KickPending(c, d)'
    <3> SUFFICES ASSUME Twins(c, d)', Spared(c, d)'
                 PROVE  c[1] # d[1] /\ (c[1] \in dropped \/ d[1] \in dropped \/ Coming(c, d)')
      BY <1>6 DEF KickPending
    <3>1. /\ Twins(c, d) /\ Spared(c, d)
          /\ conns'[c].user = conns[c].user /\ conns'[c].class = conns[c].class
      BY <2>2 DEF Twins, Spared, Remains
    <3>2. c[1] # d[1] /\ (c[1] \in dropped \/ d[1] \in dropped \/ Coming(c, d))
      BY <3>1 DEF ActiveInv, KickPending
    <3>3. ASSUME Coming(c, d) PROVE Coming(c, d)'
      <4> DEFINE p == KickPdu(conns[c].user, conns[c].class)
      <4>1. PICK k \in Links : k[1] \in {c[1], d[1]} /\ (InQueue(up[k], p) \/ InQueue(down[k], p))
        BY <3>3 DEF Coming
      <4>2. p = KickPdu(conns'[c].user, conns'[c].class)
        BY <3>1
      <4>3. ASSUME k = l, p = e PROVE FALSE
        <5>1. PICK b \in {c, d} : b[1] = l[1]
          BY <4>1, <4>3
        <5>2. /\ b \in Conns /\ conns[b] # None
              /\ conns[b].user = conns[c].user /\ conns[b].class = conns[c].class
              /\ ~conns'[b].kicked /\ conns'[b] # None /\ conns[c].user \notin rekicked'
          BY <3>1 DEF Twins, Spared
        <5>3. conns[b].user = e.user /\ conns[b].class = e.class
          BY <2>1, <4>3, <5>2, KickPduSame
        <5>4. KickOut(conns[b].user, conns[b].class, b[1])[b].kicked \/ conns[b].user \in rekicked'
          BY <1>6, <2>1, <5>1, <5>2, <5>3, KickHits
        <5> QED
          BY <2>1, <5>1, <5>2, <5>3, <5>4
      <4> HIDE DEF p
      <4>4. InQueue(up'[k], p) \/ InQueue(down'[k], p)
        BY <1>1, <1>3, <1>5, <4>1, <4>3
      <4> QED
        BY <4>1, <4>2, <4>4 DEF Coming
    <3> QED
      BY <3>2, <3>3
  <2> QED
    BY <1>6, <2>3 DEF ActiveInv
<1>8. CASE ReadData(l, l[1], e) \/ ReadGroupData(l, l[1], e)
  <2>1. UNCHANGED <<conns, rekicked>> /\ e.kind = "data"
    BY <1>8 DEF ReadData, ReadGroupData
  <2>2. \A u, k : KickPdu(u, k) # e
    BY <2>1 DEF KickPdu
  <2>3. \A k \in Links : NoNewKicks(up'[k], up[k]) /\ NoNewKicks(down'[k], down[k])
    BY <1>1, <1>3, <1>5, <2>2 DEF NoNewKicks
  <2>4. \A c \in Conns : Remains(c)
    BY <2>1 DEF Remains
  <2> QED
    BY <1>1, <1>6, <2>1, <2>3, <2>4, ActiveKept
<1> QED
  BY <1>4, <1>7, <1>8

LEMMA ActiveStep ==
  ASSUME IInv, ActiveInv, [Next]_vars
  PROVE  ActiveInv'
<1>1. ASSUME NEW c \in Conns, NEW u \in Users, NEW k \in Classes, Login(c, u, k) PROVE ActiveInv'
  BY <1>1, ActiveLogin
<1>2. ASSUME NEW c \in Conns, KickPCClient(c) PROVE ActiveInv'
  BY <1>2, ActiveKickPCClient
<1>3. ASSUME NEW c \in Conns, Close(c) PROVE ActiveInv'
  <2>1. \A d \in Conns : conns'[d] # None => conns'[d] = conns[d]
    BY <1>3 DEF Close, IInv, TypeOK
  <2> QED
    BY <1>3, <2>1, ActiveQuietStep DEF Close, linkVars
<1>4. ASSUME NEW c \in Conns, NEW m \in Msgs, NEW to, ClientMsgData(c, m, to) \/ P2PCmdMsg(c, m, to)
      PROVE  ActiveInv'
  BY <1>4, PduTypes, ActiveQuietStep DEF ClientMsgData, P2PCmdMsg, linkVars
<1>5. ASSUME NEW c \in Conns, NEW m \in Msgs, Notice(c, m) PROVE ActiveInv'
  BY <1>5, PduTypes, ActiveQuietStep DEF Notice
<1>6. ASSUME NEW m \in Msgs, Store(m) \/ MsgDataAnswer(m) \/ GroupMsgAnswer(m) PROVE ActiveInv'
  BY <1>6, PduTypes, ActiveQuietStep DEF Store, MsgDataAnswer, GroupMsgAnswer, linkVars
<1>7. ASSUME NEW i \in infos, GroupInfoAnswer(i) PROVE ActiveInv'
  BY <1>7, ActiveQuietStep DEF GroupInfoAnswer, linkVars
<1>8. ASSUME NEW s \in Servers, Connect(s) PROVE ActiveInv'
  BY <1>8, ActiveLinkStep
<1>9. ASSUME NEW l \in Links, MsgClose(l) \/ RouteClose(l) PROVE ActiveInv'
  BY <1>9, ActiveLinkStep
<1>10. ASSUME NEW l \in Links, RouteRead(l) PROVE ActiveInv'
  BY <1>10, ActiveRouteRead
<1>11. ASSUME NEW l \in Links, ServerRead(l) PROVE ActiveInv'
  BY <1>11, ActiveServerRead
<1>12. CASE UNCHANGED vars
  BY <1>12, ActiveQuietStep DEF vars, linkVars
<1> QED
  BY <1>1, <1>2, <1>3, <1>4, <1>5, <1>6, <1>7, <1>8, <1>9, <1>10, <1>11, <1>12 DEF Next

-----------------------------------------------------------------------------
(* Once to each connection.  A message is with the db_proxy, or on its way *)
(* to the route_server, or on its way to msg_servers: at each of these it  *)
(* is one pdu, then one request of the group's members, and only then sent *)
(* to the connections there.                                               *)

Data(m) == [kind |-> "data", msg |-> m]
Twice(q, pdu) == \E i, j \in DOMAIN q : i # j /\ q[i] = pdu /\ q[j] = pdu

Unanswered(m) == msgs[m] = None \/ msgs[m].state # "done"

\* Nothing of message m was sent to a connection of msg_server s; it has not asked for the members.
Unsent(s, m) == \A c \in Conns : c[1] = s => got[c][m] = 0
NotAsked(s, m) == \A i \in infos : ~(i.server = s /\ i.msg = m)

\* A connection that nobody has was sent nothing.
Idle == \A c \in Conns : conns[c] = None => \A m \in Msgs : got[c][m] = 0

Addressed(m) ==
    msgs[m] # None =>
        /\ msgs[m].kind = "single" /\ msgs[m].state # "asked" => msgs[m].to # msgs[m].from
        /\ msgs[m].kind = "group" => msgs[m].to = Group

Quiet(m) ==
    Unanswered(m) =>
        /\ \A l \in Links : ~InQueue(up[l], Data(m)) /\ ~InQueue(down[l], Data(m))
        /\ \A c \in Conns : got[c][m] = 0
        /\ \A i \in infos : i.msg # m

UpFirst(m, l) ==
    InQueue(up[l], Data(m)) =>
        /\ l[1] = msgs[m].via[1] /\ ~Twice(up[l], Data(m))
        /\ \A k \in Links : (k # l => ~InQueue(up[k], Data(m))) /\ ~InQueue(down[k], Data(m))
        /\ \A s \in Servers : s # msgs[m].via[1] => Unsent(s, m) /\ NotAsked(s, m)

DownOnce(m, l) ==
    InQueue(down[l], Data(m)) =>
        /\ ~Twice(down[l], Data(m))
        /\ \A k \in Links : k # l /\ k[1] = l[1] => ~InQueue(down[k], Data(m))
        /\ IF l[1] = msgs[m].via[1] THEN l[1] \in dropped ELSE Unsent(l[1], m) /\ NotAsked(l[1], m)

InfoOnce(i) ==
    /\ msgs[i.msg] # None /\ msgs[i.msg].kind = "group"
    /\ i.server # msgs[i.msg].via[1] => i.handle = None /\ Unsent(i.server, i.msg)
    /\ i.server = msgs[i.msg].via[1] /\ i.server \notin dropped =>
         i.handle = msgs[i.msg].via[2] /\ Unsent(i.server, i.msg)

SentOnce(c, m) ==
    conns[c] # None /\ msgs[m] # None =>
        \/ c[1] = msgs[m].via[1] /\ c[1] \in dropped
        \/ got[c][m] <= Copies(c, m)

Once(m) ==
    /\ Addressed(m) /\ Quiet(m)
    /\ \A l \in Links : UpFirst(m, l) /\ DownOnce(m, l)
    /\ \A i \in infos : i.msg = m => InfoOnce(i)
    /\ \A c \in Conns : SentOnce(c, m)

OnceInv == Idle /\ \A m \in Msgs : Once(m)

LEMMA AppendOnce ==
  ASSUME NEW q \in Seq(Pdu), NEW e \in Pdu, NEW p, Twice(Append(q, e), p)
  PROVE  Twice(q, p) \/ (p = e /\ InQueue(q, p))
<1> DEFINE n == Len(q)
<1>1. PICK i, j \in 1..(n + 1) : i # j /\ Append(q, e)[i] = p /\ Append(q, e)[j] = p
  BY DEF Twice
<1>2. /\ n \in Nat /\ DOMAIN q = 1..n /\ Append(q, e)[n + 1] = e
      /\ \A h \in 1..n : Append(q, e)[h] = q[h]
  OBVIOUS
<1> HIDE DEF n
<1>3. CASE i \in 1..n /\ j \in 1..n
  BY <1>1, <1>2, <1>3 DEF Twice
<1>4. CASE i \in 1..n /\ j \notin 1..n
  BY <1>1, <1>2, <1>4 DEF InQueue
<1>5. CASE i \notin 1..n
  BY <1>1, <1>2, <1>5 DEF InQueue
<1> QED
  BY <1>3, <1>4, <1>5

LEMMA TailOnce ==
  ASSUME NEW q \in Seq(Pdu), q # <<>>, NEW p
  PROVE  /\ Twice(Tail(q), p) => Twice(q, p)
         /\ p = Head(q) /\ InQueue(Tail(q), p) => Twice(q, p)
<1> DEFINE n == Len(q)
<1>1. /\ n \in Nat /\ n >= 1 /\ DOMAIN q = 1..n /\ Head(q) = q[1] /\ DOMAIN Tail(q) = 1..(n - 1)
      /\ \A h \in 1..(n - 1) : Tail(q)[h] = q[h + 1]
  OBVIOUS
<1> HIDE DEF n
<1>2. ASSUME Twice(Tail(q), p) PROVE Twice(q, p)
  <2>1. PICK i, j \in 1..(n - 1) : i # j /\ Tail(q)[i] = p /\ Tail(q)[j] = p
    BY <1>1, <1>2 DEF Twice
  <2>2. i + 1 \in DOMAIN q /\ j + 1 \in DOMAIN q /\ i + 1 # j + 1 /\ q[i + 1] = p /\ q[j + 1] = p
    BY <1>1, <2>1
  <2> QED
    BY <2>2 DEF Twice
<1>3. ASSUME p = Head(q), InQueue(Tail(q), p) PROVE Twice(q, p)
  <2>1. PICK i \in 1..(n - 1) : Tail(q)[i] = p
    BY <1>1, <1>3 DEF InQueue
  <2>2. i + 1 \in DOMAIN q /\ 1 \in DOMAIN q /\ i + 1 # 1 /\ q[i + 1] = p /\ q[1] = p
    BY <1>1, <1>3, <2>1
  <2> QED
    BY <2>2 DEF Twice
<1> QED
  BY <1>2, <1>3

LEMMA DataSame ==
  ASSUME NEW m, NEW n, Data(m) = Data(n)
  PROVE  m = n
<1>1. Data(m).msg = m /\ Data(n).msg = n
  BY DEF Data
<1> QED
  BY <1>1

\* What is sent to the connections C, for one message
LEMMA SendOf ==
  ASSUME NEW g \in [Conns -> [Msgs -> Nat]], NEW m \in Msgs, NEW C
  PROVE  /\ Send(g, m, C) \in [Conns -> [Msgs -> Nat]]
         /\ \A c \in Conns : /\ Send(g, m, C)[c][m] = IF c \in C THEN g[c][m] + 1 ELSE g[c][m]
                             /\ \A n \in Msgs : n # m => Send(g, m, C)[c][n] = g[c][n]
  BY DEF Send

LEMMA ToBothOf ==
  ASSUME TypeOK, NEW m \in Msgs, NEW s, NEW a
  PROVE  LET A == SessionsOf(msgs[m].from, s) \ {a}
             B == SessionsOf(msgs[m].to, s)
             g == ToBoth(got, m, s, a)
         IN  /\ g \in [Conns -> [Msgs -> Nat]]
             /\ \A c \in Conns : \A n \in Msgs : n # m => g[c][n] = got[c][n]
             /\ \A c \in Conns \ (A \cup B) : g[c][m] = got[c][m]
             /\ \A c \in A \cup B : g[c][m] > got[c][m]
             /\ A \cap B = {} => \A c \in Conns : g[c][m] <= got[c][m] + 1
             /\ \A c \in Conns : g[c][m] <= got[c][m] + 2
<1> DEFINE A == SessionsOf(msgs[m].from, s) \ {a}
           B == SessionsOf(msgs[m].to, s)
           h == Send(got, m, A)
           g == Send(h, m, B)
<1>1. got \in [Conns -> [Msgs -> Nat]] /\ A \cup B \subseteq Conns
  BY DEF TypeOK, SessionsOf
<1> HIDE DEF A, B
<1>2. /\ h \in [Conns -> [Msgs -> Nat]]
      /\ \A c \in Conns : /\ h[c][m] = IF c \in A THEN got[c][m] + 1 ELSE got[c][m]
                          /\ \A n \in Msgs : n # m => h[c][n] = got[c][n]
  BY <1>1, SendOf
<1> HIDE DEF h
<1>3. /\ g \in [Conns -> [Msgs -> Nat]]
      /\ \A c \in Conns : /\ g[c][m] = IF c \in B THEN h[c][m] + 1 ELSE h[c][m]
                          /\ \A n \in Msgs : n # m => g[c][n] = h[c][n]
  BY <1>2, SendOf
<1> HIDE DEF g
<1>4. \A c \in Conns : got[c][m] \in Nat
  BY <1>1
<1>5. /\ \A c \in Conns : \A n \in Msgs : n # m => g[c][n] = got[c][n]
      /\ \A c \in Conns \ (A \cup B) : g[c][m] = got[c][m]
  BY <1>2, <1>3
<1>6. ASSUME NEW c \in Conns
      PROVE  /\ c \in A \cup B => g[c][m] > got[c][m]
             /\ A \cap B = {} => g[c][m] <= got[c][m] + 1
             /\ g[c][m] <= got[c][m] + 2
  <2>1. /\ g[c][m] = IF c \in B THEN h[c][m] + 1 ELSE h[c][m]
        /\ h[c][m] = IF c \in A THEN got[c][m] + 1 ELSE got[c][m]
        /\ got[c][m] \in Nat
    BY <1>2, <1>3, <1>4
  <2> QED
    BY <2>1
<1>7. g = ToBoth(got, m, s, a)
  BY DEF ToBoth, g, h, A, B
<1> QED
  BY <1>1, <1>3, <1>5, <1>7, <1>6 DEF A, B

\* The steps that do nothing with message m but lose it, or send nobody more of it
Frame(m) ==
    /\ msgs'[m] = msgs[m] /\ dropped \subseteq dropped'
    /\ \A l \in Links : /\ InQueue(up'[l], Data(m)) => InQueue(up[l], Data(m))
                        /\ Twice(up'[l], Data(m)) => Twice(up[l], Data(m))
                        /\ InQueue(down'[l], Data(m)) => InQueue(down[l], Data(m))
                        /\ Twice(down'[l], Data(m)) => Twice(down[l], Data(m))
    /\ \A i \in infos' : i.msg = m => i \in infos
    /\ \A c \in Conns :
         /\ got'[c][m] = got[c][m] \/ got'[c][m] = 0
         /\ conns'[c] # None =>
              got'[c][m] = 0 \/ (conns[c] # None /\ conns'[c].user = conns[c].user)

LEMMA FrameKeeps ==
  ASSUME NEW m \in Msgs, Frame(m), Once(m)
  PROVE  Once(m)'
<1>1. /\ \A s : Unsent(s, m) => Unsent(s, m)'
      /\ \A s : NotAsked(s, m) => NotAsked(s, m)'
  BY DEF Frame, Unsent, NotAsked
<1>2. Addressed(m)'
  BY DEF Frame, Once, Addressed
<1>3. Quiet(m)'
  BY DEF Frame, Once, Quiet, Unanswered
<1>4. ASSUME NEW l \in Links, InQueue(up'[l], Data(m))
      PROVE  /\ l[1] = msgs'[m].via[1] /\ ~Twice(up'[l], Data(m))
             /\ \A k \in Links : (k # l => ~InQueue(up'[k], Data(m))) /\ ~InQueue(down'[k], Data(m))
             /\ \A s \in Servers : s # msgs'[m].via[1] => Unsent(s, m)' /\ NotAsked(s, m)'
  BY <1>1, <1>4 DEF Frame, Once, UpFirst
<1>5. ASSUME NEW l \in Links, InQueue(down'[l], Data(m))
      PROVE  /\ ~Twice(down'[l], Data(m))
             /\ \A k \in Links : k # l /\ k[1] = l[1] => ~InQueue(down'[k], Data(m))
             /\ IF l[1] = msgs'[m].via[1] THEN l[1] \in dropped'
                ELSE Unsent(l[1], m)' /\ NotAsked(l[1], m)'
  BY <1>1, <1>5 DEF Frame, Once, DownOnce
<1>6. ASSUME NEW i \in infos', i.msg = m PROVE InfoOnce(i)'
  <2>1. i \in infos /\ InfoOnce(i) /\ msgs'[m] = msgs[m] /\ dropped \subseteq dropped'
    BY <1>6 DEF Frame, Once
  <2> QED
    BY <1>1, <1>6, <2>1 DEF InfoOnce
<1>7. ASSUME NEW c \in Conns, conns'[c] # None, msgs'[m] # None
      PROVE  \/ c[1] = msgs'[m].via[1] /\ c[1] \in dropped'
             \/ got'[c][m] <= Copies(c, m)'
  <2>1. CASE got'[c][m] = 0
    BY <2>1 DEF Copies, ToOneself
  <2>2. CASE got'[c][m] # 0
    <3>1. /\ conns[c] # None /\ conns'[c].user = conns[c].user /\ got'[c][m] = got[c][m]
          /\ msgs'[m] = msgs[m] /\ dropped \subseteq dropped'
      BY <1>7, <2>2 DEF Frame
    <3>2. Copies(c, m)' = Copies(c, m)
      BY <3>1 DEF Copies, ToOneself
    <3> QED
      BY <1>7, <3>1, <3>2 DEF Once, SentOnce
  <2> QED
    BY <2>1, <2>2
<1> QED
  BY <1>2, <1>3, <1>4, <1>5, <1>6, <1>7 DEF Once, UpFirst, DownOnce, SentOnce

\* Tables of the sessions that are there now, with their users and what was stored at their logins
SameSessions(cs) ==
    /\ cs \in ConnTable
    /\ \A c \in Conns : /\ cs[c] = None <=> conns[c] = None
                        /\ cs[c] # None => cs[c].user = conns[c].user /\ cs[c].old = conns[c].old

LEMMA KickKeepsRest ==
  ASSUME conns \in ConnTable, NEW u, NEW k, NEW s
  PROVE  SameSessions(KickOut(u, k, s)) /\ SameSessions(Supersede(KickOut(u, k, s), u, k))
<1> DEFINE out == KickOut(u, k, s)
           t == Target(SameClass(u, k, s))
           Like(a, b) == /\ a \in Session \cup {None}
                         /\ a = None <=> b = None
                         /\ a # None => a.user = b.user /\ a.old = b.old
<1>1. ASSUME NEW a \in Session
      PROVE  Like([a EXCEPT !.kicked = TRUE], a) /\ Like([a EXCEPT !.due = TRUE], a)
  BY RecordsAssumption DEF Session
<1>2. \A c \in Conns : Like(out[c], conns[c])
  <2>1. CASE SameClass(u, k, s) = {}
    BY <2>1 DEF KickOut, ConnTable
  <2>2. CASE SameClass(u, k, s) # {}
    <3>1. t \in SameClass(u, k, s)
      BY <2>2, KickOutHits
    <3>2. t \in Conns /\ conns[t] \in Session
      BY <3>1 DEF SameClass, SessionsOf, ConnTable
    <3>3. out = [conns EXCEPT ![t].kicked = TRUE]
      BY <2>2 DEF KickOut
    <3> HIDE DEF t, out
    <3>4. /\ out[t] = [conns[t] EXCEPT !.kicked = TRUE]
          /\ \A c \in Conns : c # t => out[c] = conns[c]
      BY <3>2, <3>3 DEF ConnTable
    <3>5. Like(out[t], conns[t])
      BY <1>1, <3>2, <3>4
    <3>6. \A c \in Conns : c # t => Like(out[c], conns[c])
      BY <3>4 DEF ConnTable
    <3> QED
      BY <3>5, <3>6
  <2> QED
    BY <2>1, <2>2
<1>3. out \in ConnTable
  BY KickOutOf
<1> DEFINE cs == Supersede(out, u, k)
<1> HIDE DEF out
<1>4. SameSessions(out)
  BY <1>2, <1>3 DEF SameSessions
<1>5. SameSessions(cs)
  <2>1. \A c \in Conns : cs[c] = out[c] \/ (out[c] # None /\ cs[c] = [out[c] EXCEPT !.due = TRUE])
    BY DEF Supersede
  <2>2. cs \in ConnTable
    BY <1>3, SupersedeOf
  <2>3. \A c \in Conns : out[c] # None => out[c] \in Session
    BY <1>3 DEF ConnTable
  <2> HIDE DEF cs
  <2>4. ASSUME NEW c \in Conns PROVE Like(cs[c], out[c])
    <3>1. CASE cs[c] = out[c]
      BY <1>3, <3>1 DEF ConnTable
    <3>2. CASE out[c] # None /\ cs[c] = [out[c] EXCEPT !.due = TRUE]
      BY <1>1, <2>3, <3>2
    <3> QED
      BY <2>1, <3>1, <3>2
  <2> QED
    BY <1>2, <2>2, <2>4 DEF SameSessions
<1> QED
  BY <1>4, <1>5 DEF cs, out

\* Queues that no pdu is new in, and from which one is taken at most
LEMMA FrameQueues ==
  ASSUME NEW m, NEW q \in Seq(Pdu), NEW r,
         \/ r = q
         \/ r = <<>>
         \/ q # <<>> /\ r = Tail(q)
         \/ \E e \in Pdu : e # Data(m) /\ r = Append(q, e)
  PROVE  (InQueue(r, Data(m)) => InQueue(q, Data(m))) /\ (Twice(r, Data(m)) => Twice(q, Data(m)))
<1>1. CASE r = <<>>
  BY <1>1 DEF InQueue, Twice
<1>2. CASE q # <<>> /\ r = Tail(q)
  BY <1>2, TailQueue, TailOnce
<1>3. ASSUME NEW e \in Pdu, e # Data(m), r = Append(q, e)
      PROVE  (InQueue(r, Data(m)) => InQueue(q, Data(m))) /\ (Twice(r, Data(m)) => Twice(q, Data(m)))
  BY <1>3, AppendQueue, AppendOnce
<1> QED
  BY <1>1, <1>2, <1>3

LEMMA OnceInit == Init => OnceInv
<1> SUFFICES ASSUME Init PROVE OnceInv
  OBVIOUS
<1>1. \A l \in Links : up[l] = <<>> /\ down[l] = <<>>
  BY DEF Init
<1>2. /\ \A c \in Conns, m \in Msgs : got[c][m] = 0
      /\ \A m \in Msgs : msgs[m] = None
  BY DEF Init
<1>3. \A l \in Links, m \in Msgs : ~InQueue(up[l], Data(m)) /\ ~InQueue(down[l], Data(m))
  BY <1>1 DEF InQueue
<1>4. infos = {}
  BY DEF Init
<1>5. ASSUME NEW m \in Msgs PROVE Once(m)
  <2>1. Addressed(m) /\ Quiet(m)
    BY <1>2, <1>3, <1>4 DEF Addressed, Quiet
  <2>2. \A l \in Links : UpFirst(m, l) /\ DownOnce(m, l)
    BY <1>3 DEF UpFirst, DownOnce
  <2>3. \A c \in Conns : SentOnce(c, m)
    BY <1>2 DEF SentOnce
  <2> QED
    BY <1>4, <2>1, <2>2, <2>3 DEF Once
<1> QED
  BY <1>2, <1>5 DEF OnceInv, Idle

\* Where ToRoute puts a pdu
LEMMA ToRouteFrame ==
  ASSUME TypeOK, NEW s, NEW e \in Pdu, ToRoute(s, e)
  PROVE  /\ \A l \in Links : up'[l] = IF l[1] = s /\ link[l] = "open" THEN Append(up[l], e) ELSE up[l]
         /\ \A m, l : l \in Links /\ Data(m) # e =>
               /\ InQueue(up'[l], Data(m)) => InQueue(up[l], Data(m))
               /\ Twice(up'[l], Data(m)) => Twice(up[l], Data(m))
<1>1. \A l \in Links : up'[l] = IF l[1] = s /\ link[l] = "open" THEN Append(up[l], e) ELSE up[l]
  BY DEF ToRoute
<1>2. ASSUME NEW m, NEW l \in Links, Data(m) # e
      PROVE  /\ InQueue(up'[l], Data(m)) => InQueue(up[l], Data(m))
             /\ Twice(up'[l], Data(m)) => Twice(up[l], Data(m))
  <2>1. up[l] \in Seq(Pdu)
    BY DEF TypeOK
  <2> QED
    BY <1>1, <1>2, <2>1, FrameQueues
<1> QED
  BY <1>1, <1>2

\* Clients that come and go
LEMMA OnceSessions ==
  ASSUME IInv, OnceInv, NEW c \in Conns,
         (\E u \in Users, k \in Classes : Login(c, u, k)) \/ Close(c) \/ KickPCClient(c)
  PROVE  OnceInv'
<1>1. conns \in ConnTable /\ TypeOK /\ got \in [Conns -> [Msgs -> Nat]]
  BY DEF IInv, TypeOK, ConnTable
<1>2. UNCHANGED <<msgs, infos, link, down>> /\ dropped' = dropped
  BY DroppedOf DEF Login, Close, KickPCClient, linkVars
<1>3. \A m \in Msgs, l \in Links : /\ InQueue(up'[l], Data(m)) => InQueue(up[l], Data(m))
                                   /\ Twice(up'[l], Data(m)) => Twice(up[l], Data(m))
  <2>1. ASSUME NEW s, NEW u \in Users, NEW k \in Classes, ToRoute(s, KickPdu(u, k))
        PROVE  \A m \in Msgs, l \in Links : /\ InQueue(up'[l], Data(m)) => InQueue(up[l], Data(m))
                                            /\ Twice(up'[l], Data(m)) => Twice(up[l], Data(m))
    <3>1. KickPdu(u, k) \in Pdu /\ \A m : Data(m) # KickPdu(u, k)
      BY PduTypes DEF Data
    <3> QED
      BY <1>1, <2>1, <3>1, ToRouteFrame
  <2>2. UNCHANGED up \/ \E s, u, k : u \in Users /\ k \in Classes /\ ToRoute(s, KickPdu(u, k))
    <3>1. ASSUME KickPCClient(c) PROVE conns[c].user \in Users /\ "pc" \in Classes
      BY <1>1, <3>1 DEF KickPCClient, ConnTable, Session, Classes
    <3> QED
      BY <3>1 DEF Login, Close, KickPCClient, linkVars
  <2> QED
    BY <2>1, <2>2
<1>4. \A d \in Conns :
         /\ conns'[d] = None => \/ got'[d] = got[d] /\ conns[d] = None
                                \/ \A m \in Msgs : got'[d][m] = 0
         /\ \A m \in Msgs : got'[d][m] = got[d][m] \/ got'[d][m] = 0
         /\ conns'[d] # None =>
              \/ conns[d] # None /\ conns'[d].user = conns[d].user
              \/ conns[d] = None /\ got'[d] = got[d]
  <2>1. ASSUME NEW u \in Users, NEW k \in Classes, Login(c, u, k)
        PROVE  /\ got' = got
               /\ \A d \in Conns : /\ conns'[d] = None => conns[d] = None
                                   /\ conns'[d] # None => \/ conns[d] # None /\ conns'[d].user = conns[d].user
                                                          \/ conns[d] = None
    <3> DEFINE rest == Supersede(KickOut(u, k, c[1]), u, k)
    <3>1. SameSessions(rest)
      BY <1>1, KickKeepsRest
    <3>2. conns' = [rest EXCEPT ![c] = NewSession(u, k)] /\ got' = got /\ conns[c] = None
      BY <2>1 DEF Login
    <3> HIDE DEF rest
    <3>3. \A d \in Conns : d # c => conns'[d] = rest[d]
      BY <3>1, <3>2 DEF SameSessions, ConnTable
    <3> QED
      BY <3>1, <3>2, <3>3 DEF SameSessions
  <2>2. ASSUME KickPCClient(c)
        PROVE  /\ got' = got
               /\ \A d \in Conns : /\ conns'[d] = None => conns[d] = None
                                   /\ conns'[d] # None => conns[d] # None /\ conns'[d].user = conns[d].user
    <3>1. /\ conns' = Supersede(KickOut(conns[c].user, "pc", c[1]), conns[c].user, "pc")
          /\ got' = got
      BY <2>2 DEF KickPCClient
    <3> QED
      BY <1>1, <3>1, KickKeepsRest DEF SameSessions
  <2>3. ASSUME Close(c)
        PROVE  /\ conns'[c] = None /\ \A d \in Conns : d # c => conns'[d] = conns[d]
               /\ \A m \in Msgs : got'[c][m] = 0
               /\ \A d \in Conns : d # c => got'[d] = got[d]
    BY <1>1, <2>3 DEF Close, ConnTable
  <2> QED
    BY <2>1, <2>2, <2>3
<1>5. ASSUME NEW m \in Msgs PROVE Once(m)'
  <2>1. \A d \in Conns : conns[d] = None => got[d][m] = 0
    BY DEF OnceInv, Idle
  <2>2. Frame(m)
    BY <1>2, <1>3, <1>4, <2>1 DEF Frame
  <2> QED
    BY <2>2, FrameKeeps DEF OnceInv
<1>6. Idle'
  BY <1>4 DEF OnceInv, Idle
<1> QED
  BY <1>5, <1>6 DEF OnceInv

\* The links
LEMMA OnceLinks ==
  ASSUME IInv, OnceInv,
         (\E s \in Servers : Connect(s)) \/ (\E l \in Links : MsgClose(l) \/ RouteClose(l))
  PROVE  OnceInv'
<1>1. UNCHANGED <<conns, msgs, infos, got>> /\ TypeOK
  BY DEF Connect, MsgClose, RouteClose, IInv
<1>2. /\ \A k \in Links : up'[k] \in {up[k], <<>>} /\ down'[k] \in {down[k], <<>>}
      /\ dropped \subseteq dropped'
  <2>1. ASSUME NEW s \in Servers, Connect(s)
        PROVE  UNCHANGED <<up, down>> /\ dropped \subseteq dropped'
    <3>1. PICK l \in Links : link[l] = "new" /\ link' = [link EXCEPT ![l] = "open"]
      BY <2>1 DEF Connect
    <3>2. \A k \in Links : k # l => link'[k] = link[k]
      BY <1>1, <3>1 DEF TypeOK
    <3>3. dropped \subseteq dropped'
      BY <3>1, <3>2 DEF dropped
    <3> QED
      BY <2>1, <3>3 DEF Connect
  <2>2. ASSUME NEW l \in Links, MsgClose(l) \/ RouteClose(l)
        PROVE  /\ \A k \in Links : up'[k] \in {up[k], <<>>} /\ down'[k] \in {down[k], <<>>}
               /\ dropped \subseteq dropped'
    <3>1. \A k \in Links : up'[k] \in {up[k], <<>>} /\ down'[k] \in {down[k], <<>>}
      BY <1>1, <2>2 DEF MsgClose, RouteClose, TypeOK
    <3>2. link'[l] \notin {"new", "open"} /\ \A k \in Links : k # l => link'[k] = link[k]
      BY <1>1, <2>2 DEF MsgClose, RouteClose, TypeOK
    <3> QED
      BY <3>1, <3>2 DEF dropped
  <2> QED
    BY <2>1, <2>2
<1>3. ASSUME NEW m \in Msgs PROVE Once(m)'
  <2>1. ASSUME NEW l \in Links
        PROVE  /\ InQueue(up'[l], Data(m)) => InQueue(up[l], Data(m))
               /\ Twice(up'[l], Data(m)) => Twice(up[l], Data(m))
               /\ InQueue(down'[l], Data(m)) => InQueue(down[l], Data(m))
               /\ Twice(down'[l], Data(m)) => Twice(down[l], Data(m))
    <3>1. up[l] \in Seq(Pdu) /\ down[l] \in Seq(Pdu)
      BY <1>1 DEF TypeOK
    <3> QED
      BY <1>2, <3>1, FrameQueues
  <2>2. Frame(m)
    BY <1>1, <1>2, <2>1 DEF Frame
  <2> QED
    BY <2>2, FrameKeeps DEF OnceInv
<1> QED
  BY <1>1, <1>3 DEF OnceInv, Idle

\* Steps that concern message m only, at a msg_server or with an answer to it
LEMMA OthersOnce ==
  ASSUME TypeOK, OnceInv, NEW m \in Msgs, UNCHANGED <<conns, link, down>>,
         \A n \in Msgs : n # m => msgs'[n] = msgs[n],
         UNCHANGED up \/ \E s : ToRoute(s, Data(m)),
         \A i \in infos' : i \in infos \/ i.msg = m,
         \A c \in Conns, n \in Msgs : n # m \/ conns[c] = None => got'[c][n] = got[c][n],
         Once(m)'
  PROVE  OnceInv'
<1>1. Data(m) \in Pdu /\ dropped' = dropped
  BY PduTypes, DroppedOf DEF Data
<1>2. ASSUME NEW n \in Msgs, n # m PROVE Once(n)'
  <2>1. Data(n) # Data(m)
    BY <1>2, DataSame
  <2>2. \A l \in Links : /\ InQueue(up'[l], Data(n)) => InQueue(up[l], Data(n))
                         /\ Twice(up'[l], Data(n)) => Twice(up[l], Data(n))
    <3>1. ASSUME NEW s, ToRoute(s, Data(m))
          PROVE  \A l \in Links : /\ InQueue(up'[l], Data(n)) => InQueue(up[l], Data(n))
                                  /\ Twice(up'[l], Data(n)) => Twice(up[l], Data(n))
      BY <1>1, <2>1, <3>1, ToRouteFrame
    <3> QED
      BY <3>1
  <2>3. Frame(n)
    BY <1>1, <1>2, <2>2 DEF Frame
  <2> QED
    BY <2>3, FrameKeeps DEF OnceInv
<1>3. Idle'
  BY DEF OnceInv, Idle
<1> QED
  BY <1>2, <1>3 DEF OnceInv

LEMMA TwiceIsThere == \A q, p : Twice(q, p) => InQueue(q, p)
  BY DEF Twice, InQueue

\* The answer to a message, or a message that nobody stores, at the msg_server that it is from
LEMMA AnsweredOnce ==
  ASSUME TypeOK, NEW m \in Msgs, Once(m), Unanswered(m), UNCHANGED <<conns, link, down>>,
         Addressed(m)', ~Unanswered(m)', NEW s, msgs'[m].via[1] = s, ToRoute(s, Data(m)),
         \A i \in infos' : i.msg = m =>
            /\ msgs'[m].kind = "group" /\ i.server = s /\ i.handle = msgs'[m].via[2]
            /\ \A c \in Conns : got'[c][m] = 0,
         \A c \in Conns : c[1] # s => got'[c][m] = 0,
         \A c \in Conns : conns[c] # None =>
            got'[c][m] <= Copies(c, m)'
  PROVE  Once(m)'
<1>1. Data(m) \in Pdu /\ dropped' = dropped
  BY PduTypes, DroppedOf DEF Data
<1>2. \A l \in Links : ~InQueue(up[l], Data(m)) /\ ~InQueue(down'[l], Data(m)) /\ ~Twice(up[l], Data(m))
  BY TwiceIsThere DEF Once, Quiet
<1>3. \A l \in Links : up'[l] = IF l[1] = s /\ link[l] = "open" THEN Append(up[l], Data(m)) ELSE up[l]
  BY <1>1, ToRouteFrame
<1>4. \A l \in Links : InQueue(up'[l], Data(m)) => l[1] = s /\ link[l] = "open"
  BY <1>2, <1>3
<1>5. ASSUME NEW l \in Links, InQueue(up'[l], Data(m))
      PROVE  /\ l[1] = msgs'[m].via[1] /\ ~Twice(up'[l], Data(m))
             /\ \A k \in Links : (k # l => ~InQueue(up'[k], Data(m))) /\ ~InQueue(down'[k], Data(m))
             /\ \A t \in Servers : t # msgs'[m].via[1] => Unsent(t, m)' /\ NotAsked(t, m)'
  <2>1. l[1] = s /\ link[l] = "open" /\ up'[l] = Append(up[l], Data(m)) /\ up[l] \in Seq(Pdu)
    BY <1>3, <1>4, <1>5 DEF TypeOK
  <2>2. ~Twice(up'[l], Data(m))
    BY <1>1, <1>2, <2>1, AppendOnce
  <2>3. \A k \in Links : k # l => ~InQueue(up'[k], Data(m))
    BY <1>4, <2>1 DEF TypeOK, MsgOpen
  <2>4. \A t \in Servers : t # msgs'[m].via[1] => Unsent(t, m)' /\ NotAsked(t, m)'
    BY DEF Unsent, NotAsked
  <2> QED
    BY <1>2, <2>1, <2>2, <2>3, <2>4
<1>6. \A i \in infos' : i.msg = m => InfoOnce(i)'
  BY DEF InfoOnce, Unanswered, Unsent
<1>7. \A c \in Conns : SentOnce(c, m)'
  BY DEF SentOnce
<1>8. \A l \in Links : UpFirst(m, l)' /\ DownOnce(m, l)'
  BY <1>2, <1>5 DEF UpFirst, DownOnce
<1>9. Quiet(m)'
  BY DEF Quiet
<1> QED
  BY <1>6, <1>7, <1>8, <1>9 DEF Once

\* A message that the db_proxy has not answered is nowhere else.
LEMMA UnansweredOnce ==
  ASSUME NEW m \in Msgs, Once(m), Unanswered(m), Unanswered(m)', Addressed(m)',
         UNCHANGED <<conns, up, down, infos, got>>
  PROVE  Once(m)'
<1>1. /\ \A l \in Links : ~InQueue(up'[l], Data(m)) /\ ~InQueue(down'[l], Data(m))
      /\ \A c \in Conns : got'[c][m] = 0
      /\ \A i \in infos' : i.msg # m
  BY DEF Once, Quiet
<1>2. Quiet(m)'
  BY <1>1 DEF Quiet
<1>3. \A l \in Links : UpFirst(m, l)' /\ DownOnce(m, l)'
  BY <1>1 DEF UpFirst, DownOnce
<1>4. \A c \in Conns : SentOnce(c, m)'
  BY <1>1 DEF SentOnce, Copies, ToOneself
<1> QED
  BY <1>1, <1>2, <1>3, <1>4 DEF Once

LEMMA NewMsgOf ==
  ASSUME TypeOK, NEW c \in Conns, conns[c] # None, NEW to \in Users \cup {Group}, NEW kind \in Kinds,
         NEW state \in {"asked", "stored", "done"}
  PROVE  LET new == NewMsg(c, to, kind, state)
         IN  /\ new \in Msg /\ new # None /\ conns[c].user \in Users
             /\ new.via = c /\ new.from = conns[c].user /\ new.to = to /\ new.kind = kind /\ new.state = state
<1>1. conns[c].user \in Users
  BY DEF TypeOK, Session
<1>2. NewMsg(c, to, kind, state) \in Msg
  BY <1>1 DEF NewMsg, Msg
<1> QED
  BY <1>1, <1>2, RecordsAssumption DEF NewMsg

LEMMA OnceClientMsgData ==
  ASSUME TypeOK, OnceInv, NEW c \in Conns, NEW m \in Msgs, NEW to \in Users \cup {Group},
         ClientMsgData(c, m, to)
  PROVE  OnceInv'
<1> DEFINE kind == IF to = Group THEN "group" ELSE "single"
<1>1. /\ msgs' = [msgs EXCEPT ![m] = NewMsg(c, to, kind, "asked")] /\ kind \in Kinds
      /\ conns[c] # None /\ msgs[m] = None
      /\ UNCHANGED <<conns, infos, link, up, down, got>>
  BY DEF ClientMsgData, linkVars
<1>2. msgs'[m] = NewMsg(c, to, kind, "asked") /\ \A n \in Msgs : n # m => msgs'[n] = msgs[n]
  BY <1>1 DEF TypeOK
<1>3. /\ msgs'[m].from = conns[c].user /\ msgs'[m].to = to /\ msgs'[m].kind = kind
      /\ msgs'[m].state = "asked"
  BY <1>1, <1>2, NewMsgOf
<1>4. Unanswered(m) /\ Unanswered(m)' /\ Addressed(m)'
  BY <1>1, <1>3 DEF Unanswered, Addressed
<1>5. Once(m)'
  BY <1>1, <1>4, UnansweredOnce DEF OnceInv
<1> QED
  BY <1>1, <1>2, <1>5, OthersOnce

\* What changes when the message gets a new state
LEMMA NewState ==
  ASSUME TypeOK, NEW m \in Msgs, msgs[m] # None, NEW state \in {"stored", "done"},
         msgs' = [msgs EXCEPT ![m].state = state]
  PROVE  /\ msgs'[m] \in Msg /\ msgs'[m] # None /\ msgs'[m].state = state
         /\ msgs'[m].via = msgs[m].via /\ msgs'[m].from = msgs[m].from
         /\ msgs'[m].to = msgs[m].to /\ msgs'[m].kind = msgs[m].kind
         /\ msgs[m] \in Msg /\ msgs[m].via \in Conns
         /\ \A n \in Msgs : n # m => msgs'[n] = msgs[n]
<1>1. msgs[m] \in Msg
  BY DEF TypeOK
<1>2. msgs'[m] = [msgs[m] EXCEPT !.state = state] /\ \A n \in Msgs : n # m => msgs'[n] = msgs[n]
  BY DEF TypeOK
<1> QED
  BY <1>1, <1>2, RecordsAssumption DEF Msg

LEMMA OnceStore ==
  ASSUME TypeOK, OnceInv, NEW m \in Msgs, Store(m)
  PROVE  OnceInv'
<1>1. /\ msgs' = [msgs EXCEPT ![m].state = "stored"] /\ msgs[m] # None /\ msgs[m].state = "asked"
      /\ msgs[m].to # msgs[m].from
      /\ UNCHANGED <<conns, infos, link, up, down, got>>
  BY DEF Store, linkVars
<1>2. /\ msgs'[m].state = "stored" /\ msgs'[m].from = msgs[m].from
      /\ msgs'[m].to = msgs[m].to /\ msgs'[m].kind = msgs[m].kind
      /\ \A n \in Msgs : n # m => msgs'[n] = msgs[n]
  BY <1>1, NewState
<1>3. Unanswered(m) /\ Unanswered(m)' /\ Addressed(m)'
  BY <1>1, <1>2 DEF Unanswered, Addressed, OnceInv, Once
<1>4. Once(m)'
  BY <1>1, <1>3, UnansweredOnce DEF OnceInv
<1> QED
  BY <1>1, <1>2, <1>4, OthersOnce

\* The connection that GetMsgConnByHandle finds is the one that the message came on, or none.
LEMMA AskerOf ==
  ASSUME NEW u, NEW c \in Conns
  PROVE  /\ c \in SessionsOf(u, c[1]) => Asker(u, c[1], c[2]) = c
         /\ \A d \in Conns : Asker(u, c[1], c[2]) = d => d = c /\ c \in SessionsOf(u, c[1])
<1> DEFINE C == {d \in SessionsOf(u, c[1]) : d[2] = c[2]}
<1>1. C \subseteq {c}
  BY ConnsAssumption DEF SessionsOf
<1>2. Asker(u, c[1], c[2]) = IF C = {} THEN None ELSE CHOOSE d \in C : TRUE
  BY DEF Asker
<1>3. IF c \in SessionsOf(u, c[1]) THEN C = {c} ELSE C = {}
  BY <1>1
<1> HIDE DEF C
<1> QED
  BY <1>1, <1>2, <1>3, NamesAssumption

\* Nobody is the sender and the receiver at once, so that nobody is sent a message twice.
LEMMA SessionsApart ==
  ASSUME NEW u, NEW v, u # v, NEW s, NEW t
  PROVE  SessionsOf(u, s) \cap SessionsOf(v, t) = {}
  BY DEF SessionsOf

LEMMA OnceMsgDataAnswer ==
  ASSUME TypeOK, OnceInv, NEW m \in Msgs, MsgDataAnswer(m)
  PROVE  OnceInv'
<1> DEFINE v == msgs[m].via
           a == Asker(msgs[m].from, v[1], v[2])
           A == SessionsOf(msgs[m].from, v[1]) \ {a}
           B == SessionsOf(msgs[m].to, v[1])
<1>1. /\ msgs' = [msgs EXCEPT ![m].state = "done"] /\ msgs[m] # None
      /\ msgs[m].state = "stored" /\ msgs[m].kind = "single"
      /\ ToRoute(v[1], Data(m)) /\ got' = ToBoth(got, m, v[1], a)
      /\ UNCHANGED <<conns, infos, link, down>>
  BY DEF MsgDataAnswer, Data
<1>2. /\ msgs'[m].state = "done" /\ msgs'[m].via = v /\ msgs'[m].from = msgs[m].from /\ msgs'[m] # None
      /\ msgs'[m].to = msgs[m].to /\ msgs'[m].kind = msgs[m].kind /\ v \in Conns
      /\ \A n \in Msgs : n # m => msgs'[n] = msgs[n]
  BY <1>1, NewState
<1>3. Once(m) /\ Unanswered(m) /\ ~Unanswered(m)' /\ Addressed(m)' /\ msgs[m].to # msgs[m].from
  BY <1>1, <1>2 DEF OnceInv, Once, Unanswered, Addressed
<1>4. /\ \A c \in Conns : \A n \in Msgs : n # m => got'[c][n] = got[c][n]
      /\ \A c \in Conns \ (A \cup B) : got'[c][m] = got[c][m]
      /\ A \cap B = {} => \A c \in Conns : got'[c][m] <= got[c][m] + 1
  BY <1>1, ToBothOf
<1>5. A \cap B = {}
  BY <1>3, SessionsApart
<1>6. (\A c \in Conns : got[c][m] = 0) /\ (\A i \in infos : i.msg # m)
  BY <1>3 DEF Once, Quiet
<1>7. \A c \in A \cup B : c[1] = v[1] /\ conns[c] # None
  BY DEF SessionsOf
<1>8. v \in SessionsOf(msgs[m].from, v[1]) => v \notin A \cup B
  BY <1>2, <1>3, AskerOf, SessionsApart
<1>9. \A c \in Conns : conns[c] # None /\ c = v /\ conns[c].user = msgs[m].from =>
         c \in SessionsOf(msgs[m].from, v[1])
  BY DEF SessionsOf
<1> HIDE DEF a, A, B, v
<1>10. /\ \A c \in Conns : c[1] # v[1] => got'[c][m] = 0
       /\ \A c \in Conns : conns[c] # None =>
            got'[c][m] <= IF c = v /\ conns[c].user = msgs[m].from THEN 0 ELSE 1
  BY <1>4, <1>5, <1>6, <1>7, <1>8, <1>9
<1>11. \A c \in Conns : conns[c] # None => got'[c][m] <= Copies(c, m)'
  BY <1>1, <1>2, <1>10 DEF Copies, ToOneself
<1>12. Once(m)'
  BY <1>1, <1>2, <1>3, <1>6, <1>10, <1>11, AnsweredOnce
<1>13. \A c \in Conns, n \in Msgs : n # m \/ conns[c] = None => got'[c][n] = got[c][n]
  BY <1>4, <1>7
<1> QED
  BY <1>1, <1>2, <1>12, <1>13, OthersOnce

LEMMA OnceGroupMsgAnswer ==
  ASSUME TypeOK, OnceInv, NEW m \in Msgs, GroupMsgAnswer(m)
  PROVE  OnceInv'
<1> DEFINE v == msgs[m].via
           info == [server |-> v[1], msg |-> m, handle |-> v[2]]
<1>1. /\ msgs' = [msgs EXCEPT ![m].state = "done"] /\ msgs[m] # None
      /\ msgs[m].state = "stored" /\ msgs[m].kind = "group"
      /\ ToRoute(v[1], Data(m)) /\ infos' = infos \cup {info}
      /\ UNCHANGED <<conns, got, link, down>>
  BY DEF GroupMsgAnswer, Data
<1>2. /\ msgs'[m].state = "done" /\ msgs'[m].via = v /\ msgs'[m].from = msgs[m].from /\ msgs'[m] # None
      /\ msgs'[m].to = msgs[m].to /\ msgs'[m].kind = msgs[m].kind
      /\ \A n \in Msgs : n # m => msgs'[n] = msgs[n]
  BY <1>1, NewState
<1>3. Once(m) /\ Unanswered(m) /\ ~Unanswered(m)' /\ Addressed(m)'
  BY <1>1, <1>2 DEF OnceInv, Once, Unanswered, Addressed
<1>4. (\A c \in Conns : got'[c][m] = 0) /\ (\A i \in infos : i.msg # m)
  BY <1>1, <1>3 DEF Once, Quiet
<1>5. info.server = v[1] /\ info.msg = m /\ info.handle = v[2]
  OBVIOUS
<1> HIDE DEF info, v
<1>6. \A c \in Conns : got'[c][m] <= Copies(c, m)'
  BY <1>4 DEF Copies
<1>7. Once(m)'
  BY <1>1, <1>2, <1>3, <1>4, <1>5, <1>6, AnsweredOnce
<1>8. \A i \in infos' : i \in infos \/ i.msg = m
  BY <1>1, <1>5
<1> QED
  BY <1>1, <1>2, <1>7, <1>8, OthersOnce

\* A notice goes to the sender's other connections, a command to those and to the receiver's.
LEMMA OnceUnstored ==
  ASSUME TypeOK, OnceInv, NEW c \in Conns, NEW m \in Msgs, NEW to,
         Notice(c, m) \/ P2PCmdMsg(c, m, to)
  PROVE  OnceInv'
<1> DEFINE u == conns[c].user
           A == SessionsOf(u, c[1]) \ {c}
           B == SessionsOf(to, c[1])
           Sent == \/ Notice(c, m) /\ got' = Send(got, m, A)
                   \/ P2PCmdMsg(c, m, to) /\ got' = Send(Send(got, m, A), m, B)
<1>1. /\ conns[c] # None /\ msgs[m] = None /\ ToRoute(c[1], Data(m)) /\ Sent
      /\ UNCHANGED <<conns, infos, link, down>>
  BY DEF Notice, P2PCmdMsg, Data
<1>2. got \in [Conns -> [Msgs -> Nat]]
  BY DEF TypeOK
<1>3. /\ msgs'[m] # None /\ msgs'[m].via = c /\ msgs'[m].from = u /\ msgs'[m].state = "done"
      /\ Addressed(m)'
      /\ \/ Notice(c, m) /\ got' = Send(got, m, A)
         \/ (ToOneself(m)' <=> to = u) /\ got' = Send(Send(got, m, A), m, B)
      /\ \A n \in Msgs : n # m => msgs'[n] = msgs[n]
  <2>1. u \in Users
    BY <1>1 DEF TypeOK, Session
  <2>2. CASE Notice(c, m)
    <3>1. msgs' = [msgs EXCEPT ![m] = NewMsg(c, u, "notice", "done")] /\ "notice" \in Kinds
      BY <2>2 DEF Notice
    <3>2. msgs'[m] = NewMsg(c, u, "notice", "done") /\ \A n \in Msgs : n # m => msgs'[n] = msgs[n]
      BY <3>1 DEF TypeOK
    <3> HIDE DEF u
    <3>3. /\ msgs'[m] # None /\ msgs'[m].via = c /\ msgs'[m].from = conns[c].user
          /\ msgs'[m].state = "done" /\ msgs'[m].kind = "notice"
      BY <1>1, <2>1, <3>1, <3>2, NewMsgOf
    <3> QED
      BY <2>2, <3>2, <3>3 DEF Addressed, Notice, u, A
  <2>3. CASE P2PCmdMsg(c, m, to)
    <3>1. msgs' = [msgs EXCEPT ![m] = NewMsg(c, to, "p2p", "done")] /\ "p2p" \in Kinds
          /\ to \in Users
      BY <2>3 DEF P2PCmdMsg
    <3>2. msgs'[m] = NewMsg(c, to, "p2p", "done") /\ \A n \in Msgs : n # m => msgs'[n] = msgs[n]
      BY <3>1 DEF TypeOK
    <3>3. /\ msgs'[m] # None /\ msgs'[m].via = c /\ msgs'[m].from = u /\ msgs'[m].to = to
          /\ msgs'[m].state = "done" /\ msgs'[m].kind = "p2p"
      BY <1>1, <3>1, <3>2, NewMsgOf
    <3> QED
      BY <2>3, <3>2, <3>3 DEF Addressed, ToOneself, P2PCmdMsg
  <2> QED
    BY <2>2, <2>3
<1>4. Once(m) /\ Unanswered(m) /\ ~Unanswered(m)'
  BY <1>1, <1>3 DEF OnceInv, Unanswered
<1>5. (\A d \in Conns : got[d][m] = 0) /\ (\A i \in infos' : i.msg # m)
  BY <1>1, <1>4 DEF Once, Quiet
<1>6. /\ \A d \in A \cup B : d[1] = c[1] /\ conns[d] # None /\ d \in Conns
      /\ c \notin A
      /\ to # u => A \cap B = {} /\ c \notin B
  BY DEF SessionsOf
<1> HIDE DEF A, B, u
<1>7. /\ \A d \in Conns, n \in Msgs : n # m \/ d \notin A \cup B => got'[d][n] = got[d][n]
      /\ \A d \in Conns : got'[d][m] <= 2
      /\ got'[c][m] <= 1
      /\ ~ToOneself(m)' => got'[c][m] = 0 /\ \A d \in Conns : got'[d][m] <= 1
  <2> DEFINE h == Send(got, m, A)
  <2>1. /\ h \in [Conns -> [Msgs -> Nat]]
        /\ \A d \in Conns : /\ h[d][m] = IF d \in A THEN got[d][m] + 1 ELSE got[d][m]
                            /\ \A n \in Msgs : n # m => h[d][n] = got[d][n]
    BY <1>2, SendOf
  <2>2. got' = h \/ ((ToOneself(m)' <=> to = u) /\ got' = Send(h, m, B))
    BY <1>3
  <2> HIDE DEF h
  <2>3. \A d \in Conns : /\ Send(h, m, B)[d][m] = IF d \in B THEN h[d][m] + 1 ELSE h[d][m]
                         /\ \A n \in Msgs : n # m => Send(h, m, B)[d][n] = h[d][n]
    BY <2>1, SendOf
  <2> QED
    BY <1>5, <1>6, <2>1, <2>2, <2>3
<1>8. \A d \in Conns : d[1] # c[1] => got'[d][m] = 0
  BY <1>5, <1>6, <1>7
<1>9. \A d \in Conns : conns[d] # None => got'[d][m] <= Copies(d, m)'
  BY <1>1, <1>3, <1>7 DEF Copies, u
<1>10. Once(m)'
  BY <1>1, <1>3, <1>4, <1>5, <1>8, <1>9, AnsweredOnce
<1>11. \A d \in Conns, n \in Msgs : n # m \/ conns[d] = None => got'[d][n] = got[d][n]
  BY <1>6, <1>7
<1> QED
  BY <1>1, <1>3, <1>10, <1>11, OthersOnce

\* The members of the group, for a message that is attached to the request
LEMMA OnceGroupInfoAnswer ==
  ASSUME TypeOK, OnceInv, NEW i \in infos, GroupInfoAnswer(i)
  PROVE  OnceInv'
<1> DEFINE m == i.msg
           s == i.server
           v == msgs[m].via
           a == Asker(msgs[m].from, s, i.handle)
           C == (UNION {SessionsOf(u, s) : u \in Members}) \ {a}
<1>1. /\ infos' = infos \ {i} /\ got' = Send(got, m, C)
      /\ UNCHANGED <<conns, msgs, link, up, down>>
  BY DEF GroupInfoAnswer, linkVars
<1>2. /\ i \in Info /\ m \in Msgs /\ s \in Servers /\ Once(m) /\ InfoOnce(i) /\ dropped' = dropped
      /\ msgs[m] # None /\ msgs[m].kind = "group"
  BY <1>1, DroppedOf DEF TypeOK, Info, OnceInv, Once, InfoOnce
<1>3. v \in Conns
  BY <1>2 DEF TypeOK, Msg
<1>4. /\ \A c \in Conns : got'[c][m] = IF c \in C THEN got[c][m] + 1 ELSE got[c][m]
      /\ \A c \in Conns : \A n \in Msgs : n # m => got'[c][n] = got[c][n]
  <2>1. got \in [Conns -> [Msgs -> Nat]]
    BY DEF TypeOK
  <2> HIDE DEF C, m
  <2> QED
    BY <1>1, <1>2, <2>1, SendOf
<1>5. \A c \in C : c \in Conns /\ c[1] = s /\ conns[c] # None
  BY DEF SessionsOf
<1>6. s = v[1] /\ s \notin dropped /\ v \in SessionsOf(msgs[m].from, s) => v \notin C
  BY <1>2, <1>3, AskerOf DEF InfoOnce
<1>7. \A c \in Conns : conns[c] # None /\ c = v /\ conns[c].user = msgs[m].from =>
         c \in SessionsOf(msgs[m].from, v[1])
  BY DEF SessionsOf
<1> HIDE DEF C, a
<1>8. \A t \in Servers : /\ t # s /\ Unsent(t, m) => Unsent(t, m)'
                         /\ NotAsked(t, m) => NotAsked(t, m)'
  BY <1>1, <1>4, <1>5 DEF Unsent, NotAsked
<1>9. Addressed(m)' /\ Quiet(m)'
  BY <1>1, <1>2 DEF Once, Addressed, Quiet, Unanswered
<1>10. ASSUME NEW l \in Links, InQueue(up'[l], Data(m))
       PROVE  /\ l[1] = msgs'[m].via[1] /\ ~Twice(up'[l], Data(m))
              /\ \A k \in Links : (k # l => ~InQueue(up'[k], Data(m))) /\ ~InQueue(down'[k], Data(m))
              /\ \A t \in Servers : t # msgs'[m].via[1] => Unsent(t, m)' /\ NotAsked(t, m)'
  <2>1. UpFirst(m, l) /\ InQueue(up[l], Data(m))
    BY <1>1, <1>2, <1>10 DEF Once
  <2>2. s = v[1]
    BY <1>2, <2>1 DEF UpFirst, NotAsked
  <2> QED
    BY <1>1, <1>8, <2>1, <2>2 DEF UpFirst
<1>11. ASSUME NEW l \in Links, InQueue(down'[l], Data(m))
       PROVE  /\ ~Twice(down'[l], Data(m))
              /\ \A k \in Links : k # l /\ k[1] = l[1] => ~InQueue(down'[k], Data(m))
              /\ IF l[1] = msgs'[m].via[1] THEN l[1] \in dropped'
                 ELSE Unsent(l[1], m)' /\ NotAsked(l[1], m)'
  <2>1. DownOnce(m, l) /\ InQueue(down[l], Data(m)) /\ l[1] \in Servers
    BY <1>1, <1>2, <1>11, LinksAssumption DEF Once
  <2>2. l[1] # v[1] => l[1] # s
    BY <2>1 DEF DownOnce, NotAsked
  <2> QED
    BY <1>1, <1>2, <1>8, <2>1, <2>2 DEF DownOnce
<1>12. ASSUME NEW j \in infos', j.msg = m PROVE InfoOnce(j)'
  <2>1. j \in infos /\ j # i /\ j \in Info /\ InfoOnce(j)
    BY <1>1, <1>2, <1>12 DEF TypeOK, Once
  <2>2. CASE j.server # s
    <3>1. Unsent(j.server, m) => Unsent(j.server, m)'
      BY <1>8, <2>1, <2>2 DEF Info
    <3> QED
      BY <1>1, <1>2, <1>12, <2>1, <3>1 DEF InfoOnce
  <2>3. CASE j.server = s
    <3>1. j.handle # i.handle
      BY <1>2, <1>12, <2>1, <2>3 DEF Info
    <3>2. s = v[1] /\ s \in dropped
      BY <1>2, <1>12, <2>1, <2>3, <3>1 DEF InfoOnce
    <3> QED
      BY <1>1, <1>2, <1>12, <2>1, <2>3, <3>2 DEF InfoOnce
  <2> QED
    BY <2>2, <2>3
<1>13. ASSUME NEW c \in Conns PROVE SentOnce(c, m)'
  <2>1. CASE c[1] # s
    <3>1. got'[c][m] = got[c][m] /\ SentOnce(c, m)
      BY <1>2, <1>4, <1>5, <2>1 DEF Once
    <3>2. Copies(c, m)' = Copies(c, m)
      BY <1>1 DEF Copies, ToOneself
    <3> QED
      BY <1>1, <1>2, <3>1, <3>2 DEF SentOnce
  <2>2. CASE c[1] = s /\ ~(s = v[1] /\ s \in dropped)
    <3>1. got[c][m] = 0
      BY <1>2, <2>2 DEF InfoOnce, Unsent
    <3>2. got'[c][m] \in {0, 1} /\ (c \notin C => got'[c][m] = 0)
      BY <1>4, <3>1
    <3>3. c = v /\ conns[c] # None /\ conns[c].user = msgs[m].from => c \notin C
      BY <1>6, <1>7, <2>2
    <3> QED
      BY <1>1, <3>2, <3>3 DEF SentOnce, Copies, ToOneself
  <2>3. CASE c[1] = s /\ s = v[1] /\ s \in dropped
    BY <1>1, <1>2, <2>3 DEF SentOnce
  <2> QED
    BY <2>1, <2>2, <2>3
<1>14. Once(m)'
  BY <1>9, <1>10, <1>11, <1>12, <1>13 DEF Once, UpFirst, DownOnce
<1>15. \A c \in Conns, n \in Msgs : n # m \/ conns[c] = None => got'[c][n] = got[c][n]
  BY <1>4, <1>5
<1>16. \A j \in infos' : j \in infos \/ j.msg = m
  BY <1>1
<1> HIDE DEF m
<1> QED
  BY <1>1, <1>2, <1>14, <1>15, <1>16, OthersOnce

\* The broadcast: one copy for each msg_server that has a link, and none for that of the sender
\* unless it lost the link that the message came on.
LEMMA OnceRouteRead ==
  ASSUME IInv, OnceInv, NEW l \in Links, RouteRead(l)
  PROVE  OnceInv'
<1> DEFINE e == Head(up[l])
<1>1. /\ up[l] # <<>> /\ up[l] \in Seq(Pdu) /\ UNCHANGED <<conns, msgs, infos, link, got>>
      /\ TypeOK
  BY DEF RouteRead, IInv, TypeOK
<1>2. e \in Pdu /\ InQueue(up[l], e)
  BY <1>1, TailQueue
<1>3. /\ \A k \in Links : k # l => up'[k] = up[k]
      /\ up'[l] = Tail(up[l])
  BY <1>1 DEF RouteRead, TypeOK
<1>4. \A k \in Links : down'[k] = IF k # l /\ link[k] = "open" THEN Append(down[k], e) ELSE down[k]
  BY DEF RouteRead
<1> HIDE DEF e
<1>5. dropped' = dropped
  BY <1>1, DroppedOf
<1>6. \A k \in Links : up[k] \in Seq(Pdu) /\ down[k] \in Seq(Pdu)
  BY <1>1 DEF TypeOK
<1>7. \A n : \A k \in Links : /\ InQueue(up'[k], Data(n)) => InQueue(up[k], Data(n))
                              /\ Twice(up'[k], Data(n)) => Twice(up[k], Data(n))
  <2>1. ASSUME NEW n, NEW k \in Links
        PROVE  /\ InQueue(up'[k], Data(n)) => InQueue(up[k], Data(n))
               /\ Twice(up'[k], Data(n)) => Twice(up[k], Data(n))
    BY <1>1, <1>3, <1>6, FrameQueues
  <2> QED
    BY <2>1
<1>8. ASSUME NEW n \in Msgs, Data(n) # e PROVE Once(n)'
  <2>1. \A k \in Links : /\ InQueue(down'[k], Data(n)) => InQueue(down[k], Data(n))
                         /\ Twice(down'[k], Data(n)) => Twice(down[k], Data(n))
    <3>1. ASSUME NEW k \in Links
          PROVE  /\ InQueue(down'[k], Data(n)) => InQueue(down[k], Data(n))
                 /\ Twice(down'[k], Data(n)) => Twice(down[k], Data(n))
      BY <1>2, <1>4, <1>6, <1>8, FrameQueues
    <3> QED
      BY <3>1
  <2>2. Frame(n)
    BY <1>1, <1>5, <1>7, <2>1 DEF Frame
  <2> QED
    BY <2>2, FrameKeeps DEF OnceInv
<1>9. ASSUME NEW m \in Msgs, Data(m) = e PROVE Once(m)'
  <2>1. Once(m) /\ UpFirst(m, l) /\ InQueue(up[l], Data(m))
    BY <1>2, <1>9 DEF OnceInv, Once
  <2>2. /\ l[1] = msgs[m].via[1] /\ ~Twice(up[l], Data(m))
        /\ \A k \in Links : (k # l => ~InQueue(up[k], Data(m))) /\ ~InQueue(down[k], Data(m))
        /\ \A s \in Servers : s # msgs[m].via[1] => Unsent(s, m) /\ NotAsked(s, m)
    BY <2>1 DEF UpFirst
  <2>3. \A k \in Links : ~InQueue(up'[k], Data(m))
    <3>1. ~InQueue(up'[l], Data(m))
      BY <1>1, <1>3, <1>9, <2>2, TailOnce DEF e
    <3> QED
      BY <1>3, <2>2, <3>1
  <2>4. ASSUME NEW k \in Links, InQueue(down'[k], Data(m))
        PROVE  /\ k # l /\ link[k] = "open" /\ ~Twice(down'[k], Data(m))
               /\ k[1] = msgs[m].via[1] => k[1] \in dropped
    <3>1. k # l /\ link[k] = "open" /\ down'[k] = Append(down[k], e)
      BY <1>4, <2>2, <2>4
    <3>2. ~Twice(down'[k], Data(m))
      BY <1>2, <1>6, <2>2, <3>1, AppendOnce, TwiceIsThere
    <3>3. ASSUME k[1] = l[1] PROVE l[1] \in dropped
      <4>1. link[l] \notin MsgOpen /\ link[l] # "new"
        BY <1>1, <3>1, <3>3 DEF TypeOK, MsgOpen, IInv, UpSound
      <4> QED
        BY <4>1, DroppedOf DEF MsgOpen
    <3> QED
      BY <2>2, <3>1, <3>2, <3>3
  <2>5. /\ \A s : Unsent(s, m) => Unsent(s, m)'
        /\ \A s : NotAsked(s, m) => NotAsked(s, m)'
    BY <1>1 DEF Unsent, NotAsked
  <2>6. \A k \in Links : UpFirst(m, k)'
    BY <2>3 DEF UpFirst
  <2>7. \A k \in Links : DownOnce(m, k)'
    <3>1. ASSUME NEW k \in Links, InQueue(down'[k], Data(m))
          PROVE  /\ ~Twice(down'[k], Data(m))
                 /\ \A j \in Links : j # k /\ j[1] = k[1] => ~InQueue(down'[j], Data(m))
                 /\ IF k[1] = msgs'[m].via[1] THEN k[1] \in dropped'
                    ELSE Unsent(k[1], m)' /\ NotAsked(k[1], m)'
      <4>1. \A j \in Links : j # k /\ j[1] = k[1] => ~InQueue(down'[j], Data(m))
        BY <1>1, <2>4, <3>1 DEF TypeOK, MsgOpen
      <4>2. k[1] \in Servers
        BY LinksAssumption
      <4> QED
        BY <1>1, <1>5, <2>2, <2>4, <2>5, <3>1, <4>1, <4>2
    <3> QED
      BY <3>1 DEF DownOnce
  <2>8. ~Unanswered(m)
    BY <2>1 DEF Once, Quiet
  <2>9. Addressed(m)' /\ Quiet(m)'
    BY <1>1, <2>1, <2>8 DEF Once, Addressed, Quiet, Unanswered
  <2>10. \A i \in infos' : i.msg = m => InfoOnce(i)'
    BY <1>1, <1>5, <2>1, <2>5 DEF Once, InfoOnce
  <2>11. \A c \in Conns : SentOnce(c, m)'
    BY <1>1, <1>5, <2>1 DEF Once, SentOnce, Copies, ToOneself
  <2> QED
    BY <2>6, <2>7, <2>9, <2>10, <2>11 DEF Once
<1>10. Idle'
  BY <1>1 DEF OnceInv, Idle
<1> QED
  BY <1>8, <1>9, <1>10 DEF OnceInv

\* What a msg_server does with a message from the route_server: it gives it to the connections
\* there, each once, or it asks for the members of the group.
LEMMA ReadOf ==
  ASSUME TypeOK, NEW l, NEW s \in Servers, NEW m \in Msgs, Addressed(m), ~Unanswered(m),
         ReadData(l, s, Data(m)) \/ ReadGroupData(l, s, Data(m))
  PROVE  /\ \A c \in Conns, n \in Msgs :
              n # m \/ c[1] # s \/ conns[c] = None => got'[c][n] = got[c][n]
         /\ \A c \in Conns : got'[c][m] <= got[c][m] + IF ToOneself(m) THEN 2 ELSE 1
         /\ \/ infos' = infos /\ msgs[m].kind # "group"
            \/ /\ infos' = infos \cup {[server |-> s, msg |-> m, handle |-> None]}
               /\ got' = got /\ msgs[m].kind = "group"
<1>1. /\ Data(m).msg = m /\ got \in [Conns -> [Msgs -> Nat]] /\ \A c \in Conns : got[c][m] \in Nat
      /\ msgs[m] # None /\ msgs[m].state = "done"
  BY DEF Data, TypeOK, Unanswered
<1>2. CASE ReadGroupData(l, s, Data(m))
  BY <1>1, <1>2 DEF ReadGroupData
<1>3. CASE ReadData(l, s, Data(m)) /\ msgs[m].kind = "notice"
  <2> DEFINE C == SessionsOf(msgs[m].from, s)
  <2>1. got' = Send(got, m, C) /\ infos' = infos /\ msgs[m].kind # "group"
    BY <1>1, <1>3 DEF ReadData
  <2>2. \A c \in C : c[1] = s /\ conns[c] # None
    BY DEF SessionsOf
  <2> HIDE DEF C
  <2>3. \A c \in Conns : /\ got'[c][m] = IF c \in C THEN got[c][m] + 1 ELSE got[c][m]
                         /\ \A n \in Msgs : n # m => got'[c][n] = got[c][n]
    BY <1>1, <2>1, SendOf
  <2> QED
    BY <1>1, <2>1, <2>2, <2>3
<1>4. CASE ReadData(l, s, Data(m)) /\ msgs[m].kind # "notice"
  <2> DEFINE A == SessionsOf(msgs[m].from, s) \ {None}
             B == SessionsOf(msgs[m].to, s)
  <2>1. got' = ToBoth(got, m, s, None) /\ infos' = infos /\ msgs[m].kind # "group"
    BY <1>1, <1>4 DEF ReadData
  <2>2. msgs[m].kind \in {"single", "p2p"}
    BY <1>1, <1>4, <2>1, KindsAssumption DEF TypeOK, Msg, AllKinds
  <2>3. ~ToOneself(m) => A \cap B = {}
    BY <1>1, <2>2, SessionsApart DEF Addressed, ToOneself
  <2>4. \A c \in A \cup B : c[1] = s /\ conns[c] # None
    BY DEF SessionsOf
  <2>5. /\ \A c \in Conns : \A n \in Msgs : n # m => got'[c][n] = got[c][n]
        /\ \A c \in Conns \ (A \cup B) : got'[c][m] = got[c][m]
        /\ A \cap B = {} => \A c \in Conns : got'[c][m] <= got[c][m] + 1
        /\ \A c \in Conns : got'[c][m] <= got[c][m] + 2
    BY <2>1, ToBothOf
  <2> HIDE DEF A, B
  <2> QED
    BY <1>1, <2>1, <2>3, <2>4, <2>5
<1> QED
  BY <1>2, <1>3, <1>4

LEMMA OnceServerRead ==
  ASSUME IInv, OnceInv, NEW l \in Links, ServerRead(l)
  PROVE  OnceInv'
<1> DEFINE e == Head(down[l])
           s == l[1]
<1>1. /\ down[l] # <<>> /\ down[l] \in Seq(Pdu) /\ UNCHANGED <<msgs, link, up>>
      /\ TypeOK /\ s \in Servers /\ conns \in ConnTable
  BY LinksAssumption DEF ServerRead, IInv, TypeOK, ConnTable
<1>2. e \in Pdu /\ InQueue(down[l], e)
  BY <1>1, TailQueue
<1>3. /\ \A k \in Links : k # l => down'[k] = down[k]
      /\ down'[l] = Tail(down[l])
  BY <1>1 DEF ServerRead, TypeOK
<1>4. ReadKick(l, s, e) \/ ReadData(l, s, e) \/ ReadGroupData(l, s, e)
  BY DEF ServerRead
<1>5. dropped' = dropped
  BY <1>1, DroppedOf
<1>6. \A n : \A k \in Links : /\ InQueue(down'[k], Data(n)) => InQueue(down[k], Data(n))
                              /\ Twice(down'[k], Data(n)) => Twice(down[k], Data(n))
  <2>1. ASSUME NEW n, NEW k \in Links
        PROVE  /\ InQueue(down'[k], Data(n)) => InQueue(down[k], Data(n))
               /\ Twice(down'[k], Data(n)) => Twice(down[k], Data(n))
    <3>1. down[k] \in Seq(Pdu)
      BY <1>1 DEF TypeOK
    <3> QED
      BY <1>1, <1>3, <3>1, FrameQueues
  <2> QED
    BY <2>1
<1>7. CASE ReadKick(l, s, e)
  <2>1. conns' = KickOut(e.user, e.class, s) /\ UNCHANGED <<infos, got>>
    BY <1>7 DEF ReadKick
  <2>2. \A c \in Conns : /\ conns'[c] = None <=> conns[c] = None
                         /\ conns'[c] # None => conns'[c].user = conns[c].user
    BY <1>1, <2>1, KickKeepsRest DEF SameSessions
  <2>3. \A n \in Msgs : Once(n)'
    <3>1. ASSUME NEW n \in Msgs PROVE Once(n)'
      <4>1. Frame(n)
        BY <1>1, <1>5, <1>6, <2>1, <2>2 DEF Frame
      <4> QED
        BY <4>1, FrameKeeps DEF OnceInv
    <3> QED
      BY <3>1
  <2> QED
    BY <2>1, <2>2, <2>3 DEF OnceInv, Idle
<1>8. CASE ReadData(l, s, e) \/ ReadGroupData(l, s, e)
  <2>1. PICK m \in Msgs : e = Data(m)
    BY <1>2, <1>8 DEF ReadData, ReadGroupData, Pdu, Data
  <2>2. InQueue(down[l], Data(m)) /\ Once(m) /\ ~InQueue(Tail(down[l]), Data(m))
    <3>1. InQueue(down[l], Data(m)) /\ Once(m)
      BY <1>2, <2>1 DEF OnceInv
    <3>2. ~Twice(down[l], Data(m))
      BY <3>1 DEF Once, DownOnce
    <3> QED
      BY <1>1, <2>1, <3>1, <3>2, TailOnce
  <2> HIDE DEF e
  <2>3. ~Unanswered(m) /\ Addressed(m) /\ msgs[m] # None
    BY <2>2 DEF Once, Quiet, Unanswered
  <2> DEFINE info == [server |-> s, msg |-> m, handle |-> None]
  <2>4. /\ \A c \in Conns, n \in Msgs :
              n # m \/ c[1] # s \/ conns[c] = None => got'[c][n] = got[c][n]
        /\ \A c \in Conns : got'[c][m] <= got[c][m] + IF ToOneself(m) THEN 2 ELSE 1
        /\ \/ infos' = infos /\ msgs[m].kind # "group"
           \/ infos' = infos \cup {info} /\ got' = got /\ msgs[m].kind = "group"
    BY <1>1, <1>8, <2>1, <2>3, ReadOf
  <2>5. conns' = conns
    BY <1>8 DEF ReadData, ReadGroupData
  <2>6. info.server = s /\ info.msg = m /\ info.handle = None
    OBVIOUS
  <2> HIDE DEF info
  <2>7. ASSUME NEW n \in Msgs, n # m PROVE Once(n)'
    <3>1. Frame(n)
      BY <1>1, <1>5, <1>6, <2>4, <2>5, <2>6, <2>7 DEF Frame
    <3> QED
      BY <3>1, FrameKeeps DEF OnceInv
  <2>8. \A t : t # s => /\ Unsent(t, m) => Unsent(t, m)'
                        /\ NotAsked(t, m) => NotAsked(t, m)'
    BY <2>4, <2>6 DEF Unsent, NotAsked
  <2>9. Addressed(m)' /\ Quiet(m)'
    BY <1>1, <2>3 DEF Addressed, Quiet, Unanswered
  <2>10. \A k \in Links : ~InQueue(up'[k], Data(m))
    BY <1>1, <2>2 DEF Once, UpFirst
  <2>11. \A k \in Links : k[1] = s => ~InQueue(down'[k], Data(m))
    BY <1>3, <2>2 DEF Once, DownOnce
  <2>12. ASSUME NEW k \in Links, InQueue(down'[k], Data(m))
         PROVE  /\ ~Twice(down'[k], Data(m))
                /\ \A j \in Links : j # k /\ j[1] = k[1] => ~InQueue(down'[j], Data(m))
                /\ IF k[1] = msgs'[m].via[1] THEN k[1] \in dropped'
                   ELSE Unsent(k[1], m)' /\ NotAsked(k[1], m)'
    <3>1. k[1] # s /\ InQueue(down[k], Data(m)) /\ DownOnce(m, k)
      BY <1>6, <2>2, <2>11, <2>12 DEF Once
    <3> QED
      BY <1>1, <1>5, <1>6, <2>8, <3>1 DEF DownOnce
  <2>13. IF s = msgs[m].via[1] THEN s \in dropped ELSE Unsent(s, m) /\ NotAsked(s, m)
    BY <2>2 DEF Once, DownOnce
  <2>14. ASSUME NEW i \in infos', i.msg = m PROVE InfoOnce(i)'
    <3>1. CASE i \in infos /\ i.server # s
      <4>1. InfoOnce(i) /\ (Unsent(i.server, m) => Unsent(i.server, m)')
        BY <2>2, <2>8, <2>14, <3>1 DEF Once
      <4> QED
        BY <1>1, <1>5, <2>14, <4>1 DEF InfoOnce
    <3>2. CASE i \in infos /\ i.server = s
      <4>1. InfoOnce(i) /\ s = msgs[m].via[1] /\ s \in dropped
        BY <2>2, <2>13, <2>14, <3>2 DEF Once, NotAsked
      <4> QED
        BY <1>1, <1>5, <2>14, <3>2, <4>1 DEF InfoOnce
    <3>3. CASE i \notin infos
      <4>1. i.server = s /\ i.handle = None /\ got' = got /\ msgs[m].kind = "group"
        BY <2>4, <2>6, <3>3
      <4>2. s # msgs[m].via[1] => Unsent(s, m)'
        BY <2>13, <4>1 DEF Unsent
      <4> QED
        BY <1>1, <1>5, <2>3, <2>13, <2>14, <4>1, <4>2 DEF InfoOnce
    <3> QED
      BY <3>1, <3>2, <3>3
  <2>15. ASSUME NEW c \in Conns PROVE SentOnce(c, m)'
    <3>1. CASE c[1] # s
      BY <1>1, <1>5, <2>2, <2>4, <2>5, <3>1 DEF Once, SentOnce, Copies, ToOneself
    <3>2. CASE c[1] = s /\ s = msgs[m].via[1]
      BY <1>1, <1>5, <2>13, <3>2 DEF SentOnce
    <3>3. CASE c[1] = s /\ s # msgs[m].via[1]
      <4>1. got[c][m] = 0 /\ got'[c][m] <= (IF ToOneself(m) THEN 2 ELSE 1) /\ c # msgs[m].via
        BY <2>4, <2>13, <3>3 DEF Unsent
      <4> QED
        BY <1>1, <4>1 DEF SentOnce, Copies, ToOneself
    <3> QED
      BY <3>1, <3>2, <3>3
  <2>16. Once(m)'
    BY <2>9, <2>10, <2>12, <2>14, <2>15 DEF Once, UpFirst, DownOnce
  <2>17. Idle'
    BY <2>4, <2>5 DEF OnceInv, Idle
  <2> QED
    BY <2>7, <2>16, <2>17 DEF OnceInv
<1> QED
  BY <1>4, <1>7, <1>8

LEMMA OnceStep ==
  ASSUME IInv, OnceInv, [Next]_vars
  PROVE  OnceInv'
<1>1. TypeOK
  BY DEF IInv
<1>2. ASSUME NEW c \in Conns, NEW u \in Users, NEW k \in Classes, Login(c, u, k) PROVE OnceInv'
  BY <1>2, OnceSessions
<1>3. ASSUME NEW c \in Conns, Close(c) \/ KickPCClient(c) PROVE OnceInv'
  BY <1>3, OnceSessions
<1>4. ASSUME NEW c \in Conns, NEW m \in Msgs, NEW to \in Users \cup {Group},
             ClientMsgData(c, m, to) \/ P2PCmdMsg(c, m, to)
      PROVE  OnceInv'
  BY <1>1, <1>4, OnceClientMsgData, OnceUnstored
<1>5. ASSUME NEW c \in Conns, NEW m \in Msgs, Notice(c, m) PROVE OnceInv'
  BY <1>1, <1>5, OnceUnstored
<1>6. ASSUME NEW m \in Msgs, Store(m) \/ MsgDataAnswer(m) \/ GroupMsgAnswer(m) PROVE OnceInv'
  BY <1>1, <1>6, OnceStore, OnceMsgDataAnswer, OnceGroupMsgAnswer
<1>7. ASSUME NEW i \in infos, GroupInfoAnswer(i) PROVE OnceInv'
  BY <1>1, <1>7, OnceGroupInfoAnswer
<1>8. ASSUME NEW s \in Servers, Connect(s) PROVE OnceInv'
  BY <1>8, OnceLinks
<1>9. ASSUME NEW l \in Links, MsgClose(l) \/ RouteClose(l) PROVE OnceInv'
  BY <1>9, OnceLinks
<1>10. ASSUME NEW l \in Links, RouteRead(l) \/ ServerRead(l) PROVE OnceInv'
  BY <1>10, OnceRouteRead, OnceServerRead
<1>11. CASE UNCHANGED vars
  <2>1. UNCHANGED <<conns, msgs, infos, link, up, down, got>> /\ dropped' = dropped
    BY <1>11, DroppedOf DEF vars, linkVars
  <2>2. ASSUME NEW m \in Msgs PROVE Once(m)'
    <3>1. Frame(m)
      BY <2>1 DEF Frame
    <3> QED
      BY <3>1, FrameKeeps DEF OnceInv
  <2> QED
    BY <2>1, <2>2 DEF OnceInv, Idle
<1> QED
  BY <1>2, <1>3, <1>4, <1>5, <1>6, <1>7, <1>8, <1>9, <1>10, <1>11 DEF Next

-----------------------------------------------------------------------------
(* Nobody is missed.  Once the db_proxy has answered, a client that is to  *)
(* see the message was sent it, logged in later, or the message is on its  *)
(* way: a request of the members at the client's msg_server, or a pdu from *)
(* the sender's msg_server or to the client's.                             *)

Asked(s, m) == \E i \in infos : i.msg = m /\ i.server = s

Travels(s, m) ==
    \E l \in Links :
        \/ l[1] = msgs[m].via[1] /\ InQueue(up[l], Data(m))
        \/ l[1] = s /\ InQueue(down[l], Data(m))

NotMissed(c, m) ==
    conns[c] # None /\ ~Unanswered(m) =>
        \/ conns[c].user \notin Audience(m)
        \/ got[c][m] >= 1 \/ m \in conns[c].old
        \/ c = msgs[m].via /\ conns[c].user = msgs[m].from
        \/ c[1] \in dropped \/ msgs[m].via[1] \in dropped
        \/ Asked(c[1], m)
        \/ c[1] # msgs[m].via[1] /\ Travels(c[1], m)

MissInv == \A c \in Conns, m \in Msgs : NotMissed(c, m)

\* A client that is there keeps what it was sent; one that has logged in finds the message stored.
Keeps(c, m) ==
    conns'[c] # None =>
        \/ ~Unanswered(m) => m \in conns'[c].old
        \/ /\ conns[c] # None /\ conns'[c].user = conns[c].user
           /\ m \in conns[c].old => m \in conns'[c].old
           /\ got'[c][m] >= got[c][m]

KeepsQueues(m) ==
    \A l \in Links : l[1] \notin dropped' =>
        /\ InQueue(up[l], Data(m)) => InQueue(up'[l], Data(m))
        /\ InQueue(down[l], Data(m)) => InQueue(down'[l], Data(m))

LEMMA MissKept ==
  ASSUME TypeOK, TypeOK', NEW c \in Conns, NEW m \in Msgs, NotMissed(c, m),
         msgs'[m] = msgs[m], dropped \subseteq dropped', Keeps(c, m), KeepsQueues(m),
         \A i \in infos : i.msg = m => i \in infos'
  PROVE  NotMissed(c, m)'
<1> SUFFICES ASSUME conns'[c] # None, ~Unanswered(m)', conns'[c].user \in Audience(m)',
                    ~(got'[c][m] >= 1), m \notin conns'[c].old,
                    ~(c = msgs'[m].via /\ conns'[c].user = msgs'[m].from),
                    c[1] \notin dropped', msgs'[m].via[1] \notin dropped'
             PROVE  Asked(c[1], m)' \/ (c[1] # msgs'[m].via[1] /\ Travels(c[1], m)')
  BY DEF NotMissed
<1>1. ~Unanswered(m) /\ Audience(m)' = Audience(m)
  BY DEF Unanswered, Audience
<1>2. /\ conns[c] # None /\ conns'[c].user = conns[c].user /\ m \notin conns[c].old
      /\ got'[c][m] >= got[c][m]
  BY <1>1 DEF Keeps
<1>3. got[c][m] \in Nat /\ got'[c][m] \in Nat
  BY DEF TypeOK
<1>4. ~(got[c][m] >= 1)
  BY <1>2, <1>3
<1>5. Asked(c[1], m) \/ (c[1] # msgs[m].via[1] /\ Travels(c[1], m))
  BY <1>1, <1>2, <1>4 DEF NotMissed
<1>6. Asked(c[1], m) => Asked(c[1], m)'
  BY DEF Asked
<1>7. Travels(c[1], m) => Travels(c[1], m)'
  BY DEF Travels, KeepsQueues
<1> QED
  BY <1>5, <1>6, <1>7

LEMMA MissInit == Init => MissInv
  BY DEF Init, MissInv, NotMissed, Unanswered

\* Clients that come and go, and the links
LEMMA MissSessions ==
  ASSUME IInv, IInv', MissInv, NEW c \in Conns,
         (\E u \in Users, k \in Classes : Login(c, u, k)) \/ Close(c) \/ KickPCClient(c)
  PROVE  MissInv'
<1>1. conns \in ConnTable /\ TypeOK /\ TypeOK' /\ got \in [Conns -> [Msgs -> Nat]]
  BY DEF IInv, TypeOK, ConnTable
<1>2. UNCHANGED <<msgs, infos, link, down>> /\ dropped' = dropped
  BY DroppedOf DEF Login, Close, KickPCClient, linkVars
<1>3. \A l \in Links : \A p : InQueue(up[l], p) => InQueue(up'[l], p)
  <2>1. ASSUME NEW s, NEW u \in Users, NEW k \in Classes, ToRoute(s, KickPdu(u, k))
        PROVE  \A l \in Links : \A p : InQueue(up[l], p) => InQueue(up'[l], p)
    BY <1>1, <2>1, PduTypes, ToRouteReaches
  <2>2. UNCHANGED up \/ \E s, u, k : u \in Users /\ k \in Classes /\ ToRoute(s, KickPdu(u, k))
    <3>1. ASSUME KickPCClient(c) PROVE conns[c].user \in Users /\ "pc" \in Classes
      BY <1>1, <3>1 DEF KickPCClient, ConnTable, Session, Classes
    <3> QED
      BY <3>1 DEF Login, Close, KickPCClient, linkVars
  <2> QED
    BY <2>1, <2>2
<1>4. \A d \in Conns :
         \/ conns'[d] = None
         \/ conns'[d].old = Stored
         \/ /\ conns[d] # None /\ conns'[d].user = conns[d].user
            /\ conns'[d].old = conns[d].old /\ got'[d] = got[d]
  <2>1. ASSUME NEW u \in Users, NEW k \in Classes, Login(c, u, k), NEW d \in Conns, conns'[d] # None
        PROVE  \/ conns'[d].old = Stored
               \/ /\ conns[d] # None /\ conns'[d].user = conns[d].user
                  /\ conns'[d].old = conns[d].old /\ got'[d] = got[d]
    <3> DEFINE rest == Supersede(KickOut(u, k, c[1]), u, k)
    <3>1. SameSessions(rest)
      BY <1>1, KickKeepsRest
    <3>2. conns' = [rest EXCEPT ![c] = NewSession(u, k)] /\ got' = got
      BY <2>1 DEF Login
    <3> HIDE DEF rest
    <3>3. conns'[c] = NewSession(u, k) /\ (d # c => conns'[d] = rest[d])
      BY <3>1, <3>2 DEF SameSessions, ConnTable
    <3>4. NewSession(u, k).old = Stored
      BY DEF NewSession
    <3> QED
      BY <2>1, <3>1, <3>2, <3>3, <3>4 DEF SameSessions
  <2>2. ASSUME KickPCClient(c), NEW d \in Conns, conns'[d] # None
        PROVE  /\ conns[d] # None /\ conns'[d].user = conns[d].user
               /\ conns'[d].old = conns[d].old /\ got'[d] = got[d]
    <3>1. /\ conns' = Supersede(KickOut(conns[c].user, "pc", c[1]), conns[c].user, "pc")
          /\ got' = got
      BY <2>2 DEF KickPCClient
    <3> QED
      BY <1>1, <2>2, <3>1, KickKeepsRest DEF SameSessions
  <2>3. ASSUME Close(c), NEW d \in Conns, conns'[d] # None
        PROVE  /\ conns[d] # None /\ conns'[d] = conns[d] /\ got'[d] = got[d]
    BY <1>1, <2>3 DEF Close, ConnTable
  <2> QED
    BY <2>1, <2>2, <2>3
<1>5. ASSUME NEW d \in Conns, NEW m \in Msgs PROVE NotMissed(d, m)'
  <2>1. ~Unanswered(m) => m \in Stored
    BY DEF Unanswered, Stored
  <2>2. got[d][m] >= got[d][m]
    BY <1>1
  <2>3. Keeps(d, m)
    BY <1>4, <2>1, <2>2 DEF Keeps
  <2>4. KeepsQueues(m)
    BY <1>2, <1>3 DEF KeepsQueues
  <2> QED
    BY <1>1, <1>2, <2>3, <2>4, MissKept DEF MissInv
<1> QED
  BY <1>5 DEF MissInv

LEMMA MissLinks ==
  ASSUME IInv, IInv', MissInv,
         (\E s \in Servers : Connect(s)) \/ (\E l \in Links : MsgClose(l) \/ RouteClose(l))
  PROVE  MissInv'
<1>1. UNCHANGED <<conns, msgs, infos, got>> /\ TypeOK /\ TypeOK'
  BY DEF Connect, MsgClose, RouteClose, IInv
<1>2. /\ dropped \subseteq dropped'
      /\ \A k \in Links : k[1] \notin dropped' => up'[k] = up[k] /\ down'[k] = down[k]
  <2>1. ASSUME NEW s \in Servers, Connect(s)
        PROVE  UNCHANGED <<up, down>> /\ dropped \subseteq dropped'
    <3>1. PICK l \in Links : link[l] = "new" /\ link' = [link EXCEPT ![l] = "open"]
      BY <2>1 DEF Connect
    <3>2. \A k \in Links : k # l => link'[k] = link[k]
      BY <1>1, <3>1 DEF TypeOK
    <3>3. dropped \subseteq dropped'
      BY <3>1, <3>2 DEF dropped
    <3> QED
      BY <2>1, <3>3 DEF Connect
  <2>2. ASSUME NEW l \in Links, MsgClose(l) \/ RouteClose(l)
        PROVE  /\ dropped \subseteq dropped'
               /\ \A k \in Links : k[1] \notin dropped' => up'[k] = up[k] /\ down'[k] = down[k]
    <3>1. link'[l] \notin {"new", "open"} /\ \A k \in Links : k # l => link'[k] = link[k]
      BY <1>1, <2>2 DEF MsgClose, RouteClose, TypeOK
    <3>2. \A k \in Links : k # l => up'[k] = up[k] /\ down'[k] = down[k]
      BY <1>1, <2>2 DEF MsgClose, RouteClose, TypeOK
    <3>3. l[1] \in dropped'
      BY <3>1, LinksAssumption DEF dropped
    <3> QED
      BY <3>1, <3>2, <3>3 DEF dropped
  <2> QED
    BY <2>1, <2>2
<1>3. ASSUME NEW c \in Conns, NEW m \in Msgs PROVE NotMissed(c, m)'
  <2>1. got'[c][m] >= got[c][m]
    BY <1>1 DEF TypeOK
  <2>2. Keeps(c, m) /\ KeepsQueues(m)
    BY <1>1, <1>2, <2>1 DEF Keeps, KeepsQueues
  <2> QED
    BY <1>1, <1>2, <2>2, MissKept DEF MissInv
<1> QED
  BY <1>3 DEF MissInv

\* Steps that concern message m only, at a msg_server or with an answer to it
LEMMA OthersMiss ==
  ASSUME TypeOK, TypeOK', MissInv, NEW m \in Msgs, UNCHANGED <<conns, link, down>>,
         \A n \in Msgs : n # m => msgs'[n] = msgs[n],
         UNCHANGED up \/ \E s : ToRoute(s, Data(m)),
         \A i \in infos : i \in infos' \/ i.msg = m,
         \A c \in Conns, n \in Msgs : n # m => got'[c][n] = got[c][n],
         \A c \in Conns : NotMissed(c, m)'
  PROVE  MissInv'
<1>1. Data(m) \in Pdu /\ dropped' = dropped
  BY PduTypes, DroppedOf DEF Data
<1>2. \A l \in Links : \A p : InQueue(up[l], p) => InQueue(up'[l], p)
  <2>1. ASSUME NEW s, ToRoute(s, Data(m))
        PROVE  \A l \in Links : \A p : InQueue(up[l], p) => InQueue(up'[l], p)
    BY <1>1, <2>1, ToRouteReaches
  <2> QED
    BY <2>1
<1>3. ASSUME NEW c \in Conns, NEW n \in Msgs, n # m PROVE NotMissed(c, n)'
  <2>1. got'[c][n] >= got[c][n]
    BY <1>3 DEF TypeOK
  <2>2. Keeps(c, n) /\ KeepsQueues(n)
    BY <1>2, <2>1 DEF Keeps, KeepsQueues
  <2> QED
    BY <1>1, <1>3, <2>2, MissKept DEF MissInv
<1> QED
  BY <1>3 DEF MissInv

\* The msg_server of the sender gives the message to its own clients or asks who they are, and
\* the route_server hears of it.
LEMMA AnsweredMiss ==
  ASSUME TypeOK, FirstLinked, NEW m \in Msgs, UNCHANGED <<conns, link, down>>,
         msgs'[m].via \in Conns, ToRoute(msgs'[m].via[1], Data(m)),
         \A c \in Conns :
            /\ c[1] = msgs'[m].via[1] /\ conns[c] # None
            /\ ~(c = msgs'[m].via /\ conns[c].user = msgs'[m].from)
            /\ conns[c].user \in Audience(m)'
            => got'[c][m] >= 1 \/ Asked(c[1], m)'
  PROVE  \A c \in Conns : NotMissed(c, m)'
<1> DEFINE s == msgs'[m].via[1]
<1>1. Data(m) \in Pdu /\ s \in Servers /\ dropped' = dropped
  BY PduTypes, DroppedOf, ConnsAssumption DEF Data
<1>2. ASSUME NEW c \in Conns, c[1] # s, s \notin dropped PROVE Travels(c[1], m)'
  <2>1. PICK l \in Links : l[1] = s /\ link[l] = "open"
    BY <1>1, <1>2, FirstOpen
  <2>2. InQueue(up'[l], Data(m))
    BY <1>1, <2>1, ToRouteReaches
  <2> QED
    BY <2>1, <2>2 DEF Travels
<1> QED
  BY <1>1, <1>2 DEF NotMissed

LEMMA MissUnanswered ==
  ASSUME TypeOK, TypeOK', MissInv, NEW m \in Msgs,
         Store(m) \/ \E c \in Conns, to \in Users \cup {Group} : ClientMsgData(c, m, to)
  PROVE  MissInv'
<1>1. UNCHANGED <<conns, infos, link, up, down, got>>
  BY DEF Store, ClientMsgData, linkVars
<1>2. Unanswered(m)' /\ \A n \in Msgs : n # m => msgs'[n] = msgs[n]
  <2>1. CASE Store(m)
    <3>1. msgs' = [msgs EXCEPT ![m].state = "stored"] /\ msgs[m] # None
      BY <2>1 DEF Store
    <3> QED
      BY <3>1, NewState DEF Unanswered
  <2>2. ASSUME NEW c \in Conns, NEW to \in Users \cup {Group}, ClientMsgData(c, m, to)
        PROVE  Unanswered(m)' /\ \A n \in Msgs : n # m => msgs'[n] = msgs[n]
    <3> DEFINE kind == IF to = Group THEN "group" ELSE "single"
    <3>1. /\ msgs' = [msgs EXCEPT ![m] = NewMsg(c, to, kind, "asked")] /\ kind \in Kinds
          /\ conns[c] # None
      BY <2>2 DEF ClientMsgData
    <3>2. msgs'[m] = NewMsg(c, to, kind, "asked") /\ \A n \in Msgs : n # m => msgs'[n] = msgs[n]
      BY <3>1 DEF TypeOK
    <3>3. msgs'[m].state = "asked"
      BY <3>1, <3>2, NewMsgOf
    <3> QED
      BY <3>2, <3>3 DEF Unanswered
  <2> QED
    BY <2>1, <2>2
<1>3. \A c \in Conns : NotMissed(c, m)'
  BY <1>2 DEF NotMissed
<1> QED
  BY <1>1, <1>2, <1>3, OthersMiss

LEMMA MissMsgDataAnswer ==
  ASSUME TypeOK, TypeOK', FirstLinked, MissInv, NEW m \in Msgs, MsgDataAnswer(m)
  PROVE  MissInv'
<1> DEFINE v == msgs[m].via
           a == Asker(msgs[m].from, v[1], v[2])
           A == SessionsOf(msgs[m].from, v[1]) \ {a}
           B == SessionsOf(msgs[m].to, v[1])
<1>1. /\ msgs' = [msgs EXCEPT ![m].state = "done"] /\ msgs[m] # None /\ msgs[m].kind = "single"
      /\ ToRoute(v[1], Data(m)) /\ got' = ToBoth(got, m, v[1], a)
      /\ UNCHANGED <<conns, infos, link, down>>
  BY DEF MsgDataAnswer, Data
<1>2. /\ msgs'[m].via = v /\ msgs'[m].from = msgs[m].from
      /\ msgs'[m].to = msgs[m].to /\ msgs'[m].kind = msgs[m].kind /\ v \in Conns
      /\ \A n \in Msgs : n # m => msgs'[n] = msgs[n]
  BY <1>1, NewState
<1>3. Audience(m)' = {msgs[m].from, msgs[m].to}
  BY <1>1, <1>2 DEF Audience
<1>4. /\ \A c \in Conns : \A n \in Msgs : n # m => got'[c][n] = got[c][n]
      /\ \A c \in A \cup B : got'[c][m] > got[c][m]
  BY <1>1, ToBothOf
<1>5. ASSUME NEW c \in Conns, c[1] = v[1], conns[c] # None,
             ~(c = v /\ conns[c].user = msgs[m].from), conns[c].user \in Audience(m)'
      PROVE  got'[c][m] >= 1
  <2>1. c # a
    <3>1. c = a => c = v /\ v \in SessionsOf(msgs[m].from, v[1])
      BY <1>2, AskerOf
    <3> QED
      BY <1>5, <3>1 DEF SessionsOf
  <2>2. c \in A \cup B
    BY <1>3, <1>5, <2>1 DEF SessionsOf
  <2>3. got'[c][m] > got[c][m] /\ got[c][m] \in Nat /\ got'[c][m] \in Nat
    BY <1>4, <2>2 DEF TypeOK
  <2> QED
    BY <2>3
<1> HIDE DEF v, a, A, B
<1>6. \A c \in Conns : NotMissed(c, m)'
  BY <1>1, <1>2, <1>5, AnsweredMiss
<1> QED
  BY <1>1, <1>2, <1>4, <1>6, OthersMiss

LEMMA MissGroupMsgAnswer ==
  ASSUME TypeOK, TypeOK', FirstLinked, MissInv, NEW m \in Msgs, GroupMsgAnswer(m)
  PROVE  MissInv'
<1> DEFINE v == msgs[m].via
           info == [server |-> v[1], msg |-> m, handle |-> v[2]]
<1>1. /\ msgs' = [msgs EXCEPT ![m].state = "done"] /\ msgs[m] # None
      /\ ToRoute(v[1], Data(m)) /\ infos' = infos \cup {info}
      /\ UNCHANGED <<conns, got, link, down>>
  BY DEF GroupMsgAnswer, Data
<1>2. msgs'[m].via = v /\ v \in Conns /\ \A n \in Msgs : n # m => msgs'[n] = msgs[n]
  BY <1>1, NewState
<1>3. info.server = v[1] /\ info.msg = m
  OBVIOUS
<1> HIDE DEF info, v
<1>4. \A c \in Conns : c[1] = v[1] => Asked(c[1], m)'
  BY <1>1, <1>3 DEF Asked
<1>5. \A c \in Conns : NotMissed(c, m)'
  BY <1>1, <1>2, <1>4, AnsweredMiss
<1> QED
  BY <1>1, <1>2, <1>5, OthersMiss

LEMMA MissUnstored ==
  ASSUME TypeOK, TypeOK', FirstLinked, MissInv, NEW c \in Conns, NEW m \in Msgs, NEW to,
         Notice(c, m) \/ P2PCmdMsg(c, m, to)
  PROVE  MissInv'
<1> DEFINE u == conns[c].user
           A == SessionsOf(u, c[1]) \ {c}
           B == SessionsOf(to, c[1])
           h == Send(got, m, A)
<1>1. /\ conns[c] # None /\ ToRoute(c[1], Data(m))
      /\ got' = h \/ got' = Send(h, m, B)
      /\ UNCHANGED <<conns, infos, link, down>>
  BY DEF Notice, P2PCmdMsg, Data
<1>2. got \in [Conns -> [Msgs -> Nat]] /\ got' \in [Conns -> [Msgs -> Nat]]
  BY DEF TypeOK
<1>3. /\ msgs'[m].via = c /\ msgs'[m].from = u /\ \A n \in Msgs : n # m => msgs'[n] = msgs[n]
      /\ \/ Audience(m)' = {u} /\ got' = h
         \/ Audience(m)' = {u, to} /\ got' = Send(h, m, B)
  <2>1. u \in Users
    BY <1>1 DEF TypeOK, Session
  <2>2. CASE Notice(c, m)
    <3>1. msgs' = [msgs EXCEPT ![m] = NewMsg(c, u, "notice", "done")] /\ "notice" \in Kinds /\ got' = h
      BY <2>2 DEF Notice
    <3>2. msgs'[m] = NewMsg(c, u, "notice", "done") /\ \A n \in Msgs : n # m => msgs'[n] = msgs[n]
      BY <3>1 DEF TypeOK
    <3> HIDE DEF u, h
    <3>3. msgs'[m].via = c /\ msgs'[m].from = conns[c].user /\ msgs'[m].kind = "notice"
      BY <1>1, <2>1, <3>1, <3>2, NewMsgOf
    <3> QED
      BY <3>1, <3>2, <3>3 DEF Audience, u
  <2>3. CASE P2PCmdMsg(c, m, to)
    <3>1. msgs' = [msgs EXCEPT ![m] = NewMsg(c, to, "p2p", "done")] /\ "p2p" \in Kinds
          /\ to \in Users /\ got' = Send(h, m, B)
      BY <2>3 DEF P2PCmdMsg
    <3>2. msgs'[m] = NewMsg(c, to, "p2p", "done") /\ \A n \in Msgs : n # m => msgs'[n] = msgs[n]
      BY <3>1 DEF TypeOK
    <3>3. /\ msgs'[m].via = c /\ msgs'[m].from = u /\ msgs'[m].to = to /\ msgs'[m].kind = "p2p"
      BY <1>1, <3>1, <3>2, NewMsgOf
    <3> HIDE DEF h, B
    <3> QED
      BY <3>1, <3>2, <3>3 DEF Audience
  <2> QED
    BY <2>2, <2>3
<1>4. \A d \in Conns : conns[d] # None /\ d[1] = c[1] =>
         /\ ~(d = c /\ conns[d].user = u) /\ conns[d].user = u => d \in A
         /\ conns[d].user = to => d \in B
  BY DEF SessionsOf
<1> HIDE DEF u, A, B
<1>5. /\ h \in [Conns -> [Msgs -> Nat]]
      /\ \A d \in Conns : /\ h[d][m] = IF d \in A THEN got[d][m] + 1 ELSE got[d][m]
                          /\ \A n \in Msgs : n # m => h[d][n] = got[d][n]
  BY <1>2, SendOf
<1> HIDE DEF h
<1>6. \A d \in Conns : /\ Send(h, m, B)[d][m] = IF d \in B THEN h[d][m] + 1 ELSE h[d][m]
                       /\ \A n \in Msgs : n # m => Send(h, m, B)[d][n] = h[d][n]
  BY <1>5, SendOf
<1>7. \A d \in Conns, n \in Msgs : n # m => got'[d][n] = got[d][n]
  BY <1>1, <1>5, <1>6
<1>8. ASSUME NEW d \in Conns, d[1] = c[1], conns[d] # None, ~(d = c /\ conns[d].user = u),
             conns[d].user \in Audience(m)'
      PROVE  got'[d][m] >= 1
  <2>1. got[d][m] \in Nat /\ h[d][m] \in Nat
    BY <1>2, <1>5
  <2>2. d \in A => h[d][m] >= 1
    BY <1>5, <2>1
  <2>3. CASE Audience(m)' = {u} /\ got' = h
    BY <1>4, <1>8, <2>2, <2>3
  <2>4. CASE Audience(m)' = {u, to} /\ got' = Send(h, m, B)
    <3>1. d \in A \/ d \in B
      BY <1>4, <1>8, <2>4
    <3>2. got'[d][m] = IF d \in B THEN h[d][m] + 1 ELSE h[d][m]
      BY <1>6, <2>4
    <3> QED
      BY <2>1, <2>2, <3>1, <3>2
  <2> QED
    BY <1>3, <2>3, <2>4
<1>9. \A d \in Conns : NotMissed(d, m)'
  BY <1>1, <1>3, <1>8, AnsweredMiss
<1> QED
  BY <1>1, <1>3, <1>7, <1>9, OthersMiss

\* The request goes to all members but the connection that the message came on.
LEMMA MissGroupInfoAnswer ==
  ASSUME TypeOK, TypeOK', OnceInv, MissInv, NEW i \in infos, GroupInfoAnswer(i)
  PROVE  MissInv'
<1> DEFINE m == i.msg
           s == i.server
           v == msgs[m].via
           a == Asker(msgs[m].from, s, i.handle)
           C == (UNION {SessionsOf(u, s) : u \in Members}) \ {a}
<1>1. /\ infos' = infos \ {i} /\ got' = Send(got, m, C)
      /\ UNCHANGED <<conns, msgs, link, up, down>>
  BY DEF GroupInfoAnswer, linkVars
<1>2. /\ m \in Msgs /\ s \in Servers /\ InfoOnce(i) /\ dropped' = dropped
      /\ msgs[m] # None /\ msgs[m].kind = "group"
  BY <1>1, DroppedOf DEF TypeOK, Info, OnceInv, Once, InfoOnce
<1>3. v \in Conns /\ Audience(m) = Members /\ Audience(m)' = Members
  BY <1>1, <1>2 DEF TypeOK, Msg, Audience
<1>4. /\ \A c \in Conns : got'[c][m] = IF c \in C THEN got[c][m] + 1 ELSE got[c][m]
      /\ \A c \in Conns : \A n \in Msgs : n # m => got'[c][n] = got[c][n]
  <2>1. got \in [Conns -> [Msgs -> Nat]]
    BY DEF TypeOK
  <2> HIDE DEF C, m
  <2> QED
    BY <1>1, <1>2, <2>1, SendOf
<1>5. \A c \in Conns :
         c = a => (c = v /\ conns[c].user = msgs[m].from) \/ (s = v[1] /\ s \in dropped)
  <2>1. CASE s # v[1]
    <3>1. i.handle = None
      BY <1>2, <2>1 DEF InfoOnce
    <3>2. \A c \in Conns : c[2] # None
      BY ConnsAssumption, NamesAssumption
    <3>3. {c \in SessionsOf(msgs[m].from, s) : c[2] = i.handle} = {}
      BY <3>1, <3>2 DEF SessionsOf
    <3>4. a = None
      BY <3>3 DEF Asker
    <3> QED
      BY <3>4, NamesAssumption
  <2>2. CASE s = v[1] /\ s \notin dropped
    <3>1. a = Asker(msgs[m].from, v[1], v[2])
      BY <1>2, <2>2 DEF InfoOnce
    <3>2. \A c \in Conns : c = a => c = v /\ v \in SessionsOf(msgs[m].from, v[1])
      BY <1>3, <3>1, AskerOf
    <3> QED
      BY <3>2 DEF SessionsOf
  <2>3. CASE s = v[1] /\ s \in dropped
    BY <2>3
  <2> QED
    BY <2>1, <2>2, <2>3
<1>6. ASSUME NEW c \in Conns PROVE NotMissed(c, m)'
  <2>1. NotMissed(c, m)
    BY <1>2 DEF MissInv
  <2>2. CASE c[1] = s /\ conns[c] # None /\ conns[c].user \in Members /\ c # a
    <3>1. c \in C
      BY <2>2 DEF SessionsOf
    <3>2. got'[c][m] = got[c][m] + 1 /\ got[c][m] \in Nat
      BY <1>2, <1>4, <3>1 DEF TypeOK
    <3>3. got'[c][m] >= 1
      BY <3>2
    <3> QED
      BY <3>3 DEF NotMissed
  <2>3. CASE c[1] = s /\ c = a
    BY <1>1, <1>2, <1>5, <2>3 DEF NotMissed
  <2>4. CASE c[1] = s /\ conns[c] # None /\ conns[c].user \notin Members
    BY <1>1, <1>3, <2>4 DEF NotMissed
  <2>5. CASE conns[c] = None
    BY <1>1, <2>5 DEF NotMissed
  <2>6. CASE c[1] # s
    <3>1. Asked(c[1], m) => Asked(c[1], m)'
      BY <1>1, <2>6 DEF Asked
    <3>2. got'[c][m] >= 1 <=> got[c][m] >= 1
      <4>1. c \notin C
        BY <2>6 DEF SessionsOf
      <4> QED
        BY <1>4, <4>1
    <3>3. Travels(c[1], m) => Travels(c[1], m)'
      BY <1>1 DEF Travels
    <3>4. Unanswered(m)' <=> Unanswered(m)
      BY <1>1 DEF Unanswered
    <3> HIDE DEF C, a, s
    <3> QED
      BY <1>1, <1>2, <1>3, <2>1, <3>1, <3>2, <3>3, <3>4 DEF NotMissed
  <2> QED
    BY <2>2, <2>3, <2>4, <2>5, <2>6
<1>7. \A j \in infos : j \in infos' \/ j.msg = m
  BY <1>1
<1> HIDE DEF m
<1> QED
  BY <1>1, <1>2, <1>4, <1>6, <1>7, OthersMiss

\* The broadcast brings the message to each other msg_server that has its link.
LEMMA MissRouteRead ==
  ASSUME IInv, IInv', FirstLinked, OnceInv, MissInv, NEW l \in Links, RouteRead(l)
  PROVE  MissInv'
<1> DEFINE e == Head(up[l])
<1>1. /\ up[l] # <<>> /\ up[l] \in Seq(Pdu) /\ UNCHANGED <<conns, msgs, infos, link, got>>
      /\ TypeOK /\ TypeOK'
  BY DEF RouteRead, IInv, TypeOK
<1>2. e \in Pdu /\ InQueue(up[l], e)
  BY <1>1, TailQueue
<1>3. /\ \A k \in Links : k # l => up'[k] = up[k]
      /\ up'[l] = Tail(up[l])
  BY <1>1 DEF RouteRead, TypeOK
<1>4. \A k \in Links : down'[k] = IF k # l /\ link[k] = "open" THEN Append(down[k], e) ELSE down[k]
  BY DEF RouteRead
<1>5. \A p : InQueue(up[l], p) => InQueue(Tail(up[l]), p) \/ p = e
  BY <1>1, <1>2, QueueKeeps
<1> HIDE DEF e
<1>6. dropped' = dropped
  BY <1>1, DroppedOf
<1>7. /\ \A k \in Links : \A p : InQueue(down[k], p) => InQueue(down'[k], p)
      /\ \A k \in Links : k # l /\ link[k] = "open" => InQueue(down'[k], e)
  <2>1. ASSUME NEW k \in Links
        PROVE  /\ \A p : InQueue(down[k], p) => InQueue(down'[k], p)
               /\ k # l /\ link[k] = "open" => InQueue(down'[k], e)
    <3>1. down[k] \in Seq(Pdu)
      BY <1>1 DEF TypeOK
    <3> QED
      BY <1>2, <1>4, <3>1, QueueKeeps
  <2> QED
    BY <2>1
<1>8. ASSUME NEW c \in Conns, NEW m \in Msgs PROVE Keeps(c, m)
  <2>1. got'[c][m] >= got[c][m]
    BY <1>1 DEF TypeOK
  <2> QED
    BY <1>1, <2>1 DEF Keeps
<1>9. ASSUME NEW c \in Conns, NEW m \in Msgs, Data(m) # e PROVE NotMissed(c, m)'
  <2>1. KeepsQueues(m)
    BY <1>3, <1>5, <1>7, <1>9 DEF KeepsQueues
  <2> QED
    BY <1>1, <1>6, <1>8, <2>1, MissKept DEF MissInv
<1>10. ASSUME NEW c \in Conns, NEW m \in Msgs, Data(m) = e PROVE NotMissed(c, m)'
  <2>1. NotMissed(c, m) /\ l[1] = msgs[m].via[1]
    BY <1>2, <1>10 DEF MissInv, OnceInv, Once, UpFirst
  <2>2. ASSUME c[1] # msgs[m].via[1], c[1] \notin dropped PROVE Travels(c[1], m)'
    <3>1. c[1] \in Servers
      BY ConnsAssumption
    <3>2. PICK k \in Links : k[1] = c[1] /\ link[k] = "open"
      BY <2>2, <3>1, FirstOpen
    <3>3. InQueue(down'[k], Data(m))
      BY <1>7, <1>10, <2>1, <2>2, <3>2
    <3> QED
      BY <3>2, <3>3 DEF Travels
  <2>3. Asked(c[1], m)' <=> Asked(c[1], m)
    BY <1>1 DEF Asked
  <2>4. (Unanswered(m)' <=> Unanswered(m)) /\ Audience(m)' = Audience(m)
    BY <1>1 DEF Unanswered, Audience
  <2> QED
    BY <1>1, <1>6, <2>1, <2>2, <2>3, <2>4 DEF NotMissed
<1> QED
  BY <1>9, <1>10 DEF MissInv

\* What arrives is given to the clients there, or the members are asked for.
LEMMA MissServerRead ==
  ASSUME IInv, IInv', OnceInv, MissInv, NEW l \in Links, ServerRead(l)
  PROVE  MissInv'
<1> DEFINE e == Head(down[l])
           s == l[1]
<1>1. /\ down[l] # <<>> /\ down[l] \in Seq(Pdu) /\ UNCHANGED <<msgs, link, up>>
      /\ TypeOK /\ TypeOK' /\ s \in Servers /\ conns \in ConnTable
  BY LinksAssumption DEF ServerRead, IInv, TypeOK, ConnTable
<1>2. e \in Pdu /\ InQueue(down[l], e)
  BY <1>1, TailQueue
<1>3. /\ \A k \in Links : k # l => down'[k] = down[k]
      /\ down'[l] = Tail(down[l])
  BY <1>1 DEF ServerRead, TypeOK
<1>4. ReadKick(l, s, e) \/ ReadData(l, s, e) \/ ReadGroupData(l, s, e)
  BY DEF ServerRead
<1>5. \A p : InQueue(down[l], p) => InQueue(Tail(down[l]), p) \/ p = e
  BY <1>1, <1>2, QueueKeeps
<1>6. dropped' = dropped
  BY <1>1, DroppedOf
<1>7. \A m \in Msgs : Data(m) # e => KeepsQueues(m)
  BY <1>1, <1>3, <1>5 DEF KeepsQueues
<1>8. CASE ReadKick(l, s, e)
  <2>1. conns' = KickOut(e.user, e.class, s) /\ UNCHANGED <<infos, got>> /\ \A m : Data(m) # e
    BY <1>8 DEF ReadKick, Data
  <2>2. \A c \in Conns : conns'[c] # None =>
           conns[c] # None /\ conns'[c].user = conns[c].user /\ conns'[c].old = conns[c].old
    BY <1>1, <2>1, KickKeepsRest DEF SameSessions
  <2>3. ASSUME NEW c \in Conns, NEW m \in Msgs PROVE NotMissed(c, m)'
    <3>1. got'[c][m] >= got[c][m]
      BY <1>1, <2>1 DEF TypeOK
    <3>2. Keeps(c, m)
      BY <2>2, <3>1 DEF Keeps
    <3> QED
      BY <1>1, <1>6, <1>7, <2>1, <3>2, MissKept DEF MissInv
  <2> QED
    BY <2>3 DEF MissInv
<1>9. CASE ReadData(l, s, e) \/ ReadGroupData(l, s, e)
  <2>1. PICK m \in Msgs : e = Data(m)
    BY <1>2, <1>9 DEF ReadData, ReadGroupData, Pdu, Data
  <2>2. InQueue(down[l], Data(m)) /\ Once(m)
    BY <1>2, <2>1 DEF OnceInv
  <2>3. ~Unanswered(m) /\ Addressed(m) /\ msgs[m] # None /\ msgs[m] \in Msg /\ Data(m).msg = m
    BY <1>1, <2>2 DEF Once, Quiet, Unanswered, TypeOK, Data
  <2> HIDE DEF e
  <2>4. /\ \A c \in Conns, n \in Msgs : n # m \/ c[1] # s => got'[c][n] = got[c][n]
        /\ infos \subseteq infos' /\ conns' = conns
    BY <1>1, <1>9, <2>1, <2>3, ReadOf DEF ReadData, ReadGroupData
  <2>5. ASSUME NEW c \in Conns, NEW n \in Msgs, n # m PROVE NotMissed(c, n)'
    <3>1. got'[c][n] >= got[c][n]
      BY <1>1, <2>4, <2>5 DEF TypeOK
    <3>2. Keeps(c, n) /\ Data(n) # e
      BY <2>1, <2>4, <2>5, <3>1, DataSame DEF Keeps
    <3> QED
      BY <1>1, <1>6, <1>7, <2>4, <3>2, MissKept DEF MissInv
  <2>6. ASSUME NEW c \in Conns, c[1] = s, conns[c] # None, conns[c].user \in Audience(m)
        PROVE  got'[c][m] >= 1 \/ Asked(c[1], m)'
    <3>1. CASE ReadGroupData(l, s, e)
      <4>1. [server |-> s, msg |-> m, handle |-> None] \in infos'
        BY <2>1, <2>3, <3>1 DEF ReadGroupData
      <4> QED
        BY <2>6, <4>1 DEF Asked
    <3>2. CASE ReadData(l, s, e) /\ msgs[m].kind = "notice"
      <4> DEFINE C == SessionsOf(msgs[m].from, s)
      <4>1. got' = Send(got, m, C) /\ got \in [Conns -> [Msgs -> Nat]]
        BY <1>1, <2>1, <2>3, <3>2 DEF ReadData, TypeOK
      <4>2. c \in C
        BY <2>6, <3>2 DEF SessionsOf, Audience
      <4> HIDE DEF C
      <4>3. got'[c][m] = got[c][m] + 1 /\ got[c][m] \in Nat
        BY <4>1, <4>2, SendOf
      <4> QED
        BY <4>3
    <3>3. CASE ReadData(l, s, e) /\ msgs[m].kind # "notice"
      <4> DEFINE A == SessionsOf(msgs[m].from, s) \ {None}
                 B == SessionsOf(msgs[m].to, s)
      <4>1. got' = ToBoth(got, m, s, None) /\ msgs[m].kind # "group"
        BY <2>1, <2>3, <3>3 DEF ReadData
      <4>2. c \in A \cup B
        BY <2>6, <3>3, <4>1, NamesAssumption DEF SessionsOf, Audience
      <4>3. \A d \in A \cup B : got'[d][m] > got[d][m]
        BY <1>1, <4>1, ToBothOf
      <4> HIDE DEF A, B
      <4>4. got'[c][m] > got[c][m] /\ got'[c][m] \in Nat /\ got[c][m] \in Nat
        BY <1>1, <4>2, <4>3 DEF TypeOK
      <4> QED
        BY <4>4
    <3> QED
      BY <1>9, <3>1, <3>2, <3>3
  <2>7. Audience(m)' = Audience(m)
    BY <1>1 DEF Audience
  <2>8. ASSUME NEW c \in Conns PROVE NotMissed(c, m)'
    <3>1. CASE c[1] = s
      BY <2>4, <2>6, <2>7, <3>1 DEF NotMissed
    <3>2. CASE c[1] # s
      <4>1. NotMissed(c, m) /\ got'[c][m] = got[c][m]
        BY <2>4, <3>2 DEF MissInv
      <4>2. Asked(c[1], m) => Asked(c[1], m)'
        BY <2>4 DEF Asked
      <4>3. Travels(c[1], m) => Travels(c[1], m)'
        BY <1>1, <1>3, <3>2 DEF Travels
      <4>4. Unanswered(m)' <=> Unanswered(m)
        BY <1>1 DEF Unanswered
      <4> QED
        BY <1>1, <1>6, <2>4, <2>7, <4>1, <4>2, <4>3, <4>4 DEF NotMissed
    <3> QED
      BY <3>1, <3>2
  <2> QED
    BY <2>5, <2>8 DEF MissInv
<1> QED
  BY <1>4, <1>8, <1>9

LEMMA MissStep ==
  ASSUME IInv, IInv', FirstLinked, OnceInv, MissInv, [Next]_vars
  PROVE  MissInv'
<1>1. TypeOK /\ TypeOK'
  BY DEF IInv
<1>2. ASSUME NEW c \in Conns, NEW u \in Users, NEW k \in Classes, Login(c, u, k) PROVE MissInv'
  BY <1>2, MissSessions
<1>3. ASSUME NEW c \in Conns, Close(c) \/ KickPCClient(c) PROVE MissInv'
  BY <1>3, MissSessions
<1>4. ASSUME NEW c \in Conns, NEW m \in Msgs, NEW to \in Users \cup {Group},
             ClientMsgData(c, m, to) \/ P2PCmdMsg(c, m, to)
      PROVE  MissInv'
  BY <1>1, <1>4, MissUnanswered, MissUnstored
<1>5. ASSUME NEW c \in Conns, NEW m \in Msgs, Notice(c, m) PROVE MissInv'
  BY <1>1, <1>5, MissUnstored
<1>6. ASSUME NEW m \in Msgs, Store(m) \/ MsgDataAnswer(m) \/ GroupMsgAnswer(m) PROVE MissInv'
  BY <1>1, <1>6, MissUnanswered, MissMsgDataAnswer, MissGroupMsgAnswer
<1>7. ASSUME NEW i \in infos, GroupInfoAnswer(i) PROVE MissInv'
  BY <1>1, <1>7, MissGroupInfoAnswer
<1>8. ASSUME NEW s \in Servers, Connect(s) PROVE MissInv'
  BY <1>8, MissLinks
<1>9. ASSUME NEW l \in Links, MsgClose(l) \/ RouteClose(l) PROVE MissInv'
  BY <1>9, MissLinks
<1>10. ASSUME NEW l \in Links, RouteRead(l) \/ ServerRead(l) PROVE MissInv'
  BY <1>10, MissRouteRead, MissServerRead
<1>11. CASE UNCHANGED vars
  <2>1. UNCHANGED <<conns, msgs, infos, link, up, down, got>> /\ dropped' = dropped
    BY <1>11, DroppedOf DEF vars, linkVars
  <2>2. ASSUME NEW c \in Conns, NEW m \in Msgs PROVE NotMissed(c, m)'
    <3>1. got'[c][m] >= got[c][m]
      BY <1>1, <2>1 DEF TypeOK
    <3>2. Keeps(c, m) /\ KeepsQueues(m)
      BY <2>1, <3>1 DEF Keeps, KeepsQueues
    <3> QED
      BY <1>1, <2>1, <3>2, MissKept DEF MissInv
  <2> QED
    BY <2>2 DEF MissInv
<1> QED
  BY <1>2, <1>3, <1>4, <1>5, <1>6, <1>7, <1>8, <1>9, <1>10, <1>11 DEF Next

-----------------------------------------------------------------------------
(* The theorems *)

\* Types, and a msg_server has one open link at most (serv_check_reconnect makes the next one only
\* without one), for any number of msg_servers, links, connections, users and messages.
THEOREM ChatTypeOK == Spec => []TypeOK
<1>1. IInv => TypeOK
  BY DEF IInv
<1> QED
  BY <1>1, Invariance, PTL

\* Only a superseded client is told to go (_HandleValidateResponse, KickOutSameClientType, the
\* route_server's broadcast and _HandleKickUser together), except on a msg_server that lost a
\* link: for any number of msg_servers, connections and logins, in any order.
THEOREM ChatLatestStays == Spec => []LatestStays
<1>1. IInv => LatestStays
  BY DEF IInv
<1> QED
  BY <1>1, Invariance, PTL

\* Of the clients of a user and class, on whatever msg_servers, one at most was not told to go once
\* no kick is under way, unless a link was lost or a kick hit a client that was kicked before: for
\* any number of msg_servers, logins and kicks by mobile clients, in any order.
THEOREM ChatOneActive == Spec => []OneActive
<1>1. IInv /\ ActiveInv /\ [Next]_vars => ActiveInv'
  BY ActiveStep
<1>2. ActiveInv => OneActive
  <2> SUFFICES ASSUME ActiveInv, NEW c \in Conns, NEW d \in Conns, Twins(c, d),
                      ~UnderWay(KickPdu(conns[c].user, conns[c].class))
               PROVE  \/ conns[c].kicked \/ conns[d].kicked
                      \/ {c[1], d[1]} \cap dropped # {}
                      \/ conns[c].user \in rekicked
    BY DEF OneActive, Twins
  <2>1. ~Coming(c, d)
    BY DEF Coming, UnderWay
  <2>2. Spared(c, d) => c[1] \in dropped \/ d[1] \in dropped
    BY <2>1 DEF ActiveInv, KickPending
  <2> QED
    BY <2>2 DEF Spared
<1> QED
  BY <1>1, <1>2, ActiveInit, Invariance, PTL DEF Spec

\* A message is given to a connection at most once, and not to the one that sent it, by the answer
\* (_HandleMsgData), the route_server's broadcast and the group's members together, and once more
\* if it is a direct command to oneself (_HandleClientP2PCmdMsg), for any number of messages,
\* msg_servers, links and connections; except at the msg_server that it is from, after that lost
\* its link.
THEOREM ChatAtMostOnce == Spec => []AtMostOnce
<1>1. IInv /\ OnceInv /\ [Next]_vars => OnceInv'
  BY OnceStep
<1>2. OnceInv => AtMostOnce
  BY DEF OnceInv, Once, SentOnce, AtMostOnce, Copies, ToOneself
<1> QED
  BY <1>1, <1>2, OnceInit, Invariance, PTL DEF Spec

\* When nothing of a message is under way any more, no client that is to see it was left out, but
\* at a msg_server that lost a link, or as the next session of the sender's user on its handle
\* (GetMsgConnByHandle): for any number of messages, msg_servers, members of the group and logins
\* at any moment.
THEOREM ChatNothingMissed == Spec => []NothingMissed
<1>1. IInv /\ ActiveInv /\ [Next]_vars => ActiveInv'
  BY ActiveStep
<1>2. IInv /\ OnceInv /\ [Next]_vars => OnceInv'
  BY OnceStep
<1>3. IInv /\ IInv' /\ ActiveInv /\ OnceInv /\ MissInv /\ [Next]_vars => MissInv'
  BY MissStep DEF ActiveInv
<1>4. MissInv => NothingMissed
  <2> SUFFICES ASSUME MissInv, NEW c \in Conns, NEW m \in Msgs, conns[c] # None, Settled(m)
               PROVE  \/ conns[c].user \notin Audience(m)
                      \/ got[c][m] >= 1 \/ m \in conns[c].old
                      \/ SentBy(c, m) \/ Succeeds(c, m)
                      \/ {c[1], msgs[m].via[1]} \cap dropped # {}
    BY DEF NothingMissed
  <2>1. ~Unanswered(m) /\ ~Asked(c[1], m) /\ ~Travels(c[1], m)
    BY DEF Settled, Unanswered, Asked, Travels, UnderWay, Data
  <2>2. NotMissed(c, m)
    BY DEF MissInv
  <2> QED
    BY <2>1, <2>2 DEF NotMissed, SentBy, Succeeds
<1> QED
  BY <1>1, <1>2, <1>3, <1>4, ActiveInit, OnceInit, MissInit, Invariance, PTL DEF Spec
=============================================================================
