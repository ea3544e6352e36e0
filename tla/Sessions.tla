------------------------------ MODULE Sessions ------------------------------
(***************************************************************************)
(* What one msg_server promises the rest of the system about its clients:  *)
(* a set of logged-in sessions, each announced ONLINE (USER_CNT_INC to the *)
(* login_servers, USER_STATUS_ONLINE to the route_servers) exactly once    *)
(* when it opens and OFFLINE exactly once when it closes.  MsgServer       *)
(* implements this specification; RouteServer and LoginServer are written  *)
(* against it: their Login and Logout steps are the two steps below.       *)
(***************************************************************************)
EXTENDS Integers, FiniteSets

CONSTANTS
    Handles,      \* socket handles of client connections
    UserIds,      \* user ids of the IMUser table
    ClientTypes   \* IM.BaseDefine.ClientType

VARIABLES
    session,      \* the logged-in client connections
    announced,    \* ONLINE minus OFFLINE announcements made, per user and client type
    ended         \* whether the msg_server has come to the end of what it promises

vars == <<session, announced, ended>>

Session == [handle : Handles, uid : UserIds, type : ClientTypes]

\* announced after d more ONLINE (d = 1) or OFFLINE (d = -1) announcements of user u on a client of type c
Announce(u, c, d) == [announced EXCEPT ![u][c] = @ + d]

Init ==
    /\ session = {}
    /\ announced = [u \in UserIds |-> [c \in ClientTypes |-> 0]]
    /\ ended = FALSE

Login(h, u, c) ==
    /\ ~ended
    /\ \A s \in session : s.handle # h
    /\ session' = session \union {[handle |-> h, uid |-> u, type |-> c]}
    /\ announced' = Announce(u, c, 1)
    /\ UNCHANGED ended

Logout(s) ==
    /\ ~ended
    /\ s \in session
    /\ session' = session \ {s}
    /\ announced' = Announce(s.uid, s.type, -1)
    /\ UNCHANGED ended

\* The msg_server closes a connection a second time, and may announce the end of its session
\* again; or it is given a user id that nobody has set.
End ==
    /\ ~ended
    /\ ended' = TRUE
    /\ UNCHANGED session
    /\ \/ UNCHANGED announced
       \/ \E u \in UserIds, c \in ClientTypes : announced' = Announce(u, c, -1)

Next ==
    \/ \E h \in Handles, u \in UserIds, c \in ClientTypes : Login(h, u, c)
    \/ \E s \in session : Logout(s)
    \/ End

Spec == Init /\ [][Next]_vars

-----------------------------------------------------------------------------
TypeOK ==
    /\ session \subseteq Session
    /\ announced \in [UserIds -> [ClientTypes -> Int]]
    /\ ended \in BOOLEAN

SessionsOf(u, c) == {s \in session : s.uid = u /\ s.type = c}

\* The announcements made for a user and client type add up to the sessions open.
AnnouncedOnce == ~ended =>
    \A u \in UserIds, c \in ClientTypes :
        announced[u][c] = Cardinality(SessionsOf(u, c))
=============================================================================
