----------------------------- MODULE SyncCenter -----------------------------
(***************************************************************************)
(* The synchronisation thread of the db_proxy_server.  A group message     *)
(* only notes in IMGroup when the group last chatted; the thread looks     *)
(* every 5 s for groups that chatted since its last round and brings the   *)
(* sessions of their members up to date: it makes those that are not there *)
(* and sets the time of those that are, but one that its user has removed  *)
(* stays hidden.  Worker threads write lastChated at any moment.  On       *)
(* SIGTERM the reactor thread stops the thread and waits for it; after a   *)
(* restart, init() sets the time of the last round anew.                   *)
(*                                                                         *)
(* The thread borrows connections from the pools of the worker threads and *)
(* waits for them without a time-out.  The workers may come to hold all of *)
(* a pool for ever (Hung in DbProxy, and what waits behind it).            *)
(*                                                                         *)
(* Times are in seconds.  The members of a group are alike: updated is the *)
(* time in their sessions, but for the sender's, which its message sets.   *)
(***************************************************************************)
EXTENDS Integers, FiniteSets

CONSTANTS
    Workers,
    Groups,
    None,          \* nothing saved in redis; a worker without a message
    MaxClock,      \* bound: the time at the end
    MaxRestarts,   \* bound: restarts
    MaxFaults,     \* bound: statements that fail
    MaxExhausted   \* bound: pools that are exhausted in the life of a process

Pools == {"slave", "unread", "group_member", "master"}

ASSUME BoundAssumption == MaxClock \in Nat \ {0} /\ MaxRestarts \in Nat /\ MaxFaults \in Nat
                           /\ MaxExhausted \in Nat
ASSUME NoneAssumption == None \notin Nat

VARIABLES
    clock,
    lastChated,    \* IMGroup, per group; 0 before its first message
    chat,          \* per worker: the message on its way to lastChated, with the time it read
    updated,       \* IMRecentSession, per group; 0 is no row yet
    last,          \* m_nLastUpdateGroup
    saved,         \* redis last_update_group
    changed,       \* mapChangedGroup; 0 for a group not in it
    pc,            \* the step of the thread that is next; "wait" is inside waitTime
    waitting,      \* m_bSyncGroupChatWaitting
    running,       \* m_bSyncGroupChatRuning
    stop,          \* how far stopSync is
    exhausted,     \* pools all of whose connections are held by workers that wait for ever
    restarts, faults,
    missed         \* history: groups that a round may pass over, and why: see each place

chats == <<lastChated, chat>>
times == <<last, saved>>
thread == <<pc, changed>>
flags == <<waitting, running, stop>>
vars == <<clock, chats, updated, times, thread, flags, exhausted, restarts, faults, missed>>

\* A message on its way; late: a round has set the time of the last update since its clock was read
Chat == [group : Groups, time : Nat \ {0}, late : BOOLEAN]

Init ==
    /\ clock = 1
    /\ lastChated = [g \in Groups |-> 0]
    /\ chat = [w \in Workers |-> None]
    /\ updated = [g \in Groups |-> 0]
    /\ last = 0 /\ saved = None
    /\ changed = [g \in Groups |-> 0]
    /\ pc = "start"
    /\ waitting = TRUE /\ running = FALSE /\ stop = "no"
    /\ exhausted = {}
    /\ restarts = 0 /\ faults = 0
    /\ missed = {}

Fault == faults < MaxFaults /\ faults' = faults + 1

\* Groups whose members do not know of the last message yet
Behind == {g \in Groups : updated[g] < lastChated[g]}

\* What the thread waits for a connection of: the query; the time of the last update; the members
\* of a group, a member's session and its update
Asks == CASE pc = "query" -> {"slave"}
          [] pc = "update" -> {"unread"}
          [] pc = "members" -> IF \A g \in Groups : changed[g] = 0 THEN {}
                               ELSE {"group_member", "slave", "master"}
          [] OTHER -> {}

Served(pools) == pools \intersect exhausted = {}

-----------------------------------------------------------------------------
(* Time, and the messages of groups *)

Tick ==
    /\ clock < MaxClock
    /\ clock' = clock + 1
    /\ UNCHANGED <<chats, updated, times, thread, flags, exhausted, restarts, faults, missed>>

\* updateGroupChat has its connection and reads the clock
ReadTime(w, g) ==
    /\ chat[w] = None /\ Served({"master"})
    /\ chat' = [chat EXCEPT ![w] = [group |-> g, time |-> clock, late |-> FALSE]]
    /\ UNCHANGED <<clock, lastChated, updated, times, thread, flags, exhausted, restarts, faults, missed>>

\* and writes the time.  The round under way has done its query and is about to set the time of
\* the last update, or has set it since the clock was read: it may pass over this message.
UpdateGroupChat(w) ==
    /\ chat[w] # None
    /\ LET g == chat[w].group
       IN /\ lastChated' = [lastChated EXCEPT ![g] = chat[w].time]
          /\ missed' = IF chat[w].late \/ pc = "update" THEN missed \cup {g} ELSE missed \ {g}
    /\ chat' = [chat EXCEPT ![w] = None]
    /\ UNCHANGED <<clock, updated, times, thread, flags, exhausted, restarts, faults>>

\* The last connection of a pool goes to a worker that waits for ever.  While a message is between
\* the two statements above, it is not the master's: its worker holds one.
Exhaust(p) ==
    /\ p \notin exhausted /\ Cardinality(exhausted) < MaxExhausted
    /\ p = "master" => \A w \in Workers : chat[w] = None
    /\ exhausted' = exhausted \cup {p}
    /\ UNCHANGED <<clock, chats, updated, times, thread, flags, restarts, faults, missed>>

-----------------------------------------------------------------------------
(* doSyncGroupChat *)

Start ==
    /\ pc = "start"
    /\ running' = TRUE /\ pc' = "query"
    /\ UNCHANGED <<clock, chats, updated, times, changed, waitting, stop, exhausted, restarts, faults, missed>>

\* A slip in the query: a message in the second of the last update is left out.
ChatedAfter(g) == lastChated[g] > last

ChatedSince(g) == lastChated[g] >= last

Query ==
    /\ pc = "query" /\ Served(Asks)
    /\ changed' = [g \in Groups |-> IF ChatedSince(g) THEN lastChated[g] ELSE 0]
    /\ pc' = "update"
    /\ UNCHANGED <<clock, chats, updated, times, flags, exhausted, restarts, faults, missed>>

\* Without a result, the round goes on as if no group had chatted
QueryFails ==
    /\ pc = "query" /\ Served(Asks) /\ Fault
    /\ changed' = [g \in Groups |-> 0]
    /\ missed' = missed \cup Behind
    /\ pc' = "update"
    /\ UNCHANGED <<clock, chats, updated, times, flags, exhausted, restarts>>

\* updateLastUpdateGroup(time(NULL))
UpdateLast ==
    /\ pc = "update" /\ Served(Asks)
    /\ last' = clock /\ saved' = clock
    /\ chat' = [w \in Workers |-> IF chat[w] = None THEN None ELSE [chat[w] EXCEPT !.late = TRUE]]
    /\ pc' = "members"
    /\ UNCHANGED <<clock, lastChated, updated, changed, flags, exhausted, restarts, faults, missed>>

\* and without a cache connection: the next round sees the same groups again
UpdateLastFails ==
    /\ pc = "update" /\ Served(Asks) /\ Fault
    /\ pc' = "members"
    /\ UNCHANGED <<clock, chats, updated, times, changed, flags, exhausted, restarts, missed>>

\* A slip in the loop over the members: those without a session are left out.
MembersKnown(g) ==
    /\ pc = "members" /\ changed[g] # 0 /\ Served(Asks)
    /\ updated' = [updated EXCEPT ![g] = IF @ = 0 THEN 0 ELSE changed[g]]
    /\ changed' = [changed EXCEPT ![g] = 0]
    /\ UNCHANGED <<clock, chats, times, pc, flags, exhausted, restarts, faults, missed>>

\* The members' sessions: one that there is gets the time of the message, a new one that of now
Members(g) ==
    /\ pc = "members" /\ changed[g] # 0 /\ Served(Asks)
    /\ updated' = [updated EXCEPT ![g] = IF @ = 0 THEN clock ELSE changed[g]]
    /\ changed' = [changed EXCEPT ![g] = 0]
    /\ UNCHANGED <<clock, chats, times, pc, flags, exhausted, restarts, faults, missed>>

\* getGroupUser, getSessionId, updateSession or addSession fails: nobody looks at the result.  The
\* first asks for nothing but the members.
MembersFail(g) ==
    /\ pc = "members" /\ changed[g] # 0 /\ Served({"group_member"}) /\ Fault
    /\ changed' = [changed EXCEPT ![g] = 0]
    /\ missed' = missed \cup {g}
    /\ UNCHANGED <<clock, chats, updated, times, pc, flags, exhausted, restarts>>

MembersDone ==
    /\ pc = "members" /\ \A g \in Groups : changed[g] = 0
    /\ pc' = "test"
    /\ UNCHANGED <<clock, chats, updated, times, changed, flags, exhausted, restarts, faults, missed>>

Test ==
    /\ pc = "test"
    /\ pc' = IF waitting THEN "tested" ELSE "end"
    /\ UNCHANGED <<clock, chats, updated, times, changed, flags, exhausted, restarts, faults, missed>>

\* The call of waitTime
Wait ==
    /\ pc = "tested"
    /\ pc' = "wait"
    /\ UNCHANGED <<clock, chats, updated, times, changed, flags, exhausted, restarts, faults, missed>>

\* A slip in the wait: it has no time-out.
NeverTimedOut == FALSE

\* waitTime returns FALSE: the next round
TimedOut ==
    /\ pc = "wait"
    /\ pc' = "query"
    /\ UNCHANGED <<clock, chats, updated, times, changed, flags, exhausted, restarts, faults, missed>>

\* pthread_cond_timedwait may return without a signal, which waitTime takes for one
Spurious ==
    /\ pc = "wait" /\ Fault
    /\ pc' = "end"
    /\ UNCHANGED <<clock, chats, updated, times, changed, flags, exhausted, restarts, missed>>

End ==
    /\ pc = "end"
    /\ running' = FALSE /\ pc' = "done"
    /\ UNCHANGED <<clock, chats, updated, times, changed, waitting, stop, exhausted, restarts, faults, missed>>

-----------------------------------------------------------------------------
(* stopSync, in the handler of SIGTERM *)

StopFlag ==
    /\ stop = "no"
    /\ waitting' = FALSE /\ stop' = "flag"
    /\ UNCHANGED <<clock, chats, updated, times, thread, running, exhausted, restarts, faults, missed>>

\* A signal without a waiting thread is lost
Notify ==
    /\ stop = "flag"
    /\ stop' = "notified"
    /\ pc' = IF pc = "wait" THEN "end" ELSE pc
    /\ UNCHANGED <<clock, chats, updated, times, changed, waitting, running, exhausted, restarts, faults,
                   missed>>

StopSync ==
    /\ stop = "notified" /\ ~running
    /\ stop' = "returned"
    /\ UNCHANGED <<clock, chats, updated, times, thread, waitting, running, exhausted, restarts, faults,
                   missed>>

-----------------------------------------------------------------------------
(* The process ends, by exit_callback or otherwise, and starts again *)

\* init: a value that redis has is overwritten with the time of now, and one that it has not is 0
InitLast == IF saved = None THEN 0 ELSE clock

Restart(cached) ==
    /\ restarts < MaxRestarts
    /\ restarts' = restarts + 1
    /\ last' = IF cached THEN InitLast ELSE clock        \* the constructor's
    /\ saved' = IF cached /\ saved # None THEN clock ELSE saved
    /\ chat' = [w \in Workers |-> None]
    /\ changed' = [g \in Groups |-> 0]
    /\ pc' = "start" /\ waitting' = TRUE /\ running' = FALSE /\ stop' = "no"
    /\ exhausted' = {}
    /\ missed' = missed \cup {g \in Behind : lastChated[g] < clock}
    /\ UNCHANGED <<clock, lastChated, updated, faults>>

-----------------------------------------------------------------------------
ThreadStep ==
    \/ Start \/ Query \/ QueryFails \/ UpdateLast \/ UpdateLastFails
    \/ \E g \in Groups : Members(g) \/ MembersFail(g)
    \/ MembersDone \/ Test \/ Wait \/ TimedOut \/ Spurious \/ End

StopStep == StopFlag \/ Notify \/ StopSync

Next ==
    \/ Tick
    \/ \E w \in Workers : UpdateGroupChat(w) \/ \E g \in Groups : ReadTime(w, g)
    \/ \E p \in Pools : Exhaust(p)
    \/ ThreadStep \/ StopStep
    \/ \E cached \in BOOLEAN : Restart(cached)

Spec == Init /\ [][Next]_vars

\* The threads run, where no pool keeps them waiting, and a wait ends after its 5 s; whether a
\* signal comes, or a worker ever writes or gives a connection back, is not assumed.
FairSpec == Spec /\ WF_vars(ThreadStep) /\ WF_vars(Notify) /\ WF_vars(StopSync)

-----------------------------------------------------------------------------
(* Properties *)

Pcs == {"start", "query", "update", "members", "test", "tested", "wait", "end", "done"}

\* Types; no time is ahead of the clock.
TypeOK ==
    /\ clock \in Nat \ {0}
    /\ lastChated \in [Groups -> 0..clock]
    /\ chat \in [Workers -> Chat \cup {None}]
    /\ \A w \in Workers : chat[w] # None => chat[w].time <= clock
    /\ updated \in [Groups -> 0..clock]
    /\ last \in 0..clock /\ saved \in 0..clock \cup {None}
    /\ changed \in [Groups -> 0..clock]
    /\ pc \in Pcs
    /\ waitting \in BOOLEAN /\ running \in BOOLEAN
    /\ stop \in {"no", "flag", "notified", "returned"}
    /\ exhausted \subseteq Pools
    /\ missed \subseteq Groups

\* A message of a group is not forgotten: the members' sessions are up to date, or the round under
\* way is about to bring them, or the next query, if one comes, finds the group; unless the message was
\* written between the query of a round and its update of the time, or across that update
\* (doSyncGroupChat reads the clock after the query), a statement of a round failed, or the
\* process started again before its round (init overwrites the time that it has saved).
NotForgotten ==
    \A g \in Groups :
        \/ g \notin Behind
        \/ changed[g] = lastChated[g]
        \/ lastChated[g] >= last
        \/ g \in missed

\* The thread waits for a connection that never comes.
Stuck == ~Served(Asks)

\* stopSync returns: the reactor, which runs it in a signal handler, does not hang in it, though
\* the signal may come between the thread's test and its wait, when it is lost; unless the thread
\* is in the middle of a round that waits for an exhausted pool: then stopSync never returns.
StopReturns == stop = "notified" ~> stop # "notified" \/ Stuck

\* A message of time t reaches the members' sessions in the end, however many follow it; unless a
\* round may pass over it or another takes the time of the group back (each writes the time that
\* it read), the thread waits for an exhausted pool, is stopped or has taken a wake-up for the
\* signal.
ChatSpreads ==
    \A g \in Groups, t \in 1..MaxClock :
        lastChated[g] = t /\ updated[g] < t
          ~> \/ updated[g] >= t
             \/ lastChated[g] < t \/ g \in missed
             \/ Stuck \/ ~waitting \/ pc = "done"

\* init loads the time of the last synchronisation from the cache, as its comment says: a process
\* that starts again goes on from the time that was saved.
InitLoads == [][saved # None /\ Restart(TRUE) => last' = saved]_vars
=============================================================================
