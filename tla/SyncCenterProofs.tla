-------------------------- MODULE SyncCenterProofs --------------------------
(***************************************************************************)
(* Proofs about SyncCenter for any groups, workers and bounds: a message   *)
(* that no round may pass over is never forgotten.  The time of the last   *)
(* update is set after the query, so the argument is about what the        *)
(* query has seen: until the time is set, each group that the next query   *)
(* would not find is in hand (Seen), and what is in hand stays newer than  *)
(* the sessions, or will be found again (InHand).                          *)
(***************************************************************************)
EXTENDS SyncCenter, TLAPS

\* A message that no update of the time has overtaken is found by the next query.
Fresh == \A w \in Workers : chat[w] # None /\ ~chat[w].late => chat[w].time >= last

\* Only a round has groups in hand.
NoneInHand == pc \notin {"update", "members"} => \A g \in Groups : changed[g] = 0

Seen == pc = "update" =>
    \A g \in Groups :
        \/ g \in missed
        \/ /\ changed[g] # 0 => changed[g] = lastChated[g]
           /\ g \in Behind /\ lastChated[g] >= last => changed[g] = lastChated[g]

InHand == pc = "members" =>
    \A g \in Groups :
        changed[g] # 0 => changed[g] = lastChated[g] \/ lastChated[g] >= last \/ g \in missed

IInv == TypeOK /\ Fresh /\ NoneInHand /\ Seen /\ InHand /\ NotForgotten

\* What the steps of the loop that touch no time and no group keep: the step of the thread is
\* one without groups in hand before and after, or the same.
LEMMA QuietStep ==
  ASSUME IInv, UNCHANGED <<clock, chats, updated, times, changed, missed>>,
         pc' \in Pcs, waitting' \in BOOLEAN, running' \in BOOLEAN,
         stop' \in {"no", "flag", "notified", "returned"}, exhausted' \subseteq Pools,
         pc' = pc \/ (pc' \notin {"update", "members"} /\ pc \notin {"update", "members"})
  PROVE  IInv'
<1> USE DEF IInv, chats, times
<1>1. TypeOK'
  BY DEF TypeOK, Chat
<1>2. Fresh' /\ NoneInHand'
  BY DEF Fresh, NoneInHand
<1>3. Seen' /\ InHand'
  BY DEF Seen, InHand, Behind
<1>4. NotForgotten'
  BY DEF NotForgotten, Behind
<1> QED
  BY <1>1, <1>2, <1>3, <1>4

LEMMA TickStep == IInv /\ Tick => IInv'
<1> SUFFICES ASSUME IInv, Tick PROVE IInv'
  OBVIOUS
<1> USE DEF IInv, Tick, chats, times, thread, flags
<1>1. TypeOK'
  <2>1. clock \in Nat /\ clock' = clock + 1 /\ 0..clock \subseteq 0..clock'
    BY DEF TypeOK
  <2>2. \A w \in Workers : chat[w] # None => chat[w].time \in Nat /\ chat[w].time <= clock
    BY DEF TypeOK, Chat
  <2> QED
    BY <2>1, <2>2 DEF TypeOK
<1>2. Fresh' /\ NoneInHand' /\ Seen' /\ InHand' /\ NotForgotten'
  BY DEF Fresh, NoneInHand, Seen, InHand, NotForgotten, Behind
<1> QED
  BY <1>1, <1>2

LEMMA ReadTimeStep ==
  ASSUME NEW w \in Workers, NEW g \in Groups, IInv, ReadTime(w, g)
  PROVE  IInv'
<1> USE DEF IInv, ReadTime, times, thread, flags
<1>1. TypeOK'
  BY NoneAssumption DEF TypeOK, Chat
<1>2. Fresh'
  <2> SUFFICES ASSUME NEW v \in Workers, chat'[v] # None, ~chat'[v].late
               PROVE  chat'[v].time >= last
    BY DEF Fresh
  <2>1. CASE v = w
    BY <2>1 DEF TypeOK
  <2>2. CASE v # w
    BY <2>2 DEF TypeOK, Fresh
  <2> QED
    BY <2>1, <2>2
<1>3. NoneInHand' /\ Seen' /\ InHand' /\ NotForgotten'
  BY DEF NoneInHand, Seen, InHand, NotForgotten, Behind
<1> QED
  BY <1>1, <1>2, <1>3

LEMMA UpdateGroupChatStep ==
  ASSUME NEW w \in Workers, IInv, UpdateGroupChat(w)
  PROVE  IInv'
<1> USE DEF IInv, UpdateGroupChat, times, thread, flags
<1> DEFINE c == chat[w].group
<1>1. chat[w] \in Chat /\ c \in Groups /\ chat[w].time \in 0..clock
  BY DEF TypeOK, Chat
<1>2. /\ lastChated' = [lastChated EXCEPT ![c] = chat[w].time]
      /\ missed' = IF chat[w].late \/ pc = "update" THEN missed \cup {c} ELSE missed \ {c}
      /\ chat' = [chat EXCEPT ![w] = None]
  OBVIOUS
<1>3. TypeOK'
  BY <1>1, <1>2 DEF TypeOK
<1>4. Fresh' /\ NoneInHand'
  BY <1>2 DEF TypeOK, Fresh, NoneInHand
\* The message is found by the next query, or a round may pass over it
<1>5. lastChated'[c] >= last \/ c \in missed'
  <2>1. ~chat[w].late => chat[w].time >= last
    BY DEF Fresh
  <2>2. lastChated'[c] = chat[w].time
    BY <1>1, <1>2 DEF TypeOK
  <2> QED
    BY <1>2, <2>1, <2>2
<1>6. \A g \in Groups \ {c} : /\ lastChated'[g] = lastChated[g]
                              /\ g \in missed' <=> g \in missed
                              /\ g \in Behind' <=> g \in Behind
  BY <1>1, <1>2 DEF TypeOK, Behind
<1>7. Seen'
  <2> SUFFICES ASSUME pc = "update", NEW g \in Groups, g \notin missed'
               PROVE  /\ changed[g] # 0 => changed[g] = lastChated'[g]
                      /\ g \in Behind' /\ lastChated'[g] >= last => changed[g] = lastChated'[g]
    BY DEF Seen
  <2>1. g # c
    BY <1>2
  <2> QED
    BY <1>6, <2>1 DEF Seen
<1>8. InHand'
  BY <1>5, <1>6 DEF InHand
<1>9. NotForgotten'
  BY <1>5, <1>6 DEF NotForgotten
<1> QED
  BY <1>3, <1>4, <1>7, <1>8, <1>9

LEMMA QueryStep == IInv /\ (Query \/ QueryFails) => IInv'
<1>1. ASSUME IInv, Query PROVE IInv'
  <2> USE <1>1 DEF IInv, Query, ChatedSince, chats, times, flags
  <2>1. TypeOK'
    BY DEF TypeOK, Pcs
  <2>2. Fresh' /\ NoneInHand' /\ InHand'
    BY DEF Fresh, NoneInHand, InHand
  <2>3. Seen'
    BY DEF Seen, Behind, TypeOK
  <2>4. NotForgotten'
    <3> SUFFICES ASSUME NEW g \in Groups, g \in Behind', g \notin missed', ~(lastChated'[g] >= last')
                 PROVE  FALSE
      BY DEF NotForgotten
    <3>1. changed[g] = 0 /\ changed[g] = lastChated[g]
      BY DEF NoneInHand, NotForgotten, Behind
    <3> QED
      BY <3>1 DEF Behind, TypeOK
  <2> QED
    BY <2>1, <2>2, <2>3, <2>4
<1>2. ASSUME IInv, QueryFails PROVE IInv'
  <2> USE <1>2 DEF IInv, QueryFails, chats, times, flags
  <2>1. TypeOK'
    BY DEF TypeOK, Pcs, Behind
  <2>2. Fresh' /\ NoneInHand' /\ InHand'
    BY DEF Fresh, NoneInHand, InHand
  <2>3. Seen'
    BY DEF Seen, Behind
  <2>4. NotForgotten'
    BY DEF NotForgotten, Behind
  <2> QED
    BY <2>1, <2>2, <2>3, <2>4
<1> QED
  BY <1>1, <1>2

LEMMA UpdateLastStep == IInv /\ (UpdateLast \/ UpdateLastFails) => IInv'
<1>1. ASSUME IInv, UpdateLast PROVE IInv'
  <2> USE <1>1 DEF IInv, UpdateLast, flags
  <2>1. TypeOK'
    <3>1. \A w \in Workers : chat'[w] = None \/ (chat[w] # None /\ chat'[w] = [chat[w] EXCEPT !.late = TRUE])
      BY DEF TypeOK
    <3>2. \A w \in Workers : chat[w] # None => chat[w] \in Chat
      BY DEF TypeOK
    <3>3. \A w \in Workers : chat[w] # None => [chat[w] EXCEPT !.late = TRUE] \in Chat
      BY <3>2 DEF Chat
    <3>4. chat' \in [Workers -> Chat \cup {None}]
      BY <3>3
    <3>5. \A w \in Workers : chat'[w] # None => chat'[w].time = chat[w].time /\ chat[w] # None
      BY <3>1, <3>2 DEF Chat
    <3> QED
      BY <3>4, <3>5 DEF TypeOK, Pcs
  <2>2. Fresh'
    <3> SUFFICES ASSUME NEW w \in Workers, chat'[w] # None PROVE chat'[w].late
      BY DEF Fresh
    <3>1. chat[w] \in Chat /\ chat'[w] = [chat[w] EXCEPT !.late = TRUE]
      BY DEF TypeOK
    <3> QED
      BY <3>1 DEF Chat
  <2>3. NoneInHand' /\ Seen'
    BY DEF NoneInHand, Seen
  <2>4. InHand'
    BY DEF InHand, Seen
  <2>5. NotForgotten'
    BY DEF NotForgotten, Seen, Behind
  <2> QED
    BY <2>1, <2>2, <2>3, <2>4, <2>5
<1>2. ASSUME IInv, UpdateLastFails PROVE IInv'
  <2> USE <1>2 DEF IInv, UpdateLastFails, chats, times, flags
  <2>1. TypeOK'
    BY DEF TypeOK, Pcs
  <2>2. Fresh' /\ NoneInHand' /\ Seen' /\ InHand'
    BY DEF Fresh, NoneInHand, Seen, InHand
  <2>3. NotForgotten'
    BY DEF NotForgotten, Behind
  <2> QED
    BY <2>1, <2>2, <2>3
<1> QED
  BY <1>1, <1>2

LEMMA MembersStep ==
  ASSUME NEW g \in Groups, IInv, Members(g) \/ MembersFail(g)
  PROVE  IInv'
<1>1. CASE Members(g)
  <2> USE <1>1 DEF IInv, Members, chats, times, flags
  <2>1. TypeOK'
    BY DEF TypeOK
  <2>2. Fresh' /\ NoneInHand' /\ Seen'
    BY DEF Fresh, NoneInHand, Seen
  <2>3. InHand'
    BY DEF InHand, TypeOK
  \* The sessions get the time of the message, or one that is not before it
  <2>4. changed[g] = lastChated[g] => g \notin Behind'
    BY DEF TypeOK, Behind
  <2>5. NotForgotten'
    <3> SUFFICES ASSUME NEW h \in Groups, h \in Behind', h \notin missed, ~(lastChated[h] >= last)
                 PROVE  changed'[h] = lastChated[h]
      BY DEF NotForgotten
    <3>1. CASE h = g
      BY <3>1, <2>4 DEF InHand
    <3>2. CASE h # g
      <4>1. h \in Behind /\ changed'[h] = changed[h]
        BY <3>2 DEF Behind, TypeOK
      <4> QED
        BY <4>1 DEF NotForgotten
    <3> QED
      BY <3>1, <3>2
  <2> QED
    BY <2>1, <2>2, <2>3, <2>5
<1>2. CASE MembersFail(g)
  <2> USE <1>2 DEF IInv, MembersFail, chats, times, flags
  <2>1. TypeOK'
    BY DEF TypeOK
  <2>2. Fresh' /\ NoneInHand' /\ Seen'
    BY DEF Fresh, NoneInHand, Seen
  <2>3. InHand'
    BY DEF InHand, TypeOK
  <2>4. NotForgotten'
    BY DEF NotForgotten, Behind, TypeOK
  <2> QED
    BY <2>1, <2>2, <2>3, <2>4
<1> QED
  BY <1>1, <1>2

LEMMA MembersDoneStep == IInv /\ MembersDone => IInv'
<1> SUFFICES ASSUME IInv, MembersDone PROVE IInv'
  OBVIOUS
<1> USE DEF IInv, MembersDone, chats, times, flags
<1>1. TypeOK'
  BY DEF TypeOK, Pcs
<1>2. Fresh' /\ NoneInHand' /\ Seen' /\ InHand'
  BY DEF Fresh, NoneInHand, Seen, InHand
<1>3. NotForgotten'
  BY DEF NotForgotten, Behind
<1> QED
  BY <1>1, <1>2, <1>3

LEMMA LoopStep == IInv /\ (Start \/ Test \/ Wait \/ TimedOut \/ Spurious \/ End) => IInv'
<1> SUFFICES ASSUME IInv, Start \/ Test \/ Wait \/ TimedOut \/ Spurious \/ End PROVE IInv'
  OBVIOUS
<1>1. pc \notin {"update", "members"} /\ pc' \in Pcs \ {"update", "members"}
  BY DEF Start, Test, Wait, TimedOut, Spurious, End, Pcs
<1>2. UNCHANGED <<clock, chats, updated, times, changed, missed, waitting, stop, exhausted>>
  BY DEF Start, Test, Wait, TimedOut, Spurious, End, flags
<1>3. running' \in BOOLEAN
  BY DEF Start, Test, Wait, TimedOut, Spurious, End, flags, IInv, TypeOK
<1> QED
  BY <1>1, <1>2, <1>3, QuietStep DEF IInv, TypeOK

LEMMA StopPreserves == IInv /\ StopStep => IInv'
<1> SUFFICES ASSUME IInv, StopStep PROVE IInv'
  OBVIOUS
<1>1. UNCHANGED <<clock, chats, updated, times, changed, missed, running, exhausted>>
  BY DEF StopStep, StopFlag, Notify, StopSync, thread
<1>2. pc' = pc \/ (pc = "wait" /\ pc' = "end")
  BY DEF StopStep, StopFlag, Notify, StopSync, thread
<1>3. pc \in Pcs /\ waitting \in BOOLEAN
  BY DEF IInv, TypeOK
<1>4. pc' \in Pcs
  BY <1>2, <1>3 DEF Pcs
<1>5. waitting' \in BOOLEAN /\ stop' \in {"no", "flag", "notified", "returned"}
  BY <1>3 DEF StopStep, StopFlag, Notify, StopSync
<1> QED
  BY <1>1, <1>2, <1>4, <1>5, QuietStep DEF IInv, TypeOK

LEMMA RestartStep ==
  ASSUME NEW cached \in BOOLEAN, IInv, Restart(cached)
  PROVE  IInv'
<1> USE DEF IInv, Restart
<1>1. last' \in {0, clock} /\ saved' \in {saved, clock}
  BY DEF InitLast
<1>2. TypeOK'
  <2>1. clock \in Nat \ {0} /\ last' \in 0..clock /\ saved' \in 0..clock \cup {None}
    BY <1>1 DEF TypeOK
  <2>2. chat' \in [Workers -> Chat \cup {None}] /\ \A w \in Workers : chat'[w] = None
    OBVIOUS
  <2>3. changed' \in [Groups -> 0..clock]
    BY <2>1
  <2>4. missed' \subseteq Groups
    BY DEF TypeOK, Behind
  <2>5. pc' \in Pcs /\ waitting' \in BOOLEAN /\ running' \in BOOLEAN /\ stop' = "no"
    BY DEF Pcs
  <2> QED
    BY <2>1, <2>2, <2>3, <2>4, <2>5 DEF TypeOK
<1>3. Fresh' /\ NoneInHand' /\ Seen' /\ InHand'
  BY DEF Fresh, NoneInHand, Seen, InHand
<1>4. NotForgotten'
  BY <1>1 DEF NotForgotten, Behind, TypeOK
<1> QED
  BY <1>2, <1>3, <1>4

LEMMA SyncCenterInitial == Init => IInv
<1> SUFFICES ASSUME Init PROVE IInv
  OBVIOUS
<1> USE DEF Init
<1>1. TypeOK
  <2>1. chat \in [Workers -> Chat \cup {None}] /\ \A w \in Workers : chat[w] = None
    OBVIOUS
  <2>2. clock \in Nat \ {0} /\ 0 \in 0..clock
    OBVIOUS
  <2>3. lastChated \in [Groups -> 0..clock] /\ updated \in [Groups -> 0..clock]
        /\ changed \in [Groups -> 0..clock]
    BY <2>2
  <2>4. pc \in Pcs
    BY DEF Pcs
  <2> QED
    BY <2>1, <2>2, <2>3, <2>4 DEF TypeOK
<1>2. Fresh /\ NoneInHand /\ Seen /\ InHand /\ NotForgotten
  BY DEF Fresh, NoneInHand, Seen, InHand, NotForgotten, Behind
<1> QED
  BY <1>1, <1>2 DEF IInv

LEMMA SyncCenterStep == IInv /\ [Next]_vars => IInv'
<1> SUFFICES ASSUME IInv, [Next]_vars PROVE IInv'
  OBVIOUS
<1>1. CASE Tick
  BY <1>1, TickStep
<1>2. CASE \E w \in Workers : UpdateGroupChat(w) \/ \E g \in Groups : ReadTime(w, g)
  BY <1>2, UpdateGroupChatStep, ReadTimeStep
<1>3. CASE ThreadStep
  BY <1>3, QueryStep, UpdateLastStep, MembersStep, MembersDoneStep, LoopStep DEF ThreadStep
<1>4. CASE StopStep
  BY <1>4, StopPreserves
<1>5. CASE \E cached \in BOOLEAN : Restart(cached)
  BY <1>5, RestartStep
<1>6. CASE \E p \in Pools : Exhaust(p)
  <2>1. exhausted' \subseteq Pools
    BY <1>6 DEF Exhaust, IInv, TypeOK
  <2> QED
    BY <1>6, <2>1, QuietStep DEF Exhaust, thread, flags, IInv, TypeOK
<1>7. CASE UNCHANGED vars
  BY <1>7, QuietStep DEF vars, chats, times, thread, flags, IInv, TypeOK
<1> QED
  BY <1>1, <1>2, <1>3, <1>4, <1>5, <1>6, <1>7 DEF Next

\* The times and tables of the synchronisation keep their types, and no time is ahead of the clock.
THEOREM SyncCenterTypeOK == Spec => []TypeOK
<1>1. IInv => TypeOK
  BY DEF IInv
<1> QED
  BY SyncCenterInitial, SyncCenterStep, <1>1, PTL DEF Spec

\* For any groups, workers and times, a message is synchronised, in hand, or found by the next
\* query, unless a round may pass over it for one of the three reasons that NotForgotten names.
THEOREM SyncCenterNotForgotten == Spec => []NotForgotten
<1>1. IInv => NotForgotten
  BY DEF IInv
<1> QED
  BY SyncCenterInitial, SyncCenterStep, <1>1, PTL DEF Spec
=============================================================================
