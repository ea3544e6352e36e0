------------------------- MODULE FileTransferProofs -------------------------
(***************************************************************************)
(* What the file_server promises of a transfer.  The invariant has two     *)
(* parts.  One is about the pointers between the task and its connections: *)
(* a connection that holds the task is open or logged in behind its close, *)
(* and while nobody logs in besides another, each side's connection is the *)
(* only one in its place, so that the last one to close deletes the task,  *)
(* also when the two sides are one user.  The other part is about the      *)
(* blocks: the state of the task tells how much of the file there is, and  *)
(* of an online transfer, which block is under way.                        *)
(***************************************************************************)
EXTENDS FileTransfer, TLAPS

InStates(S) == task # NoTask /\ task.state \in S

-----------------------------------------------------------------------------
(* The pointers *)

HoldersOpen ==
    \A c \in Conns : ptr[c] = "task" =>
        task # NoTask /\ (conn[c] = "open" \/ (c = reading /\ c \in strayed))

ReaderClosed == reading # NoConn => conn[reading] = "closed"

\* In a transfer to oneself all connections are in from_conn_, else none of the receivers'.
PlacesByUser ==
    task # NoTask => IF self THEN task.to = NoConn ELSE task.from \in Senders \union {NoConn}

\* In a transfer without shared places, an offline task has one connection, and the connections
\* of an online task are those that it names.
AloneInPlace ==
    ~shared => /\ mode = "offline" => \A c, d \in Conns : ptr[c] = "task" /\ ptr[d] = "task" => c = d
               /\ mode = "online" => \A c \in Conns : ptr[c] = "task" => c \in {task.from, task.to}

PtrTypes ==
    /\ mode \in Modes /\ self \in BOOLEAN /\ blocks \in 0..MaxBlocks
    /\ created \in BOOLEAN /\ shared \in BOOLEAN /\ undefined \in BOOLEAN
    /\ strayed \subseteq Conns /\ reading \in Conns \union {NoConn}
    /\ task \in Task \union {NoTask}
    /\ conn \in [Conns -> {"idle", "open", "closed"}]
    /\ ptr \in [Conns -> {"none", "task", "freed", "other"}]

PtrInv ==
    /\ PtrTypes /\ HoldersOpen /\ ReaderClosed /\ PlacesByUser
    /\ SlotsLive /\ AloneInPlace /\ FreedOnlyWhenShared

-----------------------------------------------------------------------------
(* The blocks *)

OnlineStates == {"Ready", "WaitingSender", "WaitingReceiver", "WaitingTransfer", "Transfering", "Invalid"}
OfflineStates == {"Ready", "WaitingUpload", "Uploading", "UploadEnd", "WaitingDownload", "Downloading"}

\* The file's blocks are numbered from 0 in the order that they are written.
Blocks(s) == [i \in 1..Len(s) |-> i - 1]

DataTypes ==
    /\ disk = NoFile \/ disk \in Seq(0..MaxBlocks)
    /\ owed \in [Conns -> Seq(0..MaxBlocks + 1)]
    /\ client \in [Conns -> {"start", "ready", "data"}]
    /\ got \in [Conns -> Seq(0..MaxBlocks)]
    /\ done \subseteq Conns

\* A task is in a state of its mode, and before it is asked for there is none and no file.
StatesOfMode ==
    /\ task # NoTask => created /\ task.state \in IF mode = "online" THEN OnlineStates ELSE OfflineStates
    /\ mode = "online" => done = {} /\ \A c \in Conns : owed[c] \in Seq(0..MaxBlocks)

\* Before the first block there is no file, nobody has asked for a block and nobody was sent one.
Fresh ==
    ~created \/ InStates({"Ready", "WaitingSender", "WaitingReceiver", "WaitingUpload"}) =>
        /\ disk = NoFile
        /\ task # NoTask => task.idx = 0
        /\ mode = "online" => \A c \in Conns : owed[c] = <<>> /\ client[c] = "start"

\* The task of an upload counts the blocks of the file, and an upload that goes on is not whole.
UploadCounts == InStates({"Uploading"}) => disk # NoFile /\ Len(disk) = task.idx /\ task.idx # blocks

DiskInOrder == disk # NoFile => disk = Blocks(disk)

\* The connections that an online task waits for or has are there until one closes; in one to
\* oneself nothing ever runs.
BothThere ==
    mode = "online" =>
        IF self THEN ~InStates(Running)
        ELSE /\ InStates({"WaitingReceiver"} \union Running) => task.from \in Senders
             /\ InStates({"WaitingSender"} \union Running) => task.to \in Receivers

\* In an online transfer without shared places one block is under way at a time: the one that the
\* receiver asked for last, which it has not been sent.
OneAsked ==
    mode = "online" /\ ~shared /\ InStates(Running) =>
        \/ owed[task.from] = <<>> /\ client[task.to] # "data"
        \/ owed[task.from] = <<Len(got[task.to])>> /\ client[task.to] = "data"

BlocksInv ==
    /\ DataTypes /\ StatesOfMode /\ Fresh /\ UploadCounts /\ DiskInOrder
    /\ DownloadsComplete /\ BothThere /\ OneAsked /\ InOrder

TransferInv == PtrInv /\ BlocksInv

-----------------------------------------------------------------------------
(* Tasks as records *)

LEMMA TaskFields ==
  ASSUME NEW t \in Task
  PROVE  /\ t.state \in States /\ t.from \in Conns \union {NoConn} /\ t.to \in Receivers \union {NoConn}
         /\ t.idx \in 0..MaxBlocks + 1 /\ t # NoTask
  BY TaskAssumption DEF Task

LEMMA NewTaskFields ==
  ASSUME NEW s \in States
  PROVE  /\ NewTask(s) \in Task /\ NewTask(s).state = s /\ NewTask(s).idx = 0
         /\ NewTask(s).from = NoConn /\ NewTask(s).to = NoConn
  BY BlocksAssumption DEF NewTask, Task

\* What SetConnByUserID makes of a task: one place names connection c, or none.
LEMMA SetConnFields ==
  ASSUME NEW t \in Task, NEW c \in Conns, NEW s \in States, NEW v \in {c, NoConn}, self \in BOOLEAN
  PROVE  LET r == SetConn([t EXCEPT !.state = s], c, v)
         IN  /\ r \in Task /\ r # NoTask /\ r.state = s /\ r.idx = t.idx
             /\ IsFrom(c) => r.from = v /\ r.to = t.to
             /\ ~IsFrom(c) => r.from = t.from /\ r.to = v /\ c \in Receivers
  <1> DEFINE u == [t EXCEPT !.state = s]
             r == SetConn(u, c, v)
  <1>1. /\ u \in Task /\ u.state = s /\ u.idx = t.idx /\ u.from = t.from /\ u.to = t.to
    BY DEF Task
  <1> HIDE DEF u
  <1>2. /\ IsFrom(c) => r = [u EXCEPT !.from = v]
        /\ ~IsFrom(c) => r = [u EXCEPT !.to = v] /\ c \in Receivers
    BY ConnsAssumption DEF SetConn, IsFrom, Conns
  <1> HIDE DEF r
  <1>3. /\ r \in Task /\ r.state = s /\ r.idx = t.idx
        /\ IsFrom(c) => r.from = v /\ r.to = t.to
        /\ ~IsFrom(c) => r.from = t.from /\ r.to = v
    BY <1>1, <1>2 DEF Task
  <1>4. r # NoTask
    BY <1>3, TaskAssumption
  <1> QED
    BY <1>2, <1>3, <1>4 DEF r, u

-----------------------------------------------------------------------------
(* The pointers, step by step *)

\* The steps of a connection that holds the task and keeps it.
LEMMA KeepPtr ==
  ASSUME PtrInv, NEW c \in Conns, Holds(c), task' \in Task, task'.from = task.from, task'.to = task.to,
         undefined' \in BOOLEAN, UNCHANGED <<mode, self, blocks, created, conn, ptr, reading, shared, strayed>>
  PROVE  PtrInv'
  <1>1. task' # NoTask /\ ptr[c] = "task" /\ task # NoTask
    BY TaskAssumption DEF Holds, PtrInv, HoldersOpen
  <1>2. PtrTypes' /\ HoldersOpen' /\ ReaderClosed' /\ PlacesByUser' /\ AloneInPlace' /\ FreedOnlyWhenShared'
    BY <1>1 DEF PtrInv, PtrTypes, HoldersOpen, ReaderClosed, PlacesByUser, AloneInPlace, FreedOnlyWhenShared
  <1>3. SlotsLive'
    BY <1>1 DEF PtrInv, SlotsLive
  <1> QED
    BY <1>2, <1>3 DEF PtrInv

\* The steps that leave no task, and no connection that holds one.
LEMMA GonePtr ==
  ASSUME PtrInv, task' = NoTask, ptr' = [c \in Conns |-> "none"], reading = NoConn,
         conn' \in [Conns -> {"idle", "open", "closed"}],
         UNCHANGED <<mode, self, blocks, created, reading, shared, strayed, undefined>>
  PROVE  PtrInv'
  BY DEF PtrInv, PtrTypes, HoldersOpen, ReaderClosed, PlacesByUser, SlotsLive, AloneInPlace, FreedOnlyWhenShared

\* The steps that leave the pointers, or end the model.
LEMMA SamePtr ==
  ASSUME PtrInv, undefined' \in BOOLEAN,
         UNCHANGED <<mode, self, blocks, created, task, conn, ptr, reading, shared, strayed>>
  PROVE  PtrInv'
  BY DEF PtrInv, PtrTypes, HoldersOpen, ReaderClosed, PlacesByUser, SlotsLive, AloneInPlace, FreedOnlyWhenShared

LEMMA RequestPtr ==
  ASSUME PtrInv, task = NoTask, FileTransferReq
  PROVE  PtrInv'
  <1>1. /\ task' \in Task /\ task' # NoTask /\ task'.state = "Ready"
        /\ task'.from = NoConn /\ task'.to = NoConn
    BY NewTaskFields, TaskFields DEF FileTransferReq, States
  <1>2. \A c \in Conns : ptr[c] # "task"
    BY DEF PtrInv, HoldersOpen
  <1>3. created' = TRUE /\ UNCHANGED <<mode, self, blocks, conn, ptr, reading, shared, strayed, undefined>>
    BY DEF FileTransferReq, historyVars
  <1> QED
    BY <1>1, <1>2, <1>3 DEF PtrInv, PtrTypes, HoldersOpen, ReaderClosed, PlacesByUser, SlotsLive, AloneInPlace,
                            FreedOnlyWhenShared

LEMMA RefusedPtr ==
  ASSUME PtrInv, NEW c \in Conns, LoginRefused(c)
  PROVE  PtrInv'
  <1>1. /\ conn' = [conn EXCEPT ![c] = "closed"] /\ reading' \in {NoConn, c} /\ task = NoTask
        /\ UNCHANGED <<mode, self, blocks, created, task, ptr, shared, strayed, undefined>>
    BY DEF LoginRefused, transferVars, historyVars
  <1> QED
    BY <1>1 DEF PtrInv, PtrTypes, HoldersOpen, ReaderClosed, PlacesByUser, SlotsLive, AloneInPlace,
                FreedOnlyWhenShared

LEMMA ElsewherePtr ==
  ASSUME PtrInv, NEW c \in Conns, LoginElsewhere(c)
  PROVE  PtrInv'
  <1>1. /\ ptr' = [ptr EXCEPT ![c] = "other"] /\ strayed' = strayed \union {c}
        /\ UNCHANGED <<mode, self, blocks, created, task, conn, reading, shared, undefined>>
    BY DEF LoginElsewhere, transferVars
  <1>2. ptr' \in [Conns -> {"none", "task", "freed", "other"}] /\ ptr'[c] = "other"
        /\ \A d \in Conns \ {c} : ptr'[d] = ptr[d]
    BY <1>1 DEF PtrInv, PtrTypes
  <1>3. PtrTypes' /\ HoldersOpen' /\ ReaderClosed' /\ PlacesByUser' /\ FreedOnlyWhenShared'
    BY <1>1, <1>2 DEF PtrInv, PtrTypes, HoldersOpen, ReaderClosed, PlacesByUser, FreedOnlyWhenShared
  <1>4. SlotsLive'
    <2> SUFFICES ASSUME task # NoTask, NEW d \in {task.from, task.to} \ {NoConn}, d # c, d \notin strayed
                 PROVE  conn[d] = "open" /\ ptr'[d] = "task"
      BY <1>1 DEF SlotsLive
    <2>1. d \in Conns
      BY TaskFields DEF PtrInv, PtrTypes, Conns
    <2> QED
      BY <1>2, <2>1 DEF PtrInv, SlotsLive
  <1>5. AloneInPlace'
    BY <1>1, <1>2 DEF PtrInv, AloneInPlace
  <1> QED
    BY <1>3, <1>4, <1>5 DEF PtrInv

LEMMA LeaveElsewherePtr ==
  ASSUME PtrInv, NEW c \in Conns, LeaveElsewhere(c)
  PROVE  PtrInv'
  <1>1. /\ conn' = [conn EXCEPT ![c] = "closed"] /\ reading' \in {NoConn, c}
        /\ ptr' = [ptr EXCEPT ![c] = "none"] /\ ptr[c] = "other" /\ reading = NoConn
        /\ UNCHANGED <<mode, self, blocks, created, task, shared, strayed, undefined>>
    BY DEF LeaveElsewhere, transferVars, historyVars, Idle
  <1>2. /\ ptr' \in [Conns -> {"none", "task", "freed", "other"}] /\ ptr'[c] = "none"
        /\ \A d \in Conns \ {c} : ptr'[d] = ptr[d]
        /\ conn' \in [Conns -> {"idle", "open", "closed"}] /\ conn'[c] = "closed"
        /\ \A d \in Conns \ {c} : conn'[d] = conn[d]
    BY <1>1 DEF PtrInv, PtrTypes
  <1>3. NoConn \notin Conns
    BY ConnsAssumption
  <1>4. PtrTypes' /\ HoldersOpen' /\ ReaderClosed' /\ PlacesByUser' /\ FreedOnlyWhenShared'
    BY <1>1, <1>2, <1>3 DEF PtrInv, PtrTypes, HoldersOpen, ReaderClosed, PlacesByUser, FreedOnlyWhenShared
  <1>5. SlotsLive'
    <2>1. ASSUME task # NoTask, NEW d \in {task.from, task.to} \ {NoConn}, d \notin strayed
          PROVE  conn'[d] = "open" /\ ptr'[d] = "task"
      <3>1. d \in Conns
        BY <2>1, TaskFields DEF PtrInv, PtrTypes, Conns
      <3>2. conn[d] = "open" /\ ptr[d] = "task"
        BY <2>1 DEF PtrInv, SlotsLive
      <3> QED
        BY <1>1, <1>2, <3>1, <3>2
    <2>2. \A d \in Conns : ptr[d] = "task" => ptr'[d] = "task"
      BY <1>1, <1>2
    <2> QED
      BY <1>1, <2>1, <2>2 DEF PtrInv, SlotsLive
  <1>6. AloneInPlace'
    BY <1>1, <1>2 DEF PtrInv, AloneInPlace
  <1> QED
    BY <1>4, <1>5, <1>6 DEF PtrInv

LEMMA ReadEndPtr ==
  ASSUME PtrInv, NEW c \in Conns, ReadEnd(c)
  PROVE  PtrInv'
  <1>1. /\ reading = c /\ reading' = NoConn /\ ptr' = [ptr EXCEPT ![c] = "none"]
        /\ UNCHANGED <<mode, self, blocks, created, task, conn, shared, strayed, undefined>>
    BY DEF ReadEnd, transferVars, historyVars
  <1>2. /\ ptr' \in [Conns -> {"none", "task", "freed", "other"}] /\ ptr'[c] = "none"
        /\ \A d \in Conns \ {c} : ptr'[d] = ptr[d]
    BY <1>1 DEF PtrInv, PtrTypes
  <1>3. conn[c] = "closed" /\ (ptr[c] = "task" => c \in strayed) /\ NoConn \notin Conns
    BY <1>1, ConnsAssumption DEF PtrInv, HoldersOpen, ReaderClosed
  <1>4. PtrTypes' /\ HoldersOpen' /\ ReaderClosed' /\ PlacesByUser' /\ FreedOnlyWhenShared'
    BY <1>1, <1>2, <1>3 DEF PtrInv, PtrTypes, HoldersOpen, ReaderClosed, PlacesByUser, FreedOnlyWhenShared
  <1>5. SlotsLive'
    <2>1. ASSUME task # NoTask, NEW d \in {task.from, task.to} \ {NoConn}, d \notin strayed
          PROVE  conn'[d] = "open" /\ ptr'[d] = "task"
      <3>1. d \in Conns
        BY <2>1, TaskFields DEF PtrInv, PtrTypes, Conns
      <3>2. conn[d] = "open" /\ ptr[d] = "task"
        BY <2>1 DEF PtrInv, SlotsLive
      <3>3. d # c
        BY <1>3, <3>2
      <3> QED
        BY <1>1, <1>2, <3>1, <3>2, <3>3
    <2>2. ASSUME NEW d \in Conns, ptr[d] = "task" PROVE ptr'[d] = "task" \/ strayed # {}
      BY <1>2, <1>3, <2>2
    <2> QED
      BY <1>1, <2>1, <2>2 DEF PtrInv, SlotsLive
  <1>6. AloneInPlace'
    BY <1>1, <1>2 DEF PtrInv, AloneInPlace
  <1> QED
    BY <1>4, <1>5, <1>6 DEF PtrInv

\* A close, with what it leaves of the task.
LEMMA ClosePtr ==
  ASSUME PtrInv, NEW c \in Conns, Holds(c), NEW t \in Task, t.from = task.from, t.to = task.to,
         Close(c, t), undefined' \in BOOLEAN, UNCHANGED <<mode, self, blocks, created, shared, strayed>>
  PROVE  /\ PtrInv'
         /\ task' # NoTask =>
              /\ task' \in Task /\ task'.idx = t.idx
              /\ mode = "online" => task'.state = "Invalid"
              /\ mode = "offline" => t.state = "WaitingUpload" /\ task'.state = "WaitingUpload"
  <1> DEFINE r == Released(t, c)
  <1>1. /\ mode \in Modes /\ self \in BOOLEAN /\ ptr[c] = "task" /\ task # NoTask /\ task \in Task
        /\ reading = NoConn
    BY DEF PtrInv, PtrTypes, HoldersOpen, Holds, Idle
  <1>2. ClosedState(t) \in States
    BY TaskFields DEF ClosedState, States
  <1>3. /\ r \in Task /\ r # NoTask /\ r.state = ClosedState(t) /\ r.idx = t.idx
        /\ IsFrom(c) => r.from = NoConn /\ r.to = task.to
        /\ ~IsFrom(c) => r.from = task.from /\ r.to = NoConn /\ c \in Receivers
    BY <1>1, <1>2, SetConnFields DEF Released
  <1>4. /\ task' = IF Deletes(r) THEN NoTask ELSE r
        /\ conn' = [conn EXCEPT ![c] = "closed"] /\ reading' \in {NoConn, c}
        /\ ptr' = [d \in Conns |-> IF d = c THEN "none"
                                   ELSE IF Deletes(r) /\ ptr[d] = "task" THEN "freed"
                                   ELSE ptr[d]]
    BY DEF Close
  <1> HIDE DEF r
  <1>5. /\ mode = "online" => (Deletes(r) <=> r.from = NoConn /\ r.to = NoConn)
        /\ mode = "offline" => (Deletes(r) <=> r.state # "WaitingUpload")
    BY DEF Deletes
  <1>6. /\ task.from \in Conns \union {NoConn} /\ task.to \in Receivers \union {NoConn}
        /\ self => task.to = NoConn
        /\ ~self => task.from \in Senders \union {NoConn}
        /\ IsFrom(c) <=> self \/ c \in Senders
        /\ Senders \intersect Receivers = {} /\ NoConn \notin Conns /\ Conns = Senders \union Receivers
    BY <1>1, TaskFields, ConnsAssumption DEF Conns, IsFrom, PtrInv, PlacesByUser
  <1>7. PtrTypes'
    BY <1>3, <1>4 DEF PtrInv, PtrTypes
  <1>8. HoldersOpen' /\ ReaderClosed'
    BY <1>1, <1>3, <1>4, <1>6 DEF PtrInv, PtrTypes, HoldersOpen, ReaderClosed
  <1>13. PlacesByUser'
    BY <1>3, <1>4, <1>6 DEF PlacesByUser
  <1>9. SlotsLive'
    <2> SUFFICES ASSUME ~Deletes(r)
                 PROVE  /\ \A d \in {r.from, r.to} \ {NoConn} :
                              d \in strayed \/ (conn'[d] = "open" /\ ptr'[d] = "task")
                        /\ \/ r.state \in {"Ready", "WaitingUpload"}
                           \/ \E d \in Conns : ptr'[d] = "task"
                           \/ strayed # {}
      BY <1>4 DEF SlotsLive
    <2>1. ASSUME NEW d \in {r.from, r.to} \ {NoConn}, d \notin strayed
          PROVE  d \in Conns /\ conn'[d] = "open" /\ ptr'[d] = "task"
      <3>1. d \in {task.from, task.to} \ {NoConn} /\ d # c /\ d \in Conns
        BY <1>3, <1>6, <2>1
      <3>2. conn[d] = "open" /\ ptr[d] = "task"
        BY <1>1, <2>1, <3>1 DEF PtrInv, SlotsLive
      <3> QED
        BY <1>4, <3>1, <3>2 DEF PtrInv, PtrTypes
    <2>2. CASE mode = "online"
      BY <1>5, <2>1, <2>2
    <2>3. CASE mode = "offline"
      BY <1>5, <2>1, <2>3
    <2> QED
      BY <1>1, <2>1, <2>2, <2>3 DEF Modes
  <1>10. AloneInPlace'
    <2> SUFFICES ASSUME ~shared
                 PROVE  /\ mode = "offline" =>
                             \A a, d \in Conns : ptr'[a] = "task" /\ ptr'[d] = "task" => a = d
                        /\ mode = "online" => \A d \in Conns : ptr'[d] = "task" => d \in {task'.from, task'.to}
      BY DEF AloneInPlace
    <2>1. ASSUME NEW d \in Conns, ptr'[d] = "task" PROVE ptr[d] = "task" /\ d # c /\ task' = r
      BY <1>4, <2>1
    <2>2. ASSUME mode = "online", NEW d \in Conns, ptr'[d] = "task" PROVE d \in {task'.from, task'.to}
      <3>1. ptr[d] = "task" /\ d # c /\ task' = r
        BY <2>1, <2>2
      <3>2. d \in {task.from, task.to} /\ c \in {task.from, task.to}
        BY <1>1, <2>2, <3>1 DEF PtrInv, AloneInPlace
      <3> QED
        BY <1>3, <1>6, <3>1, <3>2
    <2> QED
      BY <2>1, <2>2 DEF PtrInv, AloneInPlace
  <1>11. FreedOnlyWhenShared'
    <2> SUFFICES ASSUME NEW d \in Conns, ptr'[d] = "freed", ~shared PROVE FALSE
      BY DEF FreedOnlyWhenShared
    <2>1. ptr[d] # "freed"
      BY DEF PtrInv, FreedOnlyWhenShared
    <2>2. Deletes(r) /\ ptr[d] = "task" /\ d # c
      BY <1>4, <2>1
    <2>3. mode = "online"
      BY <1>1, <2>2 DEF PtrInv, AloneInPlace, Modes
    <2>4. d \in {task.from, task.to} /\ c \in {task.from, task.to}
      BY <1>1, <2>2, <2>3 DEF PtrInv, AloneInPlace
    <2>5. d \in {r.from, r.to}
      BY <1>3, <1>6, <2>2, <2>4
    <2> QED
      BY <1>5, <1>6, <2>2, <2>3, <2>5
  <1>12. task' # NoTask =>
              /\ task' \in Task /\ task'.idx = t.idx
              /\ mode = "online" => task'.state = "Invalid"
              /\ mode = "offline" => t.state = "WaitingUpload" /\ task'.state = "WaitingUpload"
    <2>1. task' # NoTask => task' = r /\ ~Deletes(r)
      BY <1>4
    <2>2. mode = "online" => ClosedState(t) = "Invalid"
      BY DEF ClosedState
    <2>3. mode = "offline" /\ ClosedState(t) = "WaitingUpload" => t.state = "WaitingUpload"
      BY DEF ClosedState
    <2> QED
      BY <1>3, <1>5, <2>1, <2>2, <2>3
  <1> QED
    BY <1>7, <1>8, <1>9, <1>10, <1>11, <1>12, <1>13 DEF PtrInv

\* What the logins have in common: on an open connection, or behind a close
Joins(c) ==
    /\ task # NoTask \/ Loads(c)
    /\ task' = LoggedIn(c) /\ ~(Starts(task') /\ task'.to = NoConn)
    /\ ptr' = [ptr EXCEPT ![c] = "task"]
    /\ \/ reading = NoConn /\ conn' = [conn EXCEPT ![c] = "open"] /\ strayed' = strayed \ {c}
       \/ reading = c /\ conn' = conn /\ strayed' = strayed \union {c}
    /\ shared' = (shared \/ FindsAnother(c))
    /\ \/ owed' = owed
       \/ mode = "offline" /\ task'.state = "WaitingUpload" /\ owed' = [owed EXCEPT ![c] = Append(@, 0)]
    /\ \/ client' = client
       \/ mode = "offline" /\ client' = [client EXCEPT ![c] = "ready"]
       \/ client' = Told(task')
    /\ undefined' \in BOOLEAN
    /\ UNCHANGED <<mode, self, blocks, created, disk, reading, got, done>>

LEMMA LoginJoins == ASSUME NEW c \in Conns, Login(c) PROVE Joins(c)
  BY DEF Login, Joins, Connects, Idle, transferVars

LEMMA LateLoginJoins == ASSUME NEW c \in Conns, LateLogin(c) PROVE Joins(c)
  BY DEF LateLogin, Joins, transferVars

LEMMA FoundFields ==
  ASSUME PtrInv, NEW c \in Conns
  PROVE  /\ Found \in Task /\ ChangePullState(Found.state, c) \in States
         /\ task = NoTask => Found.from = NoConn /\ Found.to = NoConn
         /\ task # NoTask => Found = task
  <1>1. /\ NewTask("WaitingDownload") \in Task /\ NewTask("WaitingDownload").from = NoConn
        /\ NewTask("WaitingDownload").to = NoConn
    BY NewTaskFields DEF States
  <1>2. /\ Found \in Task /\ (task = NoTask => Found.from = NoConn /\ Found.to = NoConn)
        /\ task # NoTask => Found = task
    BY <1>1 DEF Found, PtrInv, PtrTypes
  <1>3. ChangePullState(Found.state, c) \in States
    BY <1>2, TaskFields DEF ChangePullState, States
  <1> QED
    BY <1>2, <1>3

LEMMA JoinsPtr ==
  ASSUME PtrInv, NEW c \in Conns, Joins(c)
  PROVE  /\ PtrInv' /\ task' \in Task /\ task' # NoTask
         /\ Found \in Task /\ task'.idx = Found.idx /\ task'.state = ChangePullState(Found.state, c)
         /\ IsFrom(c) => task'.from = c /\ task'.to = Found.to
         /\ ~IsFrom(c) => task'.to = c /\ task'.from = Found.from /\ c \in Receivers
  <1> DEFINE s == ChangePullState(Found.state, c)
  <1>1. /\ task' = SetConn([Found EXCEPT !.state = s], c, c)
        /\ ptr' = [ptr EXCEPT ![c] = "task"] /\ shared' = (shared \/ FindsAnother(c))
        /\ \/ reading = NoConn /\ conn' = [conn EXCEPT ![c] = "open"] /\ strayed' = strayed \ {c}
           \/ reading = c /\ conn' = conn /\ strayed' = strayed \union {c}
        /\ undefined' \in BOOLEAN /\ UNCHANGED <<mode, self, blocks, created, reading>>
    BY DEF Joins, LoggedIn
  <1>2. /\ Found \in Task /\ s \in States
        /\ task = NoTask => Found.from = NoConn /\ Found.to = NoConn
        /\ task # NoTask => Found = task
    BY FoundFields
  <1>3. self \in BOOLEAN /\ mode \in Modes
    BY DEF PtrInv, PtrTypes
  <1> HIDE DEF s
  <1>4. /\ task' \in Task /\ task' # NoTask /\ task'.state = s /\ task'.idx = Found.idx
        /\ IsFrom(c) => task'.from = c /\ task'.to = Found.to
        /\ ~IsFrom(c) => task'.from = Found.from /\ task'.to = c /\ c \in Receivers
    BY <1>1, <1>2, <1>3, SetConnFields
  <1>5. /\ Found.from \in Conns \union {NoConn} /\ Found.to \in Receivers \union {NoConn}
        /\ self => Found.to = NoConn
        /\ ~self => Found.from \in Senders \union {NoConn}
        /\ IsFrom(c) <=> self \/ c \in Senders
        /\ Senders \intersect Receivers = {} /\ NoConn \notin Conns /\ Conns = Senders \union Receivers
    BY <1>2, TaskFields, ConnsAssumption DEF Conns, IsFrom, PtrInv, PlacesByUser
  <1>6. /\ ptr'[c] = "task" /\ shared' \in BOOLEAN
        /\ \A d \in Conns \ {c} : ptr'[d] = ptr[d] /\ conn'[d] = conn[d] /\ (d \in strayed' <=> d \in strayed)
        /\ conn'[c] = "open" \/ (reading' = c /\ c \in strayed')
        /\ c \in strayed' \/ conn'[c] = "open"
    BY <1>1 DEF PtrInv, PtrTypes, FindsAnother
  <1>7. PtrTypes'
    BY <1>1, <1>4, <1>6 DEF PtrInv, PtrTypes
  <1>8. HoldersOpen' /\ ReaderClosed' /\ PlacesByUser'
    <2>1. HoldersOpen'
      BY <1>1, <1>4, <1>5, <1>6 DEF PtrInv, PtrTypes, HoldersOpen
    <2>2. ReaderClosed'
      BY <1>1 DEF PtrInv, ReaderClosed
    <2>3. PlacesByUser'
      BY <1>1, <1>3, <1>4, <1>5 DEF PlacesByUser
    <2> QED
      BY <2>1, <2>2, <2>3
  <1>9. SlotsLive'
    <2>1. ASSUME NEW d \in {task'.from, task'.to} \ {NoConn}, d \notin strayed'
          PROVE  conn'[d] = "open" /\ ptr'[d] = "task"
      <3>1. CASE d = c
        BY <1>6, <2>1, <3>1
      <3>2. CASE d # c
        <4>1. d \in {Found.from, Found.to} \ {NoConn} /\ d \in Conns
          BY <1>4, <1>5, <2>1, <3>2
        <4>2. task # NoTask /\ Found = task
          BY <1>2, <4>1
        <4>3. conn[d] = "open" /\ ptr[d] = "task"
          BY <1>6, <2>1, <3>2, <4>1, <4>2 DEF PtrInv, SlotsLive
        <4> QED
          BY <1>6, <3>2, <4>1, <4>3
      <3> QED
        BY <3>1, <3>2
    <2> QED
      BY <1>6, <2>1 DEF SlotsLive
  <1>10. AloneInPlace'
    <2> SUFFICES ASSUME ~shared'
                 PROVE  /\ mode = "offline" =>
                             \A a, d \in Conns : ptr'[a] = "task" /\ ptr'[d] = "task" => a = d
                        /\ mode = "online" => \A d \in Conns : ptr'[d] = "task" => d \in {task'.from, task'.to}
      BY <1>1 DEF AloneInPlace
    <2>1. /\ ~shared /\ Place(Found, c) \in {NoConn, c}
          /\ \A d \in Conns \ {c} : ptr[d] = "task" => mode # "offline" /\ ~(d \in Senders <=> c \in Senders)
      BY <1>1 DEF FindsAnother
    <2>2. \A d \in Conns : ptr'[d] = "task" => d = c \/ ptr[d] = "task"
      BY <1>6
    <2>3. ASSUME mode = "online", NEW d \in Conns, ptr'[d] = "task" PROVE d \in {task'.from, task'.to}
      <3>1. CASE d = c
        BY <1>4, <3>1
      <3>2. CASE d # c
        <4>1. ptr[d] = "task"
          BY <2>2, <2>3, <3>2
        <4>2. task # NoTask /\ Found = task
          BY <1>2, <4>1 DEF PtrInv, HoldersOpen
        <4>3. d \in {Found.from, Found.to}
          BY <2>1, <2>3, <4>1, <4>2 DEF PtrInv, AloneInPlace
        <4> QED
          BY <1>4, <1>5, <2>1, <3>2, <4>3 DEF Place
      <3> QED
        BY <3>1, <3>2
    <2> QED
      BY <2>1, <2>2, <2>3
  <1>11. FreedOnlyWhenShared'
    BY <1>1, <1>6 DEF PtrInv, PtrTypes, FreedOnlyWhenShared
  <1> QED
    BY <1>2, <1>4, <1>7, <1>8, <1>9, <1>10, <1>11 DEF PtrInv, s

\* A login that closes again deletes the task; who holds it shared the place.
LEMMA LoginAlonePtr ==
  ASSUME PtrInv, NEW c \in Conns, LoginAlone(c)
  PROVE  PtrInv' /\ task' = NoTask
  <1> DEFINE s == ChangePullState(Found.state, c)
             q == LoggedIn(c)
             r == Released(q, c)
  <1>1. /\ reading = NoConn /\ task # NoTask /\ mode = "online" /\ q.to = NoConn
        /\ shared' = (shared \/ FindsAnother(c)) /\ strayed' = strayed \ {c} /\ Close(c, q)
        /\ UNCHANGED <<mode, self, blocks, created, undefined>>
    BY DEF LoginAlone, Connects, Idle, Starts, transferVars
  <1>2. Found \in Task /\ s \in States /\ Found = task
    BY <1>1, FoundFields
  <1>3. self \in BOOLEAN /\ NoConn \notin Conns
    BY ConnsAssumption DEF PtrInv, PtrTypes
  <1> HIDE DEF s
  <1>4. /\ q \in Task
        /\ IsFrom(c) => q.from = c /\ q.to = task.to
        /\ ~IsFrom(c) => q.to = c
    BY <1>2, <1>3, SetConnFields DEF LoggedIn, s
  <1>5. IsFrom(c) /\ task.to = NoConn
    BY <1>1, <1>3, <1>4
  <1> HIDE DEF q
  <1>6. ClosedState(q) \in States
    BY <1>4, TaskFields DEF ClosedState, States
  <1>7. r.from = NoConn /\ r.to = NoConn
    BY <1>1, <1>3, <1>4, <1>5, <1>6, SetConnFields DEF Released
  <1> HIDE DEF r
  <1>8. Deletes(r)
    BY <1>1, <1>7 DEF Deletes
  <1>9. /\ task' = NoTask /\ conn' = [conn EXCEPT ![c] = "closed"] /\ reading' \in {NoConn, c}
        /\ ptr' = [d \in Conns |-> IF d = c THEN "none" ELSE IF ptr[d] = "task" THEN "freed" ELSE ptr[d]]
    BY <1>1, <1>8 DEF Close, r
  <1>10. PtrTypes'
    BY <1>1, <1>9 DEF PtrInv, PtrTypes, FindsAnother
  <1>11. HoldersOpen' /\ ReaderClosed' /\ PlacesByUser' /\ SlotsLive' /\ AloneInPlace'
    BY <1>9 DEF PtrInv, PtrTypes, HoldersOpen, ReaderClosed, PlacesByUser, SlotsLive, AloneInPlace
  <1>12. FreedOnlyWhenShared'
    <2> SUFFICES ASSUME NEW d \in Conns, ptr'[d] = "freed", ~shared' PROVE FALSE
      BY <1>10 DEF FreedOnlyWhenShared, PtrTypes
    <2>1. ~shared /\ Place(Found, c) \in {NoConn, c}
      BY <1>1 DEF FindsAnother
    <2>2. ptr[d] = "task" /\ d # c
      BY <1>9, <2>1 DEF PtrInv, FreedOnlyWhenShared
    <2>3. d \in {task.from, task.to}
      BY <1>1, <2>1, <2>2 DEF PtrInv, AloneInPlace
    <2> QED
      BY <1>2, <1>3, <1>5, <2>1, <2>2, <2>3 DEF Place
  <1> QED
    BY <1>9, <1>10, <1>11, <1>12 DEF PtrInv

-----------------------------------------------------------------------------
(* The blocks, step by step *)

LEMMA SeqWidens == ASSUME NEW S, NEW T, S \subseteq T PROVE Seq(S) \subseteq Seq(T)
  OBVIOUS

LEMMA AppendBlocks ==
  ASSUME NEW S, NEW s \in Seq(S), s = Blocks(s), Len(s) \in S
  PROVE  Append(s, Len(s)) \in Seq(S) /\ Append(s, Len(s)) = Blocks(Append(s, Len(s)))
  <1> DEFINE a == Append(s, Len(s))
  <1>1. a \in Seq(S) /\ Len(a) = Len(s) + 1 /\ Len(s) \in Nat
    OBVIOUS
  <1>2. \A i \in 1..Len(a) : a[i] = i - 1
    <2> SUFFICES ASSUME NEW i \in 1..Len(a) PROVE a[i] = i - 1
      OBVIOUS
    <2>1. CASE i = Len(s) + 1
      BY <1>1, <2>1
    <2>2. CASE i \in 1..Len(s)
      <3>1. a[i] = s[i]
        BY <2>2
      <3>2. s[i] = i - 1
        BY <2>2 DEF Blocks
      <3> QED
        BY <3>1, <3>2
    <2> QED
      BY <1>1, <2>1, <2>2
  <1> HIDE DEF a
  <1>3. a = [i \in 1..Len(a) |-> a[i]]
    BY <1>1
  <1>4. a = Blocks(a)
    BY <1>2, <1>3 DEF Blocks
  <1> QED
    BY <1>1, <1>4 DEF a

LEMMA GoneBlocks ==
  ASSUME BlocksInv, task' = NoTask, shared' \in BOOLEAN, shared => shared',
         UNCHANGED <<mode, blocks, created, disk, clientVars>>
  PROVE  BlocksInv'
  <1>1. UNCHANGED <<owed, client, got, done>>
    BY DEF clientVars
  <1> QED
    BY <1>1 DEF BlocksInv, DataTypes, StatesOfMode, Fresh, UploadCounts, DiskInOrder, DownloadsComplete,
                BothThere, OneAsked, InOrder, InStates, Complete

LEMMA BlocksUnchanged ==
  ASSUME BlocksInv, UNCHANGED <<mode, self, blocks, created, task, disk, clientVars, shared>>
  PROVE  BlocksInv'
  <1>1. UNCHANGED <<owed, client, got, done>>
    BY DEF clientVars
  <1> QED
    BY <1>1 DEF BlocksInv, DataTypes, StatesOfMode, Fresh, UploadCounts, DiskInOrder, DownloadsComplete,
                BothThere, OneAsked, InOrder, InStates, Complete

LEMMA RequestBlocks ==
  ASSUME BlocksInv, FileTransferReq
  PROVE  BlocksInv' /\ task = NoTask
  <1>1. /\ ~created /\ created' /\ task'.state = "Ready" /\ task'.idx = 0
        /\ UNCHANGED <<mode, self, blocks, disk, owed, client, got, done, shared>>
    BY NewTaskFields DEF FileTransferReq, States, clientVars, historyVars
  <1>2. task = NoTask
    BY <1>1 DEF BlocksInv, StatesOfMode
  <1>3. StatesOfMode'
    BY <1>1 DEF BlocksInv, StatesOfMode, OnlineStates, OfflineStates
  <1>4. Fresh'
    BY <1>1, <1>2 DEF BlocksInv, Fresh
  <1>5. UploadCounts' /\ DownloadsComplete' /\ BothThere' /\ OneAsked'
    BY <1>1 DEF UploadCounts, DownloadsComplete, BothThere, OneAsked, InStates, Running
  <1> QED
    BY <1>1, <1>2, <1>3, <1>4, <1>5 DEF BlocksInv, DataTypes, DiskInOrder, InOrder, Complete

\* A connection closes, nothing else happens.
LEMMA CloseBlocks ==
  ASSUME TransferInv, NEW c \in Conns, Holds(c), Close(c, task), undefined' \in BOOLEAN,
         UNCHANGED <<transferVars, disk, clientVars, historyVars>>
  PROVE  TransferInv'
  <1>1. task \in Task /\ task # NoTask /\ mode \in Modes
    BY DEF TransferInv, PtrInv, PtrTypes, HoldersOpen, Holds
  <1>2. /\ PtrInv'
        /\ task' # NoTask =>
              /\ task'.idx = task.idx
              /\ mode = "online" => task'.state = "Invalid"
              /\ mode = "offline" => task.state = "WaitingUpload" /\ task'.state = "WaitingUpload"
    BY <1>1, ClosePtr DEF TransferInv, transferVars, historyVars
  <1>3. UNCHANGED <<mode, self, blocks, created, owed, client, got, done, shared>> /\ shared \in BOOLEAN
    BY DEF clientVars, transferVars, historyVars, TransferInv, PtrInv, PtrTypes
  <1>4. BlocksInv'
    <2>1. CASE task' = NoTask
      BY <1>3, <2>1, GoneBlocks DEF TransferInv
    <2>2. CASE task' # NoTask /\ mode = "online"
      BY <1>1, <1>2, <1>3, <2>2 DEF TransferInv, BlocksInv, DataTypes, StatesOfMode, OnlineStates, Fresh,
             UploadCounts, DiskInOrder, DownloadsComplete, BothThere, OneAsked, InOrder, InStates, Running,
             Complete
    <2>3. CASE task' # NoTask /\ mode = "offline"
      BY <1>1, <1>2, <1>3, <2>3 DEF TransferInv, BlocksInv, DataTypes, StatesOfMode, OfflineStates, Fresh,
             UploadCounts, DiskInOrder, DownloadsComplete, BothThere, OneAsked, InOrder, InStates, Complete
    <2> QED
      BY <1>1, <2>1, <2>2, <2>3 DEF Modes
  <1> QED
    BY <1>2, <1>4 DEF TransferInv

\* A login that finds the task and keeps it
LEMMA JoinsBlocks ==
  ASSUME TransferInv, NEW c \in Conns, Joins(c)
  PROVE  TransferInv'
  <1> DEFINE s == Found.state
             z == task'.state
  <1>1. /\ PtrInv /\ BlocksInv /\ PtrInv' /\ task' \in Task /\ task' # NoTask
        /\ Found \in Task /\ task'.idx = Found.idx /\ task'.state = ChangePullState(s, c)
        /\ IsFrom(c) => task'.from = c /\ task'.to = Found.to
        /\ ~IsFrom(c) => task'.to = c /\ task'.from = Found.from /\ c \in Receivers
    BY JoinsPtr DEF TransferInv
  <1>2. /\ task # NoTask \/ Loads(c)
        /\ ~(Starts(task') /\ task'.to = NoConn)
        /\ shared' = (shared \/ FindsAnother(c))
        /\ UNCHANGED <<mode, self, blocks, created, disk, got, done>>
    BY DEF Joins
  <1>3. owed' = owed \/ (mode = "offline" /\ z = "WaitingUpload" /\ owed' = [owed EXCEPT ![c] = Append(@, 0)])
    BY DEF Joins
  <1>4. \/ client' = client
        \/ mode = "offline" /\ client' = [client EXCEPT ![c] = "ready"]
        \/ client' = Told(task')
    BY DEF Joins
  <1>5. /\ task # NoTask => Found = task
        /\ task = NoTask => mode = "offline" /\ Complete /\ s = "WaitingDownload"
    BY <1>2, NewTaskFields DEF Found, Loads, States
  <1>8. created
    BY <1>1, <1>5 DEF BlocksInv, StatesOfMode, Fresh, Complete
  <1>9. /\ task'.from \in Conns \union {NoConn} /\ task'.to \in Receivers \union {NoConn}
        /\ self \in BOOLEAN /\ (self => task'.to = NoConn)
        /\ IsFrom(c) <=> self \/ c \in Senders
        /\ Senders \intersect Receivers = {} /\ NoConn \notin Conns /\ Conns = Senders \union Receivers
    BY <1>1, <1>2, TaskFields, ConnsAssumption DEF Conns, IsFrom, PtrInv, PtrTypes, PlacesByUser
  <1>6. CASE mode = "online"
    <2>1. /\ task # NoTask /\ Found = task /\ UNCHANGED owed /\ s \in OnlineStates
          /\ client' = client \/ client' = Told(task')
      BY <1>1, <1>3, <1>4, <1>5, <1>6 DEF BlocksInv, StatesOfMode
    <2>2. /\ z = "WaitingReceiver" => s \in {"Ready", "WaitingReceiver"} /\ (c \in Senders \/ s = "WaitingReceiver")
          /\ z = "WaitingSender" => s \in {"Ready", "WaitingSender"} /\ (c \in Receivers \/ s = "WaitingSender")
          /\ z = "WaitingTransfer" => \/ s = "WaitingReceiver" /\ c \in Receivers
                                      \/ s = "WaitingSender" /\ c \in Senders
                                      \/ s = "WaitingTransfer"
          /\ z \in OnlineStates
          /\ z \in {"Ready", "Transfering", "Invalid"} => s = z
      BY <1>1, <1>6, <1>9, <2>1 DEF ChangePullState, OnlineStates
    <2>10. z = "WaitingTransfer" => task'.to # NoConn
      BY <1>1, <1>2, <1>6 DEF Starts
    <2>11. self => s \notin Running /\ z \notin Running
      <3>1. self => s \notin Running
        BY <1>1, <1>6, <2>1 DEF BlocksInv, BothThere, InStates, s
      <3> QED
        BY <1>9, <2>2, <2>10, <3>1 DEF Running
    <2>12. ~self => /\ s \in {"WaitingReceiver", "WaitingTransfer", "Transfering"} => task.from \in Senders
                    /\ s \in {"WaitingSender", "WaitingTransfer", "Transfering"} => task.to \in Receivers
      BY <1>1, <1>6, <2>1 DEF BlocksInv, BothThere, InStates, Running, s
    <2> HIDE DEF s, z
    <2>3. DataTypes'
      <3>1. client' \in [Conns -> {"start", "ready", "data"}]
        BY <1>1, <2>1 DEF BlocksInv, DataTypes, Told
      <3> QED
        BY <1>1, <1>2, <2>1, <3>1 DEF BlocksInv, DataTypes
    <2>4. StatesOfMode'
      BY <1>1, <1>2, <1>6, <1>8, <2>1, <2>2 DEF BlocksInv, StatesOfMode, z
    <2>5. Fresh'
      <3> SUFFICES ASSUME z \in {"Ready", "WaitingSender", "WaitingReceiver"}
                   PROVE  /\ disk = NoFile /\ task'.idx = 0
                          /\ \A d \in Conns : owed[d] = <<>> /\ client'[d] = "start"
        BY <1>2, <1>6, <1>8, <2>1, <2>2 DEF Fresh, InStates, z, OnlineStates
      <3>1. s \in {"Ready", "WaitingSender", "WaitingReceiver"} /\ z # "WaitingTransfer"
        BY <2>2
      <3>2. /\ disk = NoFile /\ task.idx = 0
            /\ \A d \in Conns : owed[d] = <<>> /\ client[d] = "start"
        BY <1>1, <1>6, <2>1, <3>1 DEF BlocksInv, Fresh, InStates, s
      <3>3. client' = client
        BY <2>1, <3>1 DEF Told, Starts, z
      <3> QED
        BY <1>1, <2>1, <3>2, <3>3
    <2>6. UploadCounts' /\ DownloadsComplete'
      BY <2>2 DEF UploadCounts, DownloadsComplete, InStates, OnlineStates, z
    <2>7. BothThere'
      <3>1. ASSUME ~self, z \in {"WaitingReceiver", "WaitingTransfer", "Transfering"} PROVE task'.from \in Senders
        <4>1. CASE c \in Senders
          BY <1>1, <1>9, <4>1
        <4>2. CASE c \notin Senders
          BY <1>1, <1>9, <2>1, <2>2, <2>12, <3>1, <4>2
        <4> QED
          BY <4>1, <4>2
      <3>2. ASSUME ~self, z \in {"WaitingSender", "WaitingTransfer", "Transfering"} PROVE task'.to \in Receivers
        <4>1. CASE c \notin Senders
          BY <1>1, <1>9, <3>2, <4>1
        <4>2. CASE c \in Senders
          BY <1>1, <1>9, <2>1, <2>2, <2>12, <3>2, <4>2
        <4> QED
          BY <4>1, <4>2
      <3> QED
        BY <1>2, <2>11, <3>1, <3>2 DEF BothThere, InStates, Running, z
    <2>8. OneAsked'
      <3> SUFFICES ASSUME ~shared', z \in Running
                   PROVE  \/ owed[task'.from] = <<>> /\ client'[task'.to] # "data"
                          \/ owed[task'.from] = <<Len(got[task'.to])>> /\ client'[task'.to] = "data"
        BY <1>2, <2>1 DEF OneAsked, InStates, z
      <3>1. ~self /\ ~shared /\ task'.from \in Conns /\ task'.to \in Conns
        BY <1>2, <1>6, <1>9, <2>7, <2>11, <1>1 DEF BothThere, InStates, z
      <3>2. /\ client'[task'.to] = "data" <=> client[task'.to] = "data"
        BY <1>1, <2>1, <3>1 DEF Told, BlocksInv, DataTypes
      <3>3. CASE s \in Running
        <4>1. task.from \in Senders /\ task.to \in Receivers
          BY <2>12, <3>1, <3>3 DEF Running
        <4>2. Place(task, c) = c
          BY <1>2, <1>9, <2>1, <4>1 DEF FindsAnother, Place
        <4>3. task'.from = task.from /\ task'.to = task.to
          BY <1>1, <2>1, <4>2 DEF Place
        <4>4. \/ owed[task.from] = <<>> /\ client[task.to] # "data"
              \/ owed[task.from] = <<Len(got[task.to])>> /\ client[task.to] = "data"
          BY <1>1, <1>6, <2>1, <3>1, <3>3 DEF BlocksInv, OneAsked, InStates, s
        <4> QED
          BY <3>2, <4>3, <4>4
      <3>4. CASE s \notin Running
        <4>1. s \in {"WaitingSender", "WaitingReceiver"}
          BY <2>2, <3>4 DEF Running, OnlineStates
        <4>2. \A d \in Conns : owed[d] = <<>> /\ client[d] = "start"
          BY <1>1, <1>6, <2>1, <4>1 DEF BlocksInv, Fresh, InStates, s
        <4> QED
          BY <3>1, <3>2, <4>2
      <3> QED
        BY <3>3, <3>4
    <2>9. DiskInOrder' /\ InOrder'
      BY <1>1, <1>2 DEF BlocksInv, DiskInOrder, InOrder, Complete
    <2> QED
      BY <1>1, <2>3, <2>4, <2>5, <2>6, <2>7, <2>8, <2>9 DEF TransferInv, BlocksInv
  <1>7. CASE mode = "offline"
    <2>1. s \in OfflineStates
      BY <1>1, <1>5, <1>7 DEF BlocksInv, StatesOfMode, OfflineStates
    <2>2. /\ z \in OfflineStates
          /\ z = "WaitingUpload" => s \in {"Ready", "WaitingUpload"}
          /\ z \in {"UploadEnd", "WaitingDownload"} => s \in {"UploadEnd", "WaitingDownload"}
          /\ z \in {"Ready", "Uploading", "Downloading"} => s = z
      BY <1>1, <1>7, <2>1 DEF ChangePullState, OfflineStates
    <2> HIDE DEF s, z
    <2>3. z \in {"Ready", "WaitingUpload", "Uploading"} => task # NoTask /\ Found = task
      BY <1>5, <2>2
    <2>4. DataTypes'
      <3>1. client' \in [Conns -> {"start", "ready", "data"}]
        BY <1>1, <1>4, <1>7 DEF BlocksInv, DataTypes, Told, Starts
      <3>2. owed' \in [Conns -> Seq(0..MaxBlocks + 1)]
        <4> DEFINE O == 0..MaxBlocks + 1
        <4>1. 0 \in O /\ owed \in [Conns -> Seq(O)] /\ owed[c] \in Seq(O)
          BY <1>1, BlocksAssumption DEF BlocksInv, DataTypes
        <4> HIDE DEF O
        <4>2. Append(owed[c], 0) \in Seq(O)
          BY <4>1
        <4>3. owed' \in [Conns -> Seq(O)]
          BY <1>3, <4>1, <4>2
        <4> QED
          BY <4>3 DEF O
      <3> QED
        BY <1>1, <1>2, <3>1, <3>2 DEF BlocksInv, DataTypes
    <2>5. StatesOfMode'
      BY <1>1, <1>2, <1>7, <1>8, <2>2 DEF StatesOfMode, z
    <2>6. Fresh'
      <3> SUFFICES ASSUME z \in {"Ready", "WaitingSender", "WaitingReceiver", "WaitingUpload"}
                   PROVE  disk = NoFile /\ task'.idx = 0
        BY <1>2, <1>7, <1>8 DEF Fresh, InStates, z
      <3>1. s \in {"Ready", "WaitingUpload"} /\ task # NoTask /\ Found = task
        BY <2>2, <2>3 DEF OfflineStates
      <3> QED
        BY <1>1, <3>1 DEF BlocksInv, Fresh, InStates, s
    <2>7. UploadCounts'
      <3> SUFFICES ASSUME z = "Uploading" PROVE disk # NoFile /\ Len(disk) = task'.idx /\ task'.idx # blocks
        BY <1>2 DEF UploadCounts, InStates, z
      <3> QED
        BY <1>1, <2>2, <2>3 DEF BlocksInv, UploadCounts, InStates, s
    <2>8. DownloadsComplete'
      <3> SUFFICES ASSUME z \in {"UploadEnd", "WaitingDownload", "Downloading"} PROVE Complete
        BY <1>2 DEF DownloadsComplete, z, Complete
      <3>1. CASE task = NoTask
        BY <1>5, <3>1
      <3>2. CASE task # NoTask
        BY <1>1, <1>5, <2>2, <3>2 DEF BlocksInv, DownloadsComplete, s
      <3> QED
        BY <3>1, <3>2
    <2>9. BothThere' /\ OneAsked'
      BY <1>2, <1>7 DEF BothThere, OneAsked
    <2>10. DiskInOrder' /\ InOrder'
      BY <1>1, <1>2, <1>7 DEF BlocksInv, DiskInOrder, InOrder, Complete
    <2> QED
      BY <1>1, <2>4, <2>5, <2>6, <2>7, <2>8, <2>9, <2>10 DEF TransferInv, BlocksInv
  <1> QED
    BY <1>1, <1>6, <1>7 DEF PtrInv, PtrTypes, Modes

LEMMA LoginAloneBlocks ==
  ASSUME TransferInv, NEW c \in Conns, LoginAlone(c)
  PROVE  TransferInv'
  <1>1. /\ shared' = (shared \/ FindsAnother(c)) /\ UNCHANGED <<mode, blocks, created, disk, clientVars>>
    BY DEF LoginAlone, transferVars, Close
  <1>2. /\ PtrInv' /\ task' = NoTask
    BY LoginAlonePtr DEF TransferInv
  <1>3. BlocksInv'
    BY <1>1, <1>2, GoneBlocks DEF TransferInv, PtrInv, PtrTypes
  <1> QED
    BY <1>2, <1>3 DEF TransferInv

\* A connection that holds the task, with what its handlers may rely on.
LEMMA HolderFacts ==
  ASSUME TransferInv, NEW c \in Conns, Holds(c)
  PROVE  /\ task \in Task /\ task # NoTask /\ created /\ ptr[c] = "task"
         /\ mode \in Modes /\ blocks \in 0..MaxBlocks /\ blocks \in Nat
         /\ task.idx \in 0..MaxBlocks + 1 /\ task.idx \in Nat
         /\ task.from \in Conns \union {NoConn} /\ task.to \in Receivers \union {NoConn}
         /\ mode = "online" /\ task.state \in Running =>
              ~self /\ task.from \in Senders /\ task.to \in Receivers
         /\ mode = "online" /\ task.state \in Running /\ ~shared =>
              (c \in Senders => c = task.from) /\ (c \in Receivers => c = task.to)
  <1>1. task \in Task /\ task # NoTask /\ ptr[c] = "task" /\ created
    BY DEF TransferInv, PtrInv, PtrTypes, HoldersOpen, Holds, BlocksInv, StatesOfMode
  <1>2. mode \in Modes /\ blocks \in 0..MaxBlocks /\ blocks \in Nat
    BY BlocksAssumption DEF TransferInv, PtrInv, PtrTypes
  <1>3. /\ task.idx \in 0..MaxBlocks + 1 /\ task.idx \in Nat
        /\ task.from \in Conns \union {NoConn} /\ task.to \in Receivers \union {NoConn}
    BY <1>1, TaskFields, BlocksAssumption
  <1>4. mode = "online" /\ task.state \in Running =>
          ~self /\ task.from \in Senders /\ task.to \in Receivers
    BY <1>1 DEF TransferInv, BlocksInv, BothThere, InStates
  <1>5. ASSUME mode = "online", task.state \in Running, ~shared
        PROVE  (c \in Senders => c = task.from) /\ (c \in Receivers => c = task.to)
    <2>1. c \in {task.from, task.to}
      BY <1>1, <1>5 DEF TransferInv, PtrInv, AloneInPlace
    <2> QED
      BY <1>4, <1>5, <2>1, ConnsAssumption
  <1> QED
    BY <1>1, <1>2, <1>3, <1>4, <1>5

LEMMA PullOnlineInv ==
  ASSUME TransferInv, NEW c \in Receivers, Holds(c), client[c] = "ready", Len(got[c]) < blocks,
         mode = "online", task.state \in Running, PullOnline(c),
         UNCHANGED <<mode, self, blocks, created, shared, strayed>>
  PROVE  TransferInv'
  <1>1. /\ PtrInv /\ BlocksInv /\ c \in Conns
        /\ Senders \intersect Receivers = {} /\ NoConn \notin Conns /\ Conns = Senders \union Receivers
    BY ConnsAssumption DEF TransferInv, Conns
  <1>2. /\ task \in Task /\ task # NoTask /\ created /\ blocks \in 0..MaxBlocks
        /\ ~shared => c = task.to
    BY <1>1, HolderFacts
  <1>3. task.from \in Senders /\ task.to \in Receivers /\ ~self
    BY <1>1, HolderFacts
  <1>4. /\ task' = [task EXCEPT !.state = "Transfering"]
        /\ owed' = [owed EXCEPT ![task.from] = Append(@, Len(got[c]))]
        /\ client' = [client EXCEPT ![c] = "data"]
        /\ undefined' \in BOOLEAN /\ UNCHANGED <<disk, conn, ptr, reading, got, done>>
    BY <1>1, <1>3 DEF PullOnline, Deleted
  <1>5. /\ task' \in Task /\ task' # NoTask /\ task'.state = "Transfering" /\ task'.idx = task.idx
        /\ task'.from = task.from /\ task'.to = task.to
    BY <1>2, <1>4, TaskAssumption DEF Task, States
  <1>6. PtrInv'
    BY <1>1, <1>4, <1>5, KeepPtr DEF TransferInv
  <1>7. Len(got[c]) \in 0..MaxBlocks
    <2>1. got[c] \in Seq(0..MaxBlocks)
      BY <1>1 DEF BlocksInv, DataTypes
    <2> QED
      BY <1>2, <2>1, BlocksAssumption
  <1>8. DataTypes' /\ StatesOfMode'
    <2> DEFINE O == 0..MaxBlocks
               P == 0..MaxBlocks + 1
    <2>1. /\ owed \in [Conns -> Seq(P)] /\ (\A d \in Conns : owed[d] \in Seq(O))
          /\ O \subseteq P /\ Len(got[c]) \in O
      BY <1>1, <1>7, BlocksAssumption DEF BlocksInv, DataTypes, StatesOfMode
    <2> HIDE DEF O, P
    <2>2. Append(owed[task.from], Len(got[c])) \in Seq(O) /\ Append(owed[task.from], Len(got[c])) \in Seq(P)
      BY <1>1, <1>3, <2>1
    <2>3. owed' \in [Conns -> Seq(P)] /\ \A d \in Conns : owed'[d] \in Seq(O)
      BY <1>4, <2>1, <2>2
    <2>4. client' \in [Conns -> {"start", "ready", "data"}]
      BY <1>1, <1>4 DEF BlocksInv, DataTypes
    <2>5. DataTypes'
      BY <1>1, <1>4, <2>3, <2>4 DEF BlocksInv, DataTypes, P
    <2>6. StatesOfMode'
      BY <1>1, <1>2, <1>4, <1>5, <2>3 DEF BlocksInv, StatesOfMode, OnlineStates, O
    <2> QED
      BY <2>5, <2>6
  <1>9. Fresh' /\ UploadCounts' /\ DownloadsComplete' /\ BothThere'
    BY <1>2, <1>3, <1>5 DEF Fresh, UploadCounts, DownloadsComplete, BothThere, InStates
  <1>10. OneAsked'
    <2> SUFFICES ASSUME ~shared
                 PROVE  owed'[task.from] = <<Len(got[task.to])>> /\ client'[task.to] = "data"
      BY <1>4, <1>5 DEF OneAsked
    <2>1. c = task.to /\ client[c] # "data"
      BY <1>2
    <2>2. owed[task.from] = <<>>
      BY <1>1, <1>2, <2>1 DEF BlocksInv, OneAsked, InStates
    <2> QED
      BY <1>1, <1>3, <1>4, <2>1, <2>2 DEF BlocksInv, DataTypes
  <1>11. DiskInOrder' /\ InOrder'
    BY <1>1, <1>4 DEF BlocksInv, DiskInOrder, InOrder, Complete
  <1> QED
    BY <1>6, <1>8, <1>9, <1>10, <1>11 DEF TransferInv, BlocksInv

LEMMA RecvOnlineInv ==
  ASSUME TransferInv, NEW c \in Senders, Holds(c), owed[c] # <<>>,
         mode = "online", task.state \in Running, RecvOnline(c),
         UNCHANGED <<mode, self, blocks, created, shared, strayed>>
  PROVE  TransferInv'
  <1> DEFINE r == task.to
  <1>1. /\ PtrInv /\ BlocksInv /\ c \in Conns
        /\ Senders \intersect Receivers = {} /\ NoConn \notin Conns /\ Conns = Senders \union Receivers
    BY ConnsAssumption DEF TransferInv, Conns
  <1>2. /\ task \in Task /\ task # NoTask /\ created
        /\ ~shared => c = task.from
    BY <1>1, HolderFacts
  <1>3. task.from \in Senders /\ r \in Receivers /\ ~self
    BY <1>1, HolderFacts
  <1>4. /\ task' = [task EXCEPT !.state = "Transfering"]
        /\ owed' = [owed EXCEPT ![c] = Tail(@)]
        /\ got' = [got EXCEPT ![r] = Append(@, Head(owed[c]))]
        /\ client' = IF client[r] = "data" THEN [client EXCEPT ![r] = "ready"] ELSE client
        /\ undefined' \in BOOLEAN /\ UNCHANGED <<disk, conn, ptr, reading, done>>
    BY <1>1, <1>3 DEF RecvOnline, Answered, Deleted
  <1>5. /\ task' \in Task /\ task' # NoTask /\ task'.state = "Transfering" /\ task'.idx = task.idx
        /\ task'.from = task.from /\ task'.to = task.to
    BY <1>2, <1>4, TaskAssumption DEF Task, States
  <1>6. PtrInv'
    BY <1>1, <1>4, <1>5, KeepPtr DEF TransferInv
  <1> DEFINE O == 0..MaxBlocks
             P == 0..MaxBlocks + 1
  <1>7. /\ owed \in [Conns -> Seq(P)] /\ (\A d \in Conns : owed[d] \in Seq(O))
        /\ got \in [Conns -> Seq(O)] /\ O \subseteq Int
    BY <1>1 DEF BlocksInv, DataTypes, StatesOfMode
  <1> HIDE DEF O, P, r
  <1>8. /\ Head(owed[c]) \in O /\ Tail(owed[c]) \in Seq(O) /\ Tail(owed[c]) \in Seq(P)
    BY <1>1, <1>7
  <1>9. got' \in [Conns -> Seq(O)] /\ \A d \in Conns \ {r} : got'[d] = got[d]
    <2>1. r \in Conns /\ got[r] \in Seq(O)
      BY <1>1, <1>3, <1>7
    <2>2. Append(got[r], Head(owed[c])) \in Seq(O)
      BY <1>8, <2>1
    <2> QED
      BY <1>4, <1>7, <2>1, <2>2
  <1>10. DataTypes' /\ StatesOfMode'
    <2>1. owed' \in [Conns -> Seq(P)] /\ \A d \in Conns : owed'[d] \in Seq(O)
      BY <1>4, <1>7, <1>8
    <2>2. client' \in [Conns -> {"start", "ready", "data"}]
      BY <1>1, <1>4 DEF BlocksInv, DataTypes
    <2>3. DataTypes'
      BY <1>1, <1>4, <1>9, <2>1, <2>2 DEF BlocksInv, DataTypes, P, O
    <2>4. StatesOfMode'
      BY <1>1, <1>2, <1>4, <1>5, <2>1 DEF BlocksInv, StatesOfMode, OnlineStates, O
    <2> QED
      BY <2>3, <2>4
  <1>11. Fresh' /\ UploadCounts' /\ DownloadsComplete' /\ BothThere'
    BY <1>2, <1>3, <1>5 DEF Fresh, UploadCounts, DownloadsComplete, BothThere, InStates, r
  <1>12. ASSUME ~shared
         PROVE  /\ c = task.from /\ owed[c] = <<Len(got[r])>> /\ client[r] = "data"
                /\ owed'[c] = <<>> /\ client'[r] = "ready" /\ got'[r] = Append(got[r], Len(got[r]))
    <2>1. c = task.from
      BY <1>2, <1>12
    <2>2. owed[c] = <<Len(got[r])>> /\ client[r] = "data"
      BY <1>1, <1>2, <1>12, <2>1 DEF BlocksInv, OneAsked, InStates, r
    <2>3. Head(owed[c]) = Len(got[r]) /\ Tail(owed[c]) = <<>>
      BY <2>2
    <2> QED
      BY <1>1, <1>3, <1>4, <1>7, <2>1, <2>2, <2>3 DEF BlocksInv, DataTypes
  <1>13. OneAsked'
    BY <1>4, <1>5, <1>12 DEF OneAsked, r
  <1>14. InOrder'
    <2>1. done = {}
      BY <1>1 DEF BlocksInv, StatesOfMode
    <2>2. ASSUME ~shared, NEW d \in Receivers PROVE got'[d] = Blocks(got'[d])
      <3>1. got[d] = Blocks(got[d])
        BY <1>1, <2>2 DEF BlocksInv, InOrder, Blocks
      <3>2. CASE d = r
        <4>1. Len(got[r]) \in O /\ got[r] \in Seq(O) /\ got'[r] = Append(got[r], Len(got[r]))
          <5>1. Len(got[r]) = Head(owed[c])
            BY <1>12, <2>2
          <5> QED
            BY <1>1, <1>3, <1>7, <1>8, <1>12, <2>2, <5>1
        <4> QED
          BY <3>1, <3>2, <4>1, AppendBlocks
      <3>3. CASE d # r
        BY <1>1, <1>9, <3>1, <3>3
      <3> QED
        BY <3>2, <3>3
    <2> QED
      BY <1>4, <2>1, <2>2 DEF InOrder, Blocks
  <1>15. DiskInOrder'
    BY <1>1, <1>4 DEF BlocksInv, DiskInOrder
  <1> QED
    BY <1>6, <1>10, <1>11, <1>13, <1>14, <1>15 DEF TransferInv, BlocksInv

LEMMA PullOfflineInv ==
  ASSUME TransferInv, NEW c \in Receivers, Holds(c), Len(got[c]) < blocks, mode = "offline",
         Download(task).state = "Downloading", AtOffset(Download(task), Len(got[c])),
         disk # NoFile, Download(task).idx < Len(disk), PullOffline(c),
         UNCHANGED <<mode, self, blocks, created, shared, strayed>>
  PROVE  TransferInv'
  <1> DEFINE t == Download(task)
             n == [t EXCEPT !.idx = @ + 1]
             e == [n EXCEPT !.state = "UploadEnd"]
  <1>1. PtrInv /\ BlocksInv /\ c \in Conns
    BY DEF TransferInv, Conns
  <1>2. /\ task \in Task /\ task # NoTask /\ created /\ blocks \in 0..MaxBlocks /\ blocks \in Nat
    BY <1>1, HolderFacts
  <1>3. /\ task.state \in {"WaitingDownload", "Downloading"}
        /\ t \in Task /\ t.state = "Downloading" /\ t.from = task.from /\ t.to = task.to
    <2>1. CASE task.state = "WaitingDownload"
      <3>1. t = [task EXCEPT !.state = "Downloading", !.idx = 0]
        BY <2>1 DEF Download
      <3> HIDE DEF t
      <3>2. 0 \in 0..MaxBlocks + 1
        BY BlocksAssumption
      <3> QED
        BY <1>2, <2>1, <3>1, <3>2 DEF Task, States
    <2>2. CASE task.state # "WaitingDownload"
      BY <1>2, <2>2 DEF Download
    <2> QED
      BY <2>1, <2>2
  <1>4. Complete /\ Len(disk) = blocks /\ disk \in Seq(0..MaxBlocks) /\ disk = Blocks(disk)
    BY <1>1, <1>2, <1>3 DEF BlocksInv, DataTypes, DownloadsComplete, DiskInOrder, Complete
  <1>5. t.idx = Len(got[c]) /\ t.idx \in Nat /\ t.idx < blocks
    BY <1>3, <1>4, TaskFields, BlocksAssumption DEF AtOffset
  <1>6. disk[t.idx + 1] = Len(got[c])
    <2>1. t.idx + 1 \in 1..Len(disk)
      BY <1>2, <1>4, <1>5
    <2>2. Blocks(disk)[t.idx + 1] = t.idx
      BY <1>5, <2>1 DEF Blocks
    <2> QED
      BY <1>4, <1>5, <2>2
  <1>7. /\ got' = [got EXCEPT ![c] = Append(@, Len(got[c]))]
        /\ UNCHANGED <<disk, owed, client, undefined>>
        /\ IF n.idx = blocks THEN done' = done \union {c} /\ Close(c, e)
           ELSE task' = n /\ UNCHANGED <<done, conn, ptr, reading>>
    <2>1. got' = [got EXCEPT ![c] = Append(@, disk[t.idx + 1])]
      BY DEF PullOffline
    <2>2. /\ UNCHANGED <<disk, owed, client, undefined>>
          /\ IF n.idx = blocks THEN done' = done \union {c} /\ Close(c, e)
             ELSE task' = n /\ UNCHANGED <<done, conn, ptr, reading>>
      BY DEF PullOffline
    <2> HIDE DEF t, n, e
    <2> QED
      BY <1>6, <2>1, <2>2
  <1> HIDE DEF t
  <1>8. /\ n \in Task /\ n.state = "Downloading" /\ n.idx = t.idx + 1 /\ n.from = t.from /\ n.to = t.to
        /\ e \in Task /\ e.state = "UploadEnd" /\ e.from = t.from /\ e.to = t.to
    <2>1. t.idx + 1 \in 0..MaxBlocks + 1
      BY <1>2, <1>5, BlocksAssumption
    <2> QED
      BY <1>3, <2>1 DEF Task, States
  <1> HIDE DEF n, e
  <1>9. /\ PtrInv'
        /\ task' = NoTask \/ (task' = n /\ n.idx # blocks)
        /\ done' \subseteq Conns
        /\ \A d \in done' : d \in done \/ (d = c /\ n.idx = blocks)
    <2>1. CASE n.idx = blocks
      BY <1>1, <1>3, <1>7, <1>8, <2>1, ClosePtr DEF BlocksInv, DataTypes, PtrInv, PtrTypes
    <2>2. CASE n.idx # blocks
      BY <1>1, <1>3, <1>7, <1>8, <2>2, KeepPtr DEF BlocksInv, DataTypes, PtrInv, PtrTypes
    <2> QED
      BY <2>1, <2>2
  <1>10. /\ got' \in [Conns -> Seq(0..MaxBlocks)] /\ got[c] \in Seq(0..MaxBlocks)
         /\ Len(got'[c]) = t.idx + 1 /\ \A d \in Conns \ {c} : got'[d] = got[d]
         /\ got[c] = Blocks(got[c]) => got'[c] = Blocks(got'[c])
    <2> DEFINE O == 0..MaxBlocks
    <2>1. got \in [Conns -> Seq(O)] /\ Len(got[c]) \in O
      BY <1>1, <1>2, <1>5, BlocksAssumption DEF BlocksInv, DataTypes
    <2> HIDE DEF O
    <2>2. got[c] \in Seq(O) /\ Append(got[c], Len(got[c])) \in Seq(O)
      BY <1>1, <2>1
    <2>3. /\ got' \in [Conns -> Seq(O)] /\ got'[c] = Append(got[c], Len(got[c]))
          /\ \A d \in Conns \ {c} : got'[d] = got[d]
      BY <1>1, <1>7, <2>1, <2>2
    <2>4. Len(got'[c]) = t.idx + 1
      BY <1>5, <2>2, <2>3
    <2>5. got[c] = Blocks(got[c]) => got'[c] = Blocks(got'[c])
      BY <2>1, <2>2, <2>3, AppendBlocks
    <2> QED
      BY <2>2, <2>3, <2>4, <2>5 DEF O
  <1>11. DataTypes'
    BY <1>1, <1>7, <1>9, <1>10 DEF BlocksInv, DataTypes
  <1>12. StatesOfMode' /\ BothThere' /\ OneAsked'
    BY <1>2, <1>8, <1>9 DEF StatesOfMode, OfflineStates, BothThere, OneAsked
  <1>13. Fresh' /\ UploadCounts'
    BY <1>2, <1>8, <1>9 DEF Fresh, UploadCounts, InStates
  <1>14. Complete' /\ DownloadsComplete' /\ DiskInOrder'
    BY <1>1, <1>4, <1>7 DEF BlocksInv, Complete, DownloadsComplete, DiskInOrder
  <1>15. InOrder'
    <2>1. \A d \in Receivers : got'[d] = Blocks(got'[d])
      BY <1>1, <1>10 DEF BlocksInv, InOrder, Blocks, Conns
    <2>2. ASSUME NEW d \in done', d \in Receivers PROVE Len(got'[d]) = blocks
      <3>1. CASE d = c
        <4>1. d \notin done
          BY <1>1, <1>5, <2>2, <3>1 DEF BlocksInv, InOrder
        <4> QED
          BY <1>8, <1>9, <1>10, <3>1, <4>1
      <3>2. CASE d # c
        BY <1>1, <1>9, <1>10, <2>2, <3>2 DEF BlocksInv, InOrder, Conns
      <3> QED
        BY <3>1, <3>2
    <2> QED
      BY <1>14, <2>1, <2>2 DEF InOrder, Blocks
  <1> QED
    BY <1>9, <1>11, <1>12, <1>13, <1>14, <1>15 DEF TransferInv, BlocksInv

LEMMA RecvOfflineInv ==
  ASSUME TransferInv, NEW c \in Senders, Holds(c), owed[c] # <<>>, task.idx <= MaxBlocks,
         mode = "offline", task.state \in {"WaitingUpload", "Uploading"},
         AtOffset(task, Head(owed[c])), RecvOffline(c),
         UNCHANGED <<mode, self, blocks, created, shared, strayed>>
  PROVE  TransferInv'
  <1> DEFINE n == [task EXCEPT !.idx = @ + 1, !.state = "Uploading"]
             e == [n EXCEPT !.state = "UploadEnd"]
             file == IF disk = NoFile THEN <<>> ELSE disk
  <1>1. PtrInv /\ BlocksInv /\ c \in Conns /\ c \notin Receivers
    BY ConnsAssumption DEF TransferInv, Conns
  <1>2. /\ task \in Task /\ task # NoTask /\ created /\ blocks \in 0..MaxBlocks /\ blocks \in Nat
        /\ task.idx \in Nat
    BY <1>1, HolderFacts
  <1>3. Head(owed[c]) = task.idx /\ task.idx \in 0..MaxBlocks /\ task.idx + 1 \in 0..MaxBlocks + 1
    BY <1>2, BlocksAssumption DEF AtOffset
  <1>4. /\ disk' = Append(file, task.idx)
        /\ UNCHANGED <<client, got, undefined>>
        /\ IF n.idx = blocks THEN done' = done \union {c} /\ owed' = Answered(c) /\ Close(c, e)
           ELSE task' = n /\ owed' = AsksNext(c, n.idx) /\ UNCHANGED <<done, conn, ptr, reading>>
    BY <1>3 DEF RecvOffline
  <1>5. /\ n \in Task /\ n.state = "Uploading" /\ n.idx = task.idx + 1
        /\ n.from = task.from /\ n.to = task.to
        /\ e \in Task /\ e.state = "UploadEnd" /\ e.from = task.from /\ e.to = task.to
    BY <1>2, <1>3 DEF Task, States
  <1>6. file \in Seq(0..MaxBlocks) /\ Len(file) = task.idx /\ file = Blocks(file) /\ ~Complete
    <2>1. CASE task.state = "WaitingUpload"
      <3>1. disk = NoFile /\ task.idx = 0
        BY <1>1, <1>2, <2>1 DEF BlocksInv, Fresh, InStates
      <3> QED
        BY <3>1 DEF Complete, Blocks
    <2>2. CASE task.state = "Uploading"
      BY <1>1, <1>2, <2>2 DEF BlocksInv, DataTypes, UploadCounts, DiskInOrder, InStates, Complete
    <2> QED
      BY <2>1, <2>2
  <1> HIDE DEF n, e, file
  <1>7. disk' \in Seq(0..MaxBlocks) /\ Len(disk') = n.idx /\ disk' # NoFile /\ disk' = Blocks(disk')
    <2> DEFINE O == 0..MaxBlocks
    <2>1. file \in Seq(O) /\ Len(file) \in O /\ disk' = Append(file, Len(file))
      BY <1>3, <1>4, <1>6
    <2>2. O \subseteq Nat
      BY BlocksAssumption
    <2> HIDE DEF O
    <2>3. disk' \in Seq(O) /\ disk' = Blocks(disk') /\ Len(disk') = Len(file) + 1
      BY <1>6, <2>1, AppendBlocks
    <2>4. disk' \in Seq(Nat)
      BY <2>2, <2>3, SeqWidens
    <2>5. disk' # NoFile
      BY <2>4, BlocksAssumption
    <2> QED
      BY <1>5, <1>6, <2>3, <2>5 DEF O
  <1>8. /\ PtrInv'
        /\ task' = NoTask \/ (task' = n /\ n.idx # blocks)
        /\ done' \subseteq Conns
        /\ \A d \in done' : d \in done \/ (d = c /\ n.idx = blocks)
    <2>1. CASE n.idx = blocks
      BY <1>1, <1>4, <1>5, <2>1, ClosePtr DEF BlocksInv, DataTypes, PtrInv, PtrTypes
    <2>2. CASE n.idx # blocks
      BY <1>1, <1>4, <1>5, <2>2, KeepPtr DEF BlocksInv, DataTypes, PtrInv, PtrTypes
    <2> QED
      BY <2>1, <2>2
  <1>9. owed' \in [Conns -> Seq(0..MaxBlocks + 1)]
    <2> DEFINE P == 0..MaxBlocks + 1
    <2>1. owed \in [Conns -> Seq(P)] /\ n.idx \in P
      BY <1>1, <1>3, <1>5 DEF BlocksInv, DataTypes
    <2> HIDE DEF P
    <2>2. Tail(owed[c]) \in Seq(P) /\ owed[c] \in Seq(P)
      BY <1>1, <2>1
    <2>3. Answered(c) \in [Conns -> Seq(P)] /\ Answered(c)[c] = Tail(owed[c])
      BY <1>1, <2>1, <2>2 DEF Answered
    <2>4. AsksNext(c, n.idx) \in [Conns -> Seq(P)]
      <3>1. Append(Answered(c)[c], n.idx) \in Seq(P)
        BY <2>1, <2>2, <2>3
      <3> QED
        BY <1>1, <2>3, <3>1 DEF AsksNext
    <2>5. owed' = Answered(c) \/ owed' = AsksNext(c, n.idx)
      BY <1>4
    <2> QED
      BY <2>3, <2>4, <2>5 DEF P
  <1>10. DataTypes'
    BY <1>1, <1>4, <1>7, <1>8, <1>9 DEF BlocksInv, DataTypes
  <1>11. StatesOfMode' /\ BothThere' /\ OneAsked'
    BY <1>2, <1>5, <1>8 DEF StatesOfMode, OfflineStates, BothThere, OneAsked
  <1>12. Fresh' /\ UploadCounts' /\ DownloadsComplete' /\ DiskInOrder'
    BY <1>2, <1>5, <1>7, <1>8 DEF Fresh, UploadCounts, DownloadsComplete, DiskInOrder, InStates
  <1>13. InOrder'
    <2>1. ASSUME NEW d \in done', d \notin Receivers PROVE Complete'
      <3>1. d \notin done
        BY <1>1, <1>6, <2>1 DEF BlocksInv, InOrder
      <3>2. n.idx = blocks
        BY <1>8, <3>1
      <3> QED
        BY <1>7, <3>2 DEF Complete
    <2>2. ASSUME NEW d \in done', d \in Receivers PROVE Len(got'[d]) = blocks
      BY <1>1, <1>4, <1>8, <2>2 DEF BlocksInv, InOrder
    <2> QED
      BY <1>1, <1>4, <2>1, <2>2 DEF BlocksInv, InOrder
  <1> QED
    BY <1>8, <1>10, <1>11, <1>12, <1>13 DEF TransferInv, BlocksInv

-----------------------------------------------------------------------------
(* The specification *)

LEMMA InitTransfer == Init => TransferInv
  <1> SUFFICES ASSUME Init PROVE TransferInv
    OBVIOUS
  <1>1. PtrInv
    BY DEF Init, PtrInv, PtrTypes, HoldersOpen, ReaderClosed, PlacesByUser, SlotsLive, AloneInPlace, FreedOnlyWhenShared
  <1>2. DataTypes /\ StatesOfMode
    BY DEF Init, DataTypes, StatesOfMode
  <1>3. Fresh /\ UploadCounts /\ DiskInOrder /\ DownloadsComplete /\ BothThere /\ OneAsked
    BY DEF Init, Fresh, UploadCounts, DiskInOrder, DownloadsComplete, BothThere, OneAsked, InStates
  <1>4. InOrder
    <2>1. \A c \in Receivers : got[c] = <<>> /\ <<>> = [i \in 1..Len(got[c]) |-> i - 1]
      BY DEF Init, Conns
    <2> QED
      BY <2>1 DEF Init, InOrder
  <1> QED
    BY <1>1, <1>2, <1>3, <1>4 DEF TransferInv, BlocksInv

LEMMA PullReqInv ==
  ASSUME TransferInv, NEW c \in Conns, PullReq(c)
  PROVE  TransferInv'
  <1>1. /\ Holds(c) /\ c \in Receivers /\ client[c] = "ready" /\ Len(got[c]) < blocks
        /\ UNCHANGED <<mode, self, blocks, created, shared, strayed>> /\ mode \in Modes
        /\ UNCHANGED <<transferVars, historyVars>> /\ undefined \in BOOLEAN
    BY DEF PullReq, TransferInv, PtrInv, PtrTypes, transferVars, historyVars
  <1>2. CASE Refuse(c)
    BY <1>1, <1>2, CloseBlocks DEF Refuse
  <1>3. CASE ~Refuse(c) /\ mode = "online"
    <2>1. task.state \in Running /\ PullOnline(c)
      BY <1>3 DEF PullReq
    <2> QED
      BY <1>1, <1>3, <2>1, PullOnlineInv
  <1>4. CASE ~Refuse(c) /\ mode = "offline"
    <2>1. /\ Download(task).state = "Downloading" /\ AtOffset(Download(task), Len(got[c]))
          /\ disk # NoFile /\ Download(task).idx < Len(disk) /\ PullOffline(c)
      BY <1>4 DEF PullReq
    <2> QED
      BY <1>1, <1>4, <2>1, PullOfflineInv
  <1> QED
    BY <1>1, <1>2, <1>3, <1>4 DEF Modes

LEMMA PullRspInv ==
  ASSUME TransferInv, NEW c \in Conns, PullRsp(c)
  PROVE  TransferInv'
  <1>1. /\ Holds(c) /\ c \in Senders /\ owed[c] # <<>> /\ task.idx <= MaxBlocks
        /\ UNCHANGED <<mode, self, blocks, created, shared, strayed>> /\ mode \in Modes
        /\ UNCHANGED <<transferVars, historyVars>> /\ undefined \in BOOLEAN
    BY DEF PullRsp, TransferInv, PtrInv, PtrTypes, transferVars, historyVars
  <1>2. CASE Refuse(c)
    BY <1>1, <1>2, CloseBlocks DEF Refuse
  <1>3. CASE ~Refuse(c) /\ mode = "online"
    <2>1. task.state \in Running /\ RecvOnline(c)
      BY <1>3 DEF PullRsp
    <2> QED
      BY <1>1, <1>3, <2>1, RecvOnlineInv
  <1>4. CASE ~Refuse(c) /\ mode = "offline"
    <2>1. /\ task.state \in {"WaitingUpload", "Uploading"} /\ AtOffset(task, Head(owed[c])) /\ RecvOffline(c)
      BY <1>4 DEF PullRsp
    <2> QED
      BY <1>1, <1>4, <2>1, RecvOfflineInv
  <1> QED
    BY <1>1, <1>2, <1>3, <1>4 DEF Modes

LEMMA StepTransfer == TransferInv /\ [Next]_vars => TransferInv'
  <1> SUFFICES ASSUME TransferInv, [Next]_vars PROVE TransferInv'
    OBVIOUS
  <1> USE DEF TransferInv
  <1>1. CASE FileTransferReq
    BY <1>1, RequestPtr, RequestBlocks
  <1>2. ASSUME NEW c \in Conns, Login(c) \/ LateLogin(c) PROVE TransferInv'
    BY <1>2, LoginJoins, LateLoginJoins, JoinsBlocks
  <1>3. ASSUME NEW c \in Conns, LoginRefused(c) PROVE TransferInv'
    <2>1. UNCHANGED <<mode, self, blocks, created, task, disk, clientVars, shared>>
      BY <1>3 DEF LoginRefused, transferVars, historyVars
    <2> QED
      BY <1>3, <2>1, RefusedPtr, BlocksUnchanged
  <1>11. ASSUME NEW c \in Conns, LoginAlone(c) PROVE TransferInv'
    BY <1>11, LoginAloneBlocks
  <1>12. ASSUME NEW c \in Conns, LoginElsewhere(c) \/ LeaveElsewhere(c) \/ ReadEnd(c) PROVE TransferInv'
    <2>1. UNCHANGED <<mode, self, blocks, created, task, disk, clientVars, shared>>
      BY <1>12 DEF LoginElsewhere, LeaveElsewhere, ReadEnd, transferVars, historyVars
    <2> QED
      BY <1>12, <2>1, ElsewherePtr, LeaveElsewherePtr, ReadEndPtr, BlocksUnchanged
  <1>4. ASSUME NEW c \in Conns, PullReq(c) PROVE TransferInv'
    BY <1>4, PullReqInv
  <1>5. ASSUME NEW c \in Conns, PullRsp(c) PROVE TransferInv'
    BY <1>5, PullRspInv
  <1>6. ASSUME NEW c \in Conns, OpenFails(c) \/ Leave(c) \/ OnTimer(c) PROVE TransferInv'
    <2>1. /\ Holds(c) /\ Close(c, task) /\ undefined' \in BOOLEAN
          /\ UNCHANGED <<transferVars, disk, clientVars, historyVars>>
      BY <1>6 DEF OpenFails, Refuse, Leave, OnTimer, Deleted, PtrInv, PtrTypes
    <2> QED
      BY <2>1, CloseBlocks
  <1>7. ASSUME NEW c \in Conns, UseFreed(c) \/ CloseTwice(c) PROVE TransferInv'
    <2>1. /\ UNCHANGED <<mode, self, blocks, created, task, disk, conn, ptr, reading, clientVars, shared, strayed>>
          /\ undefined' = TRUE
      BY <1>7 DEF UseFreed, CloseTwice, transferVars, serverVars, historyVars
    <2> QED
      BY <2>1, SamePtr, BlocksUnchanged
  <1>8. CASE FileTaskTimer
    <2>1. /\ UNCHANGED <<mode, self, blocks, created, disk, conn, reading, clientVars, shared, strayed, undefined>>
          /\ ptr' = [c \in Conns |-> IF task' # NoTask THEN ptr[c] ELSE "none"]
          /\ task' = NoTask \/ UNCHANGED task
          /\ reading = NoConn
      BY <1>8 DEF FileTaskTimer, transferVars, historyVars, Idle
    <2>2. CASE task' = NoTask
      <3>1. ptr' = [c \in Conns |-> "none"]
        BY <2>1, <2>2
      <3>2. conn' \in [Conns -> {"idle", "open", "closed"}] /\ shared \in BOOLEAN
        BY <2>1 DEF PtrInv, PtrTypes
      <3> QED
        BY <2>1, <2>2, <3>1, <3>2, GonePtr, GoneBlocks
    <2>3. CASE task' # NoTask
      <3>1. UNCHANGED <<task, ptr>>
        BY <2>1, <2>3 DEF PtrInv, PtrTypes
      <3>2. undefined' \in BOOLEAN
        BY <2>1 DEF PtrInv, PtrTypes
      <3> QED
        BY <2>1, <3>1, <3>2, SamePtr, BlocksUnchanged
    <2> QED
      BY <2>2, <2>3
  <1>9. CASE Restart
    <2>1. /\ UNCHANGED <<mode, self, blocks, created, disk, reading, clientVars, shared, strayed, undefined>>
          /\ ptr' = [c \in Conns |-> "none"] /\ task' = NoTask /\ reading = NoConn
          /\ conn' = [c \in Conns |-> IF conn[c] = "open" THEN "closed" ELSE conn[c]]
      BY <1>9 DEF Restart, transferVars, historyVars, Idle
    <2>2. conn' \in [Conns -> {"idle", "open", "closed"}] /\ shared \in BOOLEAN
      BY <2>1 DEF PtrInv, PtrTypes
    <2> QED
      BY <2>1, <2>2, GonePtr, GoneBlocks
  <1>10. CASE UNCHANGED vars
    <2>1. UNCHANGED <<mode, self, blocks, created, task, disk, conn, ptr, reading, clientVars, shared, strayed, undefined>>
      BY <1>10 DEF vars, transferVars, serverVars, historyVars
    <2>2. undefined' \in BOOLEAN
      BY <2>1 DEF PtrInv, PtrTypes
    <2> QED
      BY <2>1, <2>2, SamePtr, BlocksUnchanged
  <1> QED
    BY <1>1, <1>2, <1>3, <1>4, <1>5, <1>6, <1>7, <1>8, <1>9, <1>10, <1>11, <1>12 DEF Next

LEMMA TransferAlways == Spec => []TransferInv
  BY InitTransfer, StepTransfer, PTL DEF Spec

\* Types of the variables, for any number of connections of the two users and any size of the file.
THEOREM FileTransferTypeOK == Spec => []TypeOK
  <1>1. TransferInv => TypeOK
    BY DEF TransferInv, PtrInv, PtrTypes, BlocksInv, DataTypes, TypeOK
  <1> QED
    BY TransferAlways, <1>1, PTL

\* What a task calls its connections are open connections that hold it, whoever logs in again,
\* closes or is timed out, and a task that has begun is held by a connection (SetConnByUserID,
\* DeleteTransferTaskByConnClose), but for what a login behind a close or to another task leaves.
THEOREM FileTransferSlotsLive == Spec => []SlotsLive
  <1>1. TransferInv => SlotsLive
    BY DEF TransferInv, PtrInv
  <1> QED
    BY TransferAlways, <1>1, PTL

\* As long as no login finds another connection in the place that it takes, as in every online
\* transfer to oneself, no order of closes, time-outs, later logins and restarts leaves a connection
\* with a deleted task.
THEOREM FileTransferFreedOnlyWhenShared == Spec => []FreedOnlyWhenShared
  <1>1. TransferInv => FreedOnlyWhenShared
    BY DEF TransferInv, PtrInv
  <1> QED
    BY TransferAlways, <1>1, PTL

\* What is offered for download is the whole file, for a file of any number of blocks, after any
\* number of interrupted uploads and restarts (LoadFromDisk, ChangePullState).
THEOREM FileTransferDownloadsComplete == Spec => []DownloadsComplete
  <1>1. TransferInv => DownloadsComplete
    BY DEF TransferInv, BlocksInv
  <1> QED
    BY TransferAlways, <1>1, PTL

\* A client is sent the blocks in order, each once, and told of the end only when it has all of
\* them (DoPullFileRequest, DoRecvData).
THEOREM FileTransferInOrder == Spec => []InOrder
  <1>1. TransferInv => InOrder
    BY DEF TransferInv, BlocksInv
  <1> QED
    BY TransferAlways, <1>1, PTL
=============================================================================
