--------------------------- MODULE FileTransfer ----------------------------
(***************************************************************************)
(* One task of the file_server, from the request of a msg_server to the    *)
(* last connection of its two users.                                       *)
(*                                                                         *)
(* An online task passes blocks from the sender to the receiver.  An       *)
(* offline task pulls them from the sender into a file, from which the     *)
(* receiver downloads them later, also after a restart of the server.      *)
(* Each client makes connections as it likes, and makes another one while  *)
(* the server has not noticed the end of the last, or uses one again for   *)
(* another task.  Connections hold the task by a bare pointer, and the task *)
(* its connections: what deleting the task leaves behind is "freed", and a *)
(* connection that the task still names is deleted at the end of the read  *)
(* that closed it, in which the pdus behind the closing one are handled.   *)
(***************************************************************************)
EXTENDS Integers, Sequences, FiniteSets

CONSTANTS
    Senders,      \* the connections that ever log in in the role of the sender, and
    Receivers,    \* the receiver, numbered in the order in which their client makes them
    NoConn,       \* a NULL from_conn_ or to_conn_
    NoTask,       \* no task of this id in transfer_tasks_
    NoFile,       \* no file of this id on the disk
    MaxBlocks,    \* bound: blocks of SEGMENT_SIZE of the file
    MaxAsked,     \* bound: requests that a client has not answered when it logs in
    MaxConns      \* bound: connections that the two clients make

Conns == Senders \union Receivers
Modes == {"online", "offline"}
States == {"Invalid", "Ready", "WaitingSender", "WaitingReceiver", "WaitingTransfer", "Transfering",
           "TransferDone", "WaitingUpload", "Uploading", "UploadEnd", "WaitingDownload", "Downloading"}

ASSUME ConnsAssumption ==
    Conns \subseteq Nat /\ Senders \intersect Receivers = {} /\ NoConn \notin Conns /\ IsFiniteSet(Conns)
ASSUME BoundAssumption == MaxAsked \in Nat /\ MaxConns \in Nat
ASSUME BlocksAssumption == MaxBlocks \in Nat /\ NoFile \notin Seq(Nat)

Task == [state : States, from : Conns \union {NoConn}, to : Receivers \union {NoConn}, idx : 0..MaxBlocks + 1]

ASSUME TaskAssumption == NoTask \notin Task

VARIABLES
    mode,         \* trans_mode of the task
    self,         \* whether from_user_id_ = to_user_id_, which nobody checks
    blocks,       \* sengment_size_: blocks of the file
    created,      \* whether the task has been asked for
    task,         \* the task: state_, from_conn_, to_conn_, transfered_idx_; or NoTask
    disk,         \* the blocks in the file, in the order they were written; or NoFile
    conn,         \* "idle", "open" or "closed", per connection
    ptr,          \* transfer_task_ of each connection: "none", "task", "freed" or "other"
    reading,      \* the connection that closed in a read of more pdus, until the read ends; or NoConn
    owed,         \* the offsets asked of each client and not yet answered
    client,       \* what each receiving client waits for: "start", "ready" or "data"
    got,          \* the blocks that each client has been sent
    done,         \* connections that were told CLIENT_FILE_DONE
    shared,       \* history: a login found another connection in the place it takes
    strayed,      \* history: connections that logged in behind their own close, or to another
                  \* task and not back again
    undefined     \* the server has used a freed task or a deleted connection

transferVars == <<mode, self, blocks, created>>
serverVars == <<task, disk, conn, ptr, reading>>
clientVars == <<owed, client, got, done>>
historyVars == <<shared, strayed>>
vars == <<transferVars, serverVars, clientVars, historyVars, undefined>>

Init ==
    /\ mode \in Modes
    /\ self \in BOOLEAN
    /\ blocks \in 0..MaxBlocks
    /\ created = FALSE
    /\ task = NoTask
    /\ disk = NoFile
    /\ conn = [c \in Conns |-> "idle"]
    /\ ptr = [c \in Conns |-> "none"]
    /\ reading = NoConn
    /\ owed = [c \in Conns |-> <<>>]
    /\ client = [c \in Conns |-> "start"]
    /\ got = [c \in Conns |-> <<>>]
    /\ done = {}
    /\ shared = FALSE
    /\ strayed = {}
    /\ undefined = FALSE

\* The event loop is between two events, and no pointer has led it astray.
Idle == ~undefined /\ reading = NoConn

\* c is an open connection with the task
Holds(c) == Idle /\ conn[c] = "open" /\ ptr[c] = "task"

NewTask(s) == [state |-> s, from |-> NoConn, to |-> NoConn, idx |-> 0]

\* A slip in the user: the places the other way round.
SetConnSwapped(t, c, v) == IF c \in Senders THEN [t EXCEPT !.to = v] ELSE [t EXCEPT !.from = v]

\* The user of c is from_user_id_, in a transfer to oneself in both roles.
IsFrom(c) == self \/ c \in Senders

\* SetConnByUserID
SetConn(t, c, v) == IF IsFrom(c) THEN [t EXCEPT !.from = v] ELSE [t EXCEPT !.to = v]

\* GetConnByUserID and GetOpponentConn
Place(t, c) == IF IsFrom(c) THEN t.from ELSE t.to
Opponent(t, c) == IF IsFrom(c) THEN t.to ELSE t.from

\* d is named by the task, and deleted.
Deleted(d) == d # NoConn /\ conn[d] = "closed"

\* Offsets are counted in blocks: the upload and the download are at block idx.
Complete == disk # NoFile /\ Len(disk) = blocks

-----------------------------------------------------------------------------
(* Closing a connection *)

\* The state that Close leaves the task in
ClosedState(t) ==
    IF mode = "online" THEN "Invalid"
    ELSE IF t.state \in {"UploadEnd", "WaitingDownload", "Downloading"} THEN "WaitingDownload"
    ELSE t.state

\* A slip in the test: the first connection to close takes the task with it.
DeletesAlways(t) == mode = "online" \/ t.state # "WaitingUpload"

\* DeleteTransferTaskByConnClose: whether the task is deleted
Deletes(t) ==
    IF mode = "online" THEN t.from = NoConn /\ t.to = NoConn ELSE t.state # "WaitingUpload"

\* A slip in the close: the task keeps the pointer to the connection.
KeepsConn(t, c) == [t EXCEPT !.state = ClosedState(t)]

\* What Close makes of the task of connection c
Released(t, c) == SetConn([t EXCEPT !.state = ClosedState(t)], c, NoConn)

\* Close of connection c, that holds task t, perhaps in a read of more pdus
Close(c, t) ==
    LET r == Released(t, c)
    IN  /\ task' = IF Deletes(r) THEN NoTask ELSE r
        /\ conn' = [conn EXCEPT ![c] = "closed"]
        /\ reading' \in {NoConn, c}
        /\ ptr' = [d \in Conns |-> IF d = c THEN "none"
                                   ELSE IF Deletes(r) /\ ptr[d] = "task" THEN "freed"
                                   ELSE ptr[d]]

-----------------------------------------------------------------------------
(* Making the task and logging in *)

\* _HandleMsgFileTransferReq: a task with a new id
FileTransferReq ==
    /\ Idle /\ ~created
    /\ created' = TRUE
    /\ task' = NewTask("Ready")
    /\ UNCHANGED <<mode, self, blocks, disk, conn, ptr, reading, clientVars, historyVars, undefined>>

\* ChangePullState: an invalid state is left as it is, and the login goes on, since rv is TRUE
\* from the check of the user before it.
ChangePullState(s, c) ==
    IF mode = "online"
    THEN CASE s = "Ready" /\ c \in Senders             -> "WaitingReceiver"
           [] s = "Ready" /\ c \in Receivers           -> "WaitingSender"
           [] s = "WaitingReceiver" /\ c \in Receivers -> "WaitingTransfer"
           [] s = "WaitingSender" /\ c \in Senders     -> "WaitingTransfer"
           [] OTHER                                    -> s
    ELSE CASE s = "Ready" /\ c \in Senders -> "WaitingUpload"
           [] s \in {"UploadEnd", "WaitingDownload"} /\ c \in Receivers -> "WaitingDownload"
           [] OTHER -> s

\* A slip in the load: the size of the file is not compared with its header.
LoadsAnyFile(c) == mode = "offline" /\ c \in Receivers /\ disk # NoFile

\* LoadFromDisk: a download finds its task in the file when the server has forgotten it.
Loads(c) == mode = "offline" /\ c \in Receivers /\ Complete

\* The task that a login finds or loads
Found == IF task = NoTask THEN NewTask("WaitingDownload") ELSE task

\* What a login of c makes of it
LoggedIn(c) == SetConn([Found EXCEPT !.state = ChangePullState(Found.state, c)], c, c)

\* Another connection is in the place that a login of c takes.
FindsAnother(c) ==
    \/ Place(Found, c) \notin {NoConn, c}
    \/ \E d \in Conns \ {c} : ptr[d] = "task" /\ (mode = "offline" \/ (d \in Senders <=> c \in Senders))

\* Both sides of an online task are there: the receiver is told that it may start.
Starts(t) == mode = "online" /\ t.state = "WaitingTransfer"

Told(t) ==
    IF Starts(t) /\ t.to # NoConn /\ client[t.to] = "start" THEN [client EXCEPT ![t.to] = "ready"] ELSE client

Connects(c) ==
    /\ Idle /\ created
    /\ \/ conn[c] = "open"
       \/ /\ conn[c] = "idle" /\ Cardinality({d \in Conns : conn[d] # "idle"}) < MaxConns
          /\ \A d \in Conns : d < c /\ (d \in Senders <=> c \in Senders) => conn[d] # "idle"

\* _HandleClientFileLoginReq with a task, on a connection that is new or has logged in before:
\* the place in the task that it had then is not cleared.
Login(c) ==
    LET r == LoggedIn(c)
    IN  /\ Connects(c) /\ Len(owed[c]) < MaxAsked
        /\ task # NoTask \/ Loads(c)
        /\ ~(Starts(r) /\ r.to = NoConn)
        /\ shared' = (shared \/ FindsAnother(c))
        /\ strayed' = strayed \ {c}
        /\ task' = r
        /\ conn' = [conn EXCEPT ![c] = "open"]
        /\ ptr' = [ptr EXCEPT ![c] = "task"]
        \* an upload is asked for its first block
        /\ owed' = IF mode = "offline" /\ r.state = "WaitingUpload"
                   THEN [owed EXCEPT ![c] = Append(@, 0)] ELSE owed
        /\ client' = IF mode = "offline" THEN [client EXCEPT ![c] = "ready"] ELSE Told(r)
        /\ undefined' = (Starts(r) /\ r.to # c /\ Deleted(r.to))
        /\ UNCHANGED <<transferVars, disk, reading, got, done>>

\* The login that finds no receiver's connection closes its own again.
LoginAlone(c) ==
    LET r == LoggedIn(c)
    IN  /\ Connects(c) /\ task # NoTask
        /\ Starts(r) /\ r.to = NoConn
        /\ shared' = (shared \/ FindsAnother(c))
        /\ strayed' = strayed \ {c}
        /\ Close(c, r)
        /\ UNCHANGED <<transferVars, disk, clientVars, undefined>>

\* _HandleClientFileLoginReq without a task: refused and closed
LoginRefused(c) ==
    /\ Connects(c) /\ conn[c] = "idle"
    /\ task = NoTask /\ ~Loads(c)
    /\ conn' = [conn EXCEPT ![c] = "closed"]
    /\ reading' \in {NoConn, c}
    /\ UNCHANGED <<transferVars, task, disk, ptr, clientVars, historyVars, undefined>>

\* A connection logs in to another task, which takes the place of this one in transfer_task_.
LoginElsewhere(c) ==
    /\ Idle /\ conn[c] = "open" /\ ptr[c] # "other"
    /\ ptr' = [ptr EXCEPT ![c] = "other"]
    /\ strayed' = strayed \union {c}
    /\ UNCHANGED <<transferVars, task, disk, conn, reading, clientVars, shared, undefined>>

\* A login behind the pdu that closed the connection: what is sent to it is lost.
LateLogin(c) ==
    LET r == LoggedIn(c)
    IN  /\ ~undefined /\ reading = c
        /\ task # NoTask \/ Loads(c)
        /\ ~(Starts(r) /\ r.to = NoConn)
        /\ shared' = (shared \/ FindsAnother(c))
        /\ strayed' = strayed \union {c}
        /\ task' = r
        /\ ptr' = [ptr EXCEPT ![c] = "task"]
        /\ client' = IF r.to # c THEN Told(r) ELSE client
        /\ undefined' = (Starts(r) /\ r.to # c /\ Deleted(r.to))
        /\ UNCHANGED <<transferVars, disk, conn, reading, owed, got, done>>

\* Close again in the same read, as of a login that is refused: the connection is deleted while
\* OnRead goes on with it.
CloseTwice(c) ==
    /\ ~undefined /\ reading = c
    /\ undefined' = TRUE
    /\ UNCHANGED <<transferVars, serverVars, clientVars, historyVars>>

\* The read ends, and the connection is deleted with what it holds.
ReadEnd(c) ==
    /\ ~undefined /\ reading = c
    /\ reading' = NoConn
    /\ ptr' = [ptr EXCEPT ![c] = "none"]
    /\ UNCHANGED <<transferVars, task, disk, conn, clientVars, historyVars, undefined>>

-----------------------------------------------------------------------------
(* Passing the blocks *)

Running == {"WaitingTransfer", "Transfering"}

\* A pdu that its handler refuses: the connection is closed.
Refuse(c) == Close(c, task) /\ UNCHANGED <<disk, clientVars, undefined>>

\* DoPullFileRequest, online: the request is passed on to the sender's connection.
PullOnline(c) ==
    /\ task' = [task EXCEPT !.state = "Transfering"]
    /\ owed' = IF task.from = NoConn THEN owed
               ELSE [owed EXCEPT ![task.from] = Append(@, Len(got[c]))]
    /\ client' = [client EXCEPT ![c] = "data"]
    /\ undefined' = Deleted(task.from)
    /\ UNCHANGED <<disk, conn, ptr, reading, got, done>>

\* The download that a request is part of: the first one opens the file anew
Download(t) == IF t.state = "WaitingDownload" THEN [t EXCEPT !.state = "Downloading", !.idx = 0] ELSE t

\* A slip in the request: the offset is not compared.
AnyOffset(t, offset) == t.state \in {"Downloading", "WaitingUpload", "Uploading"}

\* A block is only taken or given at the offset that the task has arrived at.
AtOffset(t, offset) == t.state \in {"Downloading", "WaitingUpload", "Uploading"} /\ offset = t.idx

\* DoPullFileRequest, offline: a block of the file; after the last one the connection is closed.
PullOffline(c) ==
    LET t == Download(task)
        n == [t EXCEPT !.idx = @ + 1]
    IN  /\ got' = [got EXCEPT ![c] = Append(@, disk[t.idx + 1])]
        /\ IF n.idx = blocks
           THEN done' = done \union {c} /\ Close(c, [n EXCEPT !.state = "UploadEnd"])
           ELSE task' = n /\ UNCHANGED <<done, conn, ptr, reading>>
        /\ UNCHANGED <<disk, owed, client, undefined>>

\* _HandleClientFilePullFileReq: a receiver asks for the blocks in order, each when it has the
\* one before.
PullReq(c) ==
    /\ Holds(c) /\ c \in Receivers
    /\ client[c] = "ready" /\ Len(got[c]) < blocks
    /\ IF mode = "online"
       THEN IF task.state \in Running THEN PullOnline(c) ELSE Refuse(c)
       ELSE IF /\ Download(task).state = "Downloading"
               /\ AtOffset(Download(task), Len(got[c])) /\ disk # NoFile /\ Download(task).idx < Len(disk)
            THEN PullOffline(c) ELSE Refuse(c)
    /\ UNCHANGED <<transferVars, historyVars>>

Answered(c) == [owed EXCEPT ![c] = Tail(@)]

\* A slip after a block: the next one is not asked for.
AsksNoMore(c, offset) == Answered(c)

\* The request for the next block of an upload
AsksNext(c, offset) == [Answered(c) EXCEPT ![c] = Append(@, offset)]

\* DoRecvData, online: the block is passed on to the receiver's connection.
RecvOnline(c) ==
    LET r == task.to
    IN  /\ task' = [task EXCEPT !.state = "Transfering"]
        /\ owed' = Answered(c)
        /\ got' = IF r = NoConn THEN got ELSE [got EXCEPT ![r] = Append(@, Head(owed[c]))]
        /\ client' = IF r # NoConn /\ client[r] = "data" THEN [client EXCEPT ![r] = "ready"] ELSE client
        /\ undefined' = Deleted(r)
        /\ UNCHANGED <<disk, conn, ptr, reading, done>>

\* DoRecvData, offline: the block is written to the file, after the header if it is the first,
\* and the next one asked for; after the last one the connection is closed.
RecvOffline(c) ==
    LET n == [task EXCEPT !.idx = @ + 1, !.state = "Uploading"]
    IN  /\ disk' = Append(IF disk = NoFile THEN <<>> ELSE disk, Head(owed[c]))
        /\ IF n.idx = blocks
           THEN /\ done' = done \union {c} /\ owed' = Answered(c)
                /\ Close(c, [n EXCEPT !.state = "UploadEnd"])
           ELSE /\ task' = n /\ owed' = AsksNext(c, n.idx)
                /\ UNCHANGED <<done, conn, ptr, reading>>
        /\ UNCHANGED <<client, got, undefined>>

\* _HandleClientFilePullFileRsp: a sender answers what it was asked.
PullRsp(c) ==
    /\ Holds(c) /\ c \in Senders
    /\ owed[c] # <<>> /\ task.idx <= MaxBlocks
    /\ IF mode = "online"
       THEN IF task.state \in Running THEN RecvOnline(c) ELSE Refuse(c)
       ELSE IF task.state \in {"WaitingUpload", "Uploading"} /\ AtOffset(task, Head(owed[c]))
            THEN RecvOffline(c) ELSE Refuse(c)
    /\ UNCHANGED <<transferVars, historyVars>>

\* OpenByWrite fails at the first block of an upload.
OpenFails(c) ==
    /\ Holds(c) /\ c \in Senders
    /\ mode = "offline" /\ task.state = "WaitingUpload" /\ owed[c] # <<>>
    /\ Refuse(c)
    /\ UNCHANGED <<transferVars, historyVars>>

-----------------------------------------------------------------------------
(* Ends *)

\* The client closes, falls silent for CLIENT_TIMEOUT, or sends that it is done, cancels or
\* refuses (_HandleClientFileStates, that passes it on to the other connection).
Leave(c) ==
    /\ Holds(c)
    /\ Close(c, task)
    /\ undefined' \in {FALSE, Deleted(Opponent(task, c))}
    /\ UNCHANGED <<transferVars, disk, clientVars, historyVars>>

\* The same of a connection that has gone to another task: this one keeps its pointer.
LeaveElsewhere(c) ==
    /\ Idle /\ conn[c] = "open" /\ ptr[c] = "other"
    /\ conn' = [conn EXCEPT ![c] = "closed"]
    /\ reading' \in {NoConn, c}
    /\ ptr' = [ptr EXCEPT ![c] = "none"]
    /\ UNCHANGED <<transferVars, task, disk, clientVars, historyVars, undefined>>

\* A slip in the timer: the wrong kind of task.
OnTimerOffline(c) ==
    /\ Holds(c) /\ mode = "offline" /\ task.state = "Invalid"
    /\ Close(c, task) /\ reading' = NoConn
    /\ UNCHANGED <<transferVars, disk, clientVars, historyVars, undefined>>

\* OnTimer: the other side of an online task has closed
OnTimer(c) ==
    /\ Holds(c) /\ mode = "online" /\ task.state = "Invalid"
    /\ Close(c, task) /\ reading' = NoConn
    /\ UNCHANGED <<transferVars, disk, clientVars, historyVars, undefined>>

\* TransferTaskManager::OnTimer looks for old tasks in a state that none gets into.
FileTaskTimer ==
    /\ Idle /\ task # NoTask
    /\ task' = IF task.state # "WaitingUpload" /\ task.state = "TransferDone" THEN NoTask ELSE task
    /\ ptr' = [c \in Conns |-> IF task' # NoTask THEN ptr[c] ELSE "none"]
    /\ UNCHANGED <<transferVars, disk, conn, reading, clientVars, historyVars, undefined>>

\* A connection whose task was deleted is used, by its timer at the latest: what comes of it is
\* undefined, and the model ends here.
UseFreed(c) ==
    /\ Idle /\ conn[c] = "open" /\ ptr[c] = "freed"
    /\ undefined' = TRUE
    /\ UNCHANGED <<transferVars, serverVars, clientVars, historyVars>>

\* The file_server restarts: the files remain.
Restart ==
    /\ Idle /\ created
    /\ task # NoTask \/ \E c \in Conns : conn[c] = "open"
    /\ task' = NoTask
    /\ conn' = [c \in Conns |-> IF conn[c] = "open" THEN "closed" ELSE conn[c]]
    /\ ptr' = [c \in Conns |-> "none"]
    /\ UNCHANGED <<transferVars, disk, reading, clientVars, historyVars, undefined>>

Next ==
    \/ FileTransferReq
    \/ \E c \in Conns :
          \/ Login(c) \/ LoginAlone(c) \/ LoginRefused(c) \/ LoginElsewhere(c)
          \/ LateLogin(c) \/ CloseTwice(c) \/ ReadEnd(c)
          \/ PullReq(c) \/ PullRsp(c) \/ OpenFails(c)
          \/ Leave(c) \/ LeaveElsewhere(c) \/ OnTimer(c) \/ UseFreed(c)
    \/ FileTaskTimer
    \/ Restart

\* A read ends, the timer goes round, and a client answers what it is asked or its connection ends.
Fairness ==
    \A c \in Conns :
        /\ WF_vars(ReadEnd(c)) /\ WF_vars(OnTimer(c))
        /\ WF_vars(owed[c] # <<>> /\ (PullRsp(c) \/ OpenFails(c) \/ Leave(c)))

Spec == Init /\ [][Next]_vars
FairSpec == Spec /\ Fairness

-----------------------------------------------------------------------------
(* Properties *)

TypeOK ==
    /\ mode \in Modes /\ blocks \in 0..MaxBlocks
    /\ self \in BOOLEAN /\ created \in BOOLEAN /\ shared \in BOOLEAN /\ undefined \in BOOLEAN
    /\ strayed \subseteq Conns /\ reading \in Conns \union {NoConn}
    /\ task \in Task \union {NoTask}
    /\ disk = NoFile \/ disk \in Seq(0..MaxBlocks)
    /\ conn \in [Conns -> {"idle", "open", "closed"}]
    /\ ptr \in [Conns -> {"none", "task", "freed", "other"}]
    /\ owed \in [Conns -> Seq(0..MaxBlocks + 1)]
    /\ client \in [Conns -> {"start", "ready", "data"}]
    /\ got \in [Conns -> Seq(0..MaxBlocks)]
    /\ done \subseteq Conns

\* What the task calls its connections are open connections that hold it, so that no block or
\* notice is sent to a deleted one (from_conn_, to_conn_), but for those that logged in behind
\* their own close, or to another task since.  And a task remains only while a connection holds
\* it or before its first block, if none has gone astray so: what no client ever comes for stays
\* until the server ends.
SlotsLive ==
    task # NoTask =>
        /\ \A c \in {task.from, task.to} \ {NoConn} :
              c \in strayed \/ (conn[c] = "open" /\ ptr[c] = "task")
        /\ \/ task.state \in {"Ready", "WaitingUpload"}
           \/ \E c \in Conns : ptr[c] = "task"
           \/ strayed # {}

\* A connection is left with a deleted task only when a login found another connection in the
\* place it took.  In a transfer between two users where each side logs in once and an offline
\* receiver waits for the end of the upload, no order of closes, time-outs and restarts does so.
\* In an online transfer to oneself any order does: both roles have from_conn_ for their place.
FreedOnlyWhenShared == (\E c \in Conns : ptr[c] = "freed") => shared

\* What is offered for download is the whole file, after any interrupted upload and restart.
DownloadsComplete ==
    task # NoTask /\ task.state \in {"UploadEnd", "WaitingDownload", "Downloading"} => Complete

\* A client gets the blocks in order, each once, and is told that the file is done only when all
\* of it has been downloaded or written.
InOrder ==
    /\ mode = "offline" \/ ~shared => \A c \in Receivers : got[c] = [i \in 1..Len(got[c]) |-> i - 1]
    /\ \A c \in done : IF c \in Receivers THEN Len(got[c]) = blocks ELSE Complete

\* When a connection of an online task closes, the other one does not wait for ever, unless the
\* first had gone to another task.
PeerLeaves ==
    \A c, d \in Conns :
        (mode = "online" /\ conn[c] = "closed" /\ c \notin strayed /\ Holds(d)) ~> ~Holds(d)

\* An upload ends, with the whole file or with its connection, unless one goes to another task
\* before (and not that of an empty file, which goes on asking for blocks).
UploadEnds ==
    (blocks > 0 /\ task # NoTask /\ task.state = "Uploading")
        ~> (task = NoTask \/ strayed # {} \/ undefined)
=============================================================================
