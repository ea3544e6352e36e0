---------------------------- MODULE MessageStore ----------------------------
(***************************************************************************)
(* What the requests about messages between two users do to the database   *)
(* and the cache: IMRecentSession (a row for each user and peer, shown or  *)
(* removed), IMRelationShip (a row for each pair), the messages, and in    *)
(* redis the last message id of a relation and the unread counts.          *)
(*                                                                         *)
(* The worker threads run their requests at the same time, one statement   *)
(* after the other and none in a transaction, and neither table has a      *)
(* unique key.  An action is one statement; any of them may fail, and what *)
(* the code makes of it is to go on in one way or the other.  In DbProxy,  *)
(* the same requests are what they do with the connection pools.           *)
(***************************************************************************)
EXTENDS Integers, Sequences, FiniteSetsExt

CONSTANTS
    Workers,
    Users,
    Requests,      \* those that occur: kind, user and peer
    ErrId,         \* the -1 of a failed incrBy, as the uint32_t of a message id
    None,          \* no request
    MaxRequests,   \* bound: requests ever taken
    MaxFaults      \* bound: statements that ever fail

Sendings == {"text", "audio"}
Kinds == Sendings \cup {"remove", "read"}

ASSUME RequestsAssumption ==
    Requests \subseteq {r \in [kind : Kinds, user : Users, peer : Users] : r.user # r.peer}
ASSUME BoundAssumption == MaxRequests \in Nat /\ MaxFaults \in Nat
ASSUME ErrIdAssumption == ErrId \in Nat

VARIABLES
    sess,       \* IMRecentSession, by row id
    rels,       \* IMRelationShip, by row id: the pair of users
    counter,    \* redis msg_id_<relation>, by row id; 0 for a key that is not there
    unread,     \* redis unread_<user>, field <peer>
    messages,   \* IMMessage_<n>, each with the number of its request
    local,      \* what each worker is doing
    requests,   \* the number of requests taken
    faults,     \* the number of statements that failed
    raced,      \* history: keys of which two workers found no row at the same time, or one that
                \* could not look made one
    early       \* history: relations of which an id was taken before the counter was reset

tables == <<sess, rels, messages>>
cache == <<counter, unread>>
vars == <<tables, cache, local, requests, faults, raced, early>>

Pcs == {"idle", "own", "own_look", "own_add", "peer", "peer_look", "peer_add",
        "rel", "rel_look", "rel_add", "reset", "id", "save", "insert", "count",
        "find", "hide", "clear", "answer"}

\* session, rel and id are nSessionId, nRelateId and nMsgId; found is the row that the last look
\* returned, blind whether it failed; failed and over are histories: which steps failed, and
\* whether the receiver removed the session or read its messages meanwhile.
Local == [request : Requests, number : 1..MaxRequests, pc : Pcs, session : Nat, found : Nat,
          blind : BOOLEAN, rel : Nat, id : Nat, failed : SUBSET {"save", "insert", "count"},
          over : BOOLEAN]

ASSUME NoneAssumption == None \notin Local

Init ==
    /\ sess = <<>> /\ rels = <<>>
    /\ counter = <<>>
    /\ unread = [k \in Users \X Users |-> 0]
    /\ messages = {}
    /\ local = [w \in Workers |-> None]
    /\ requests = 0 /\ faults = 0
    /\ raced = {} /\ early = {}

-----------------------------------------------------------------------------
(* Helpers *)

At(w, pc) == local[w] # None /\ local[w].pc = pc

Outcome(works) ==
    IF works THEN UNCHANGED faults
    ELSE faults < MaxFaults /\ faults' = faults + 1

From(w) == local[w].request.user
To(w) == local[w].request.peer
Own(w) == <<From(w), To(w)>>       \* the sender's session with the receiver
Peer(w) == <<To(w), From(w)>>      \* and the receiver's with the sender
Pair(w) == {From(w), To(w)}

SessRows(key) == {i \in DOMAIN sess : sess[i].user = key[1] /\ sess[i].peer = key[2]}
ShownRows(key) == {i \in SessRows(key) : sess[i].shown}
RelRows(pair) == {i \in DOMAIN rels : rels[i] = pair}

\* The last row of a result, which a loop over it ends with; 0 for an empty one
LastRow(rows) == IF rows = {} THEN 0 ELSE Max(rows)
FirstRow(rows) == IF rows = {} THEN 0 ELSE Min(rows)

\* The key that a worker is about to add a row for, having found none
Adding(w) ==
    IF local[w] = None \/ local[w].found # 0 THEN <<>>
    ELSE CASE local[w].pc = "own_add" -> Own(w)
           [] local[w].pc = "peer_add" -> Peer(w)
           [] local[w].pc = "rel_add" -> <<Pair(w)>>
           [] OTHER -> <<>>

NoteRace(w) ==
    raced' = IF local[w].blind \/ \E v \in Workers \ {w} : Adding(v) = Adding(w)
             THEN raced \cup {Adding(w)} ELSE raced

Goes(w, pc) == local' = [local EXCEPT ![w].pc = pc]

-----------------------------------------------------------------------------
(* A worker takes a request and ends with its answer *)

Take(w, r) ==
    /\ local[w] = None /\ requests < MaxRequests
    /\ requests' = requests + 1
    /\ local' = [local EXCEPT ![w] =
                   [request |-> r, number |-> requests + 1, session |-> 0, found |-> 0,
                    blind |-> FALSE, rel |-> 0, id |-> 0, failed |-> {}, over |-> FALSE,
                    pc |-> CASE r.kind \in Sendings -> "own"
                             [] r.kind = "remove" -> "find"
                             [] r.kind = "read" -> "clear"]]
    /\ UNCHANGED <<tables, cache, faults, raced, early>>

Answer(w) ==
    /\ At(w, "answer")
    /\ local' = [local EXCEPT ![w] = None]
    /\ UNCHANGED <<tables, cache, requests, faults, raced, early>>

-----------------------------------------------------------------------------
(* Sessions *)

\* getSessionId of the sender's session, removed ones left out
FindOwn(w, works) ==
    /\ At(w, "own") /\ Outcome(works)
    /\ LET row == IF works THEN LastRow(ShownRows(Own(w))) ELSE 0
       IN local' = [local EXCEPT ![w].session = row,
                                 ![w].pc = IF row # 0 THEN "peer" ELSE "own_look"]
    /\ UNCHANGED <<tables, cache, requests, raced, early>>

\* and of the receiver's
FindPeer(w, works) ==
    /\ At(w, "peer") /\ Outcome(works)
    /\ Goes(w, IF works /\ ShownRows(Peer(w)) # {} THEN "rel" ELSE "peer_look")
    /\ UNCHANGED <<tables, cache, requests, raced, early>>

\* A slip in the look: it is for the shown rows again.
LookShown(w, pc, key, next, works) ==
    /\ At(w, pc) /\ Outcome(works)
    /\ local' = [local EXCEPT ![w].found = IF works THEN LastRow(ShownRows(key)) ELSE 0,
                              ![w].blind = ~works, ![w].pc = next]
    /\ UNCHANGED <<tables, cache, requests, raced, early>>

\* addSession looks for a row of any status
Look(w, pc, key, next, works) ==
    /\ At(w, pc) /\ Outcome(works)
    /\ local' = [local EXCEPT ![w].found = IF works THEN LastRow(SessRows(key)) ELSE 0,
                              ![w].blind = ~works, ![w].pc = next]
    /\ UNCHANGED <<tables, cache, requests, raced, early>>

\* A slip in the update: it leaves the status as it is.
AddTimeOnly(w, pc, key, next, works) ==
    /\ At(w, pc) /\ Outcome(works)
    /\ LET old == local[w].found
       IN /\ sess' = CASE ~works \/ old # 0 -> sess
                       [] OTHER -> Append(sess, [user |-> key[1], peer |-> key[2], shown |-> TRUE])
          /\ local' = [local EXCEPT ![w].session = CASE ~works -> 0
                                                     [] works /\ old # 0 -> old
                                                     [] OTHER -> Len(sess) + 1,
                                    ![w].pc = next]
          /\ IF works /\ old = 0 THEN NoteRace(w) ELSE UNCHANGED raced
    /\ UNCHANGED <<rels, messages, cache, requests, early>>

\* A slip in the insert: its id is asked for though it failed.
AddUnchecked(w, pc, key, next, works) ==
    /\ At(w, pc) /\ Outcome(works)
    /\ LET old == local[w].found
       IN /\ sess' = CASE ~works -> sess
                       [] works /\ old # 0 -> [sess EXCEPT ![old].shown = TRUE]
                       [] OTHER -> Append(sess, [user |-> key[1], peer |-> key[2], shown |-> TRUE])
          /\ local' = [local EXCEPT ![w].session = IF old # 0 THEN old ELSE Len(sess) + 1,
                                    ![w].pc = next]
          /\ IF works /\ old = 0 THEN NoteRace(w) ELSE UNCHANGED raced
    /\ UNCHANGED <<rels, messages, cache, requests, early>>

\* and shows it, or makes one.  sendMessage puts the result into nSessionId, for the sender's
\* session and the receiver's alike.
Add(w, pc, key, next, works) ==
    /\ At(w, pc) /\ Outcome(works)
    /\ LET old == local[w].found
       IN /\ sess' = CASE ~works -> sess
                       [] works /\ old # 0 -> [sess EXCEPT ![old].shown = TRUE]
                       [] OTHER -> Append(sess, [user |-> key[1], peer |-> key[2], shown |-> TRUE])
          /\ local' = [local EXCEPT ![w].session = CASE ~works -> 0
                                                     [] works /\ old # 0 -> old
                                                     [] OTHER -> Len(sess) + 1,
                                    ![w].pc = next]
          /\ IF works /\ old = 0 THEN NoteRace(w) ELSE UNCHANGED raced
    /\ UNCHANGED <<rels, messages, cache, requests, early>>

-----------------------------------------------------------------------------
(* The relation of the two users and its message ids *)

\* getRelationId: a query that fails finds nothing, and without a connection nothing is added
FindRelation(w, works) ==
    /\ At(w, "rel") /\ Outcome(works)
    /\ LET row == IF works THEN LastRow(RelRows(Pair(w))) ELSE 0
       IN \/ local' = [local EXCEPT ![w].rel = row, ![w].pc = IF row # 0 THEN "id" ELSE "rel_look"]
          \/ ~works /\ Goes(w, "id")
    /\ UNCHANGED <<tables, cache, requests, raced, early>>

\* addRelation: the first row of the pair
LookRelation(w, works) ==
    /\ At(w, "rel_look") /\ Outcome(works)
    /\ local' = [local EXCEPT ![w].found = IF works THEN FirstRow(RelRows(Pair(w))) ELSE 0,
                              ![w].blind = ~works, ![w].pc = "rel_add"]
    /\ UNCHANGED <<tables, cache, requests, raced, early>>

\* A slip in the end of addRelation: the ids start again for a relation that was found as well.
ResetsAlways(found) == TRUE

\* Only the relation that was inserted has its ids reset
ResetsIds(found) == found = 0

\* and takes that or inserts one
AddRelation(w, works) ==
    /\ At(w, "rel_add") /\ Outcome(works)
    /\ LET old == local[w].found
           row == CASE ~works -> 0
                    [] works /\ old # 0 -> old
                    [] OTHER -> Len(rels) + 1
       IN /\ IF works /\ old = 0
             THEN rels' = Append(rels, Pair(w)) /\ counter' = Append(counter, 0)
             ELSE UNCHANGED <<rels, counter>>
          /\ local' = [local EXCEPT ![w].rel = row,
                                    ![w].pc = IF works /\ ResetsIds(old) THEN "reset" ELSE "id"]
          /\ IF works /\ old = 0 THEN NoteRace(w) ELSE UNCHANGED raced
    /\ UNCHANGED <<sess, messages, unread, requests, early>>

\* resetMsgId, after the row is there for everybody
Reset(w, works) ==
    /\ At(w, "reset") /\ Outcome(works)
    /\ counter' = IF works THEN [counter EXCEPT ![local[w].rel] = 0] ELSE counter
    /\ Goes(w, "id")
    /\ UNCHANGED <<tables, unread, requests, raced, early>>

\* What a message goes on with once it has its id
Stores(w) == IF local[w].request.kind = "text" THEN "insert" ELSE "save"

\* getMsgId, with a session and a relation
GetMsgId(w) ==
    /\ At(w, "id") /\ local[w].session # 0 /\ local[w].rel # 0
    /\ LET rel == local[w].rel
       IN \/ /\ Outcome(TRUE)
             /\ counter' = [counter EXCEPT ![rel] = @ + 1]
             /\ local' = [local EXCEPT ![w].id = counter[rel] + 1, ![w].pc = Stores(w)]
             /\ early' = IF \E v \in Workers : At(v, "reset") /\ local[v].rel = rel
                         THEN early \cup {rel} ELSE early
          \/ /\ Outcome(FALSE)
             /\ \/ local' = [local EXCEPT ![w].id = ErrId, ![w].pc = Stores(w)]
                \/ Goes(w, "answer")
             /\ UNCHANGED <<counter, early>>
    /\ UNCHANGED <<tables, unread, requests, raced>>

\* Without them, the answer has id 0
NoMsgId(w) ==
    /\ At(w, "id") /\ (local[w].session = 0 \/ local[w].rel = 0)
    /\ Goes(w, "answer")
    /\ UNCHANGED <<tables, cache, requests, faults, raced, early>>

-----------------------------------------------------------------------------
(* The message *)

\* sendAudioMessage: of four bytes at most, with nothing after the duration, an audio message is
\* turned away; nobody looks at the result
SkipAudio(w) ==
    /\ At(w, "save")
    /\ local' = [local EXCEPT ![w].failed = @ \cup {"save"}, ![w].pc = "answer"]
    /\ UNCHANGED <<tables, cache, requests, faults, raced, early>>

\* saveAudioInfo: the upload to the file site and the row in IMAudio
SaveAudio(w, works) ==
    /\ At(w, "save") /\ Outcome(works)
    /\ local' = [local EXCEPT ![w].failed = IF works THEN @ ELSE @ \cup {"save"},
                              ![w].pc = IF works THEN "insert" ELSE "answer"]
    /\ UNCHANGED <<tables, cache, requests, raced, early>>

\* CMessageModel::sendMessage; nobody looks at its result
Insert(w, works) ==
    /\ At(w, "insert") /\ Outcome(works)
    /\ messages' = IF works
                   THEN messages \cup {[rel |-> local[w].rel, id |-> local[w].id,
                                        number |-> local[w].number]}
                   ELSE messages
    /\ local' = [local EXCEPT ![w].failed = IF works THEN @ ELSE @ \cup {"insert"},
                              ![w].pc = IF works THEN "count" ELSE "answer"]
    /\ UNCHANGED <<sess, rels, cache, requests, raced, early>>

\* incMsgCount
Count(w, works) ==
    /\ At(w, "count") /\ Outcome(works)
    /\ unread' = IF works THEN [unread EXCEPT ![Peer(w)] = @ + 1] ELSE unread
    /\ local' = [local EXCEPT ![w].failed = IF works THEN @ ELSE @ \cup {"count"},
                              ![w].pc = "answer"]
    /\ UNCHANGED <<tables, counter, requests, raced, early>>

-----------------------------------------------------------------------------
(* The receiver removes the session or reads its messages *)

\* deleteRecentSession: getSessionId
FindRemoved(w, works) ==
    /\ At(w, "find") /\ Outcome(works)
    /\ LET row == IF works THEN LastRow(ShownRows(Own(w))) ELSE 0
       IN local' = [local EXCEPT ![w].session = row,
                                 ![w].pc = IF row # 0 THEN "hide" ELSE "answer"]
    /\ UNCHANGED <<tables, cache, requests, raced, early>>

\* What is sent to the user of worker w by its peer at this moment is over with
GoesOver(w, pc) ==
    local' = [v \in Workers |->
                CASE v = w -> [local[w] EXCEPT !.pc = pc]
                  [] local[v] # None /\ local[v].request.kind \in Sendings /\ Peer(v) = Own(w)
                       -> [local[v] EXCEPT !.over = TRUE]
                  [] OTHER -> local[v]]

\* removeSession
Hide(w, works) ==
    /\ At(w, "hide") /\ Outcome(works)
    /\ IF works
       THEN sess' = [sess EXCEPT ![local[w].session].shown = FALSE] /\ GoesOver(w, "clear")
       ELSE UNCHANGED sess /\ Goes(w, "answer")
    /\ UNCHANGED <<rels, messages, cache, requests, raced, early>>

\* clearUserCounter
Clear(w, works) ==
    /\ At(w, "clear") /\ Outcome(works)
    /\ IF works
       THEN unread' = [unread EXCEPT ![Own(w)] = 0] /\ GoesOver(w, "answer")
       ELSE UNCHANGED unread /\ Goes(w, "answer")
    /\ UNCHANGED <<tables, counter, requests, raced, early>>

-----------------------------------------------------------------------------
Next ==
    \E w \in Workers :
      \/ \E r \in Requests : Take(w, r)
      \/ Answer(w) \/ GetMsgId(w) \/ NoMsgId(w) \/ SkipAudio(w)
      \/ \E works \in BOOLEAN :
           \/ FindOwn(w, works) \/ FindPeer(w, works)
           \/ /\ local[w] # None
              /\ \/ Look(w, "own_look", Own(w), "own_add", works)
                 \/ Look(w, "peer_look", Peer(w), "peer_add", works)
                 \/ Add(w, "own_add", Own(w), "peer", works)
                 \/ Add(w, "peer_add", Peer(w), "rel", works)
           \/ FindRelation(w, works) \/ LookRelation(w, works) \/ AddRelation(w, works)
           \/ Reset(w, works)
           \/ SaveAudio(w, works) \/ Insert(w, works) \/ Count(w, works)
           \/ FindRemoved(w, works) \/ Hide(w, works) \/ Clear(w, works)

Spec == Init /\ [][Next]_vars

-----------------------------------------------------------------------------
(* Properties *)

\* Types; every row id that a worker holds is a row.
TypeOK ==
    /\ sess \in Seq([user : Users, peer : Users, shown : BOOLEAN])
    /\ rels \in Seq(SUBSET Users)
    /\ counter \in Seq(Nat) /\ Len(counter) = Len(rels)
    /\ unread \in [Users \X Users -> Nat]
    /\ messages \subseteq [rel : 1..Len(rels), id : Nat, number : 1..MaxRequests]
    /\ local \in [Workers -> Local \cup {None}]
    /\ \A w \in Workers : local[w] # None =>
         /\ local[w].session \in 0..Len(sess)
         /\ local[w].rel \in 0..Len(rels)
         /\ local[w].pc \in {"reset", "save", "insert", "count"} => local[w].rel # 0
    /\ requests \in 0..MaxRequests /\ faults \in 0..MaxFaults
    /\ early \subseteq 1..Len(rels)

\* Two messages of a relation have different ids, by which clients sort and fetch them.  The
\* exceptions: an id that redis did not give, and a relation whose ids were reset after one was
\* taken, since addRelation resets them when the new row is there for others.
IdsUnique ==
    \A m, n \in messages :
        m # n /\ m.rel = n.rel /\ m.id = n.id => m.id = ErrId \/ m.rel \in early

\* A user has one session with a peer, and two users one relation, whatever is removed and sent
\* again; unless two workers looked for it, both before either had inserted it, or one inserted it
\* after a look that failed (addSession and addRelation take a failure for an empty result).
OneRow ==
    /\ \A i, j \in DOMAIN sess :
         sess[i].user = sess[j].user /\ sess[i].peer = sess[j].peer /\ i # j =>
             <<sess[i].user, sess[i].peer>> \in raced
    /\ \A i, j \in DOMAIN rels : rels[i] = rels[j] /\ i # j => <<rels[i]>> \in raced

\* A message that is answered with an id is where the receiver looks for it: in the relation that
\* its client is shown, in a session that is shown, and counted as unread; unless the receiver
\* removed the session or read its messages meanwhile, the relation was inserted twice, or a
\* statement failed whose result nobody looks at.  An audio message that has no audio, or whose
\* audio could not be saved, is among those: it is answered with its id and stored nowhere
\* (sendAudioMessage after getMsgId).
AckedReaches ==
    \A w \in Workers :
        /\ At(w, "answer") /\ local[w].request.kind \in Sendings /\ local[w].id # 0
        /\ local[w].failed = {}
        => /\ \E m \in messages : m.number = local[w].number
                 /\ \/ m.rel = LastRow(RelRows(Pair(w)))
                    \/ <<Pair(w)>> \in raced
           /\ (ShownRows(Peer(w)) # {} /\ unread[Peer(w)] > 0) \/ local[w].over
=============================================================================
