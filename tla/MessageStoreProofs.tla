------------------------- MODULE MessageStoreProofs -------------------------
(***************************************************************************)
(* Proofs about MessageStore for any workers, users and numbers of         *)
(* requests and faults: the ids of a relation are unique, the rows of a    *)
(* key are one, and a message that is answered reaches its receiver, with  *)
(* the exceptions that IdsUnique, OneRow and AckedReaches name.            *)
(*                                                                         *)
(* Ids are unique because redis counts: each that is taken is at most the  *)
(* counter, in a message or in the hands of a worker (Ids).  The reset of  *)
(* a relation is harmless while none was taken (ResetEarly).  A row is     *)
(* inserted twice only by two workers that both had found none: whoever    *)
(* has found none and is about to insert is right, or is known to race     *)
(* (Unseen).  What a worker has done for its message stays done, or is     *)
(* known to be undone (ReachInv).                                          *)
(***************************************************************************)
EXTENDS MessageStore, SequenceTheorems, WellFoundedInduction, TLAPS

\* The row that a worker is about to show is there.
Found == \A w \in Workers : local[w] # None =>
    /\ local[w].pc \in {"own_add", "peer_add"} => local[w].found \in 0..Len(sess)
    /\ local[w].pc = "rel_add" => local[w].found \in 0..Len(rels)

\* Of relation r, worker w has an id for a message not yet inserted.
Holding(w) == At(w, "save") \/ At(w, "insert")
Holds(w, r) == Holding(w) /\ local[w].rel = r /\ local[w].id # ErrId

\* Ids in messages and in hands are counted, and differ.
Ids ==
    /\ \A m \in messages : m.rel \notin early /\ m.id # ErrId => m.id <= counter[m.rel]
    /\ \A w \in Workers, r \in DOMAIN rels : Holds(w, r) /\ r \notin early =>
         /\ local[w].id <= counter[r]
         /\ \A m \in messages : m.rel = r => m.id # local[w].id
         /\ \A v \in Workers : v # w /\ Holds(v, r) => local[v].id # local[w].id

\* A reset to come finds no id taken, or the relation is known for it.
ResetEarly == \A w \in Workers, r \in DOMAIN rels :
    At(w, "reset") /\ local[w].rel = r /\ r \notin early =>
      /\ \A m \in messages : m.rel = r => m.id = ErrId
      /\ \A v \in Workers : ~Holds(v, r)

\* Rows of a key, of either table
KeyRows(key) == IF Len(key) = 2 THEN SessRows(key) ELSE RelRows(key[1])

\* A worker that found no row of a key and is about to insert one is right, or races.
Unseen == \A w \in Workers :
    Adding(w) # <<>> /\ ~local[w].blind => Adding(w) \in raced \/ KeyRows(Adding(w)) = {}

SessRec == [user : Users, peer : Users, shown : BOOLEAN]

IdInv == TypeOK /\ Found /\ Ids /\ ResetEarly /\ IdsUnique
RowInv == Unseen /\ OneRow
IInv == IdInv /\ RowInv

-----------------------------------------------------------------------------
(* The first and the last row of a result *)

LEMMA NatMinimum ==
  ASSUME NEW T, T \subseteq Nat, T # {}
  PROVE  \E x \in T : \A y \in T : x <= y
<1>1. PICK x \in T : \A y \in T : ~ (<<y, x>> \in OpToRel(<, Nat))
  BY NatLessThanWellFounded, WFMin
<1>2. ASSUME NEW y \in T PROVE x <= y
  <2>1. x \in Nat /\ y \in Nat
    OBVIOUS
  <2>2. y < x => <<y, x>> \in OpToRel(<, Nat)
    BY <2>1 DEF OpToRel
  <2>3. ~(y < x)
    BY <1>1, <2>2
  <2> QED
    BY <2>1, <2>3
<1> QED
  BY <1>2

\* The first and the last of some row ids are among them.
LEMMA ResultRow ==
  ASSUME NEW n \in Nat, NEW rows, rows \subseteq 1..n
  PROVE  /\ LastRow(rows) \in 0..n /\ (LastRow(rows) = 0 <=> rows = {})
         /\ FirstRow(rows) \in 0..n /\ (FirstRow(rows) = 0 <=> rows = {})
         /\ (rows # {} => LastRow(rows) \in rows /\ FirstRow(rows) \in rows)
<1>1. CASE rows = {}
  BY <1>1 DEF LastRow, FirstRow
<1>2. CASE rows # {}
  <2>1. PICK x \in rows : \A y \in rows : x <= y
    <3>1. rows \subseteq Nat
      OBVIOUS
    <3> QED
      BY <3>1, <1>2, NatMinimum
  <2>2. Min(rows) \in rows
    BY <2>1 DEF Min
  <2>3. PICK t \in {n - y : y \in rows} : \A s \in {n - y : y \in rows} : t <= s
    <3>1. {n - y : y \in rows} \subseteq Nat /\ {n - y : y \in rows} # {}
      BY <1>2
    <3> QED
      BY <3>1, NatMinimum
  <2>4. PICK z \in rows : t = n - z
    BY <2>3
  <2>5. \A y \in rows : z >= y
    <3> TAKE y \in rows
    <3>1. n - z <= n - y
      BY <2>3, <2>4
    <3> QED
      BY <3>1
  <2>6. Max(rows) \in rows
    BY <2>5 DEF Max
  <2>7. LastRow(rows) \in rows /\ FirstRow(rows) \in rows
    BY <1>2, <2>2, <2>6 DEF LastRow, FirstRow
  <2>8. \A y \in rows : y \in 0..n /\ y # 0
    OBVIOUS
  <2> QED
    BY <1>2, <2>7, <2>8
<1> QED
  BY <1>1, <1>2

LEMMA RowIds ==
  ASSUME TypeOK, NEW key, NEW pair
  PROVE  /\ SessRows(key) \subseteq 1..Len(sess) /\ ShownRows(key) \subseteq 1..Len(sess)
         /\ RelRows(pair) \subseteq 1..Len(rels) /\ Len(sess) \in Nat /\ Len(rels) \in Nat
         /\ DOMAIN sess = 1..Len(sess) /\ DOMAIN rels = 1..Len(rels) /\ DOMAIN counter = DOMAIN rels
BY DEF TypeOK, SessRows, ShownRows, RelRows

-----------------------------------------------------------------------------
(* Types *)

\* What a worker is left with after a step: a local state that fits the tables
LocalFits(l) ==
    /\ l \in Local
    /\ l.session \in 0..Len(sess) /\ l.rel \in 0..Len(rels)
    /\ l.pc \in {"reset", "save", "insert", "count"} => l.rel # 0
    /\ l.pc \in {"own_add", "peer_add"} => l.found \in 0..Len(sess)
    /\ l.pc = "rel_add" => l.found \in 0..Len(rels)

TablesOK ==
    /\ sess \in Seq(SessRec) /\ rels \in Seq(SUBSET Users)
    /\ counter \in Seq(Nat) /\ Len(counter) = Len(rels)
    /\ unread \in [Users \X Users -> Nat]
    /\ messages \subseteq [rel : 1..Len(rels), id : Nat, number : 1..MaxRequests]
    /\ requests \in 0..MaxRequests /\ faults \in 0..MaxFaults
    /\ early \subseteq 1..Len(rels)

LEMMA TypesByParts ==
  TypeOK /\ Found <=>
    TablesOK /\ local \in [Workers -> Local \cup {None}]
             /\ \A w \in Workers : local[w] # None => LocalFits(local[w])
BY DEF TypeOK, Found, TablesOK, LocalFits, SessRec

\* The tables only grow, so that what fits them does so after a step.
LEMMA OthersFit ==
  ASSUME TablesOK, TablesOK', Len(sess') >= Len(sess), Len(rels') >= Len(rels),
         NEW l, LocalFits(l)
  PROVE  /\ l \in Local /\ l.session \in 0..Len(sess') /\ l.rel \in 0..Len(rels')
         /\ l.pc \in {"reset", "save", "insert", "count"} => l.rel # 0
         /\ l.pc \in {"own_add", "peer_add"} => l.found \in 0..Len(sess')
         /\ l.pc = "rel_add" => l.found \in 0..Len(rels')
<1>1. Len(sess) \in Nat /\ Len(rels) \in Nat /\ Len(sess') \in Nat /\ Len(rels') \in Nat
  BY DEF TablesOK
<1> QED
  BY <1>1 DEF LocalFits

LEMMA Faults == ASSUME TypeOK, NEW works, Outcome(works) PROVE faults' \in 0..MaxFaults
BY BoundAssumption DEF TypeOK, Outcome

\* A step of a worker that changes its own local state and lets the tables grow
LEMMA WorkerTypes ==
  ASSUME TypeOK, Found, NEW w \in Workers, NEW l \in Local \cup {None},
         local' = [local EXCEPT ![w] = l], TablesOK',
         Len(sess') >= Len(sess), Len(rels') >= Len(rels),
         l # None => /\ l.session \in 0..Len(sess') /\ l.rel \in 0..Len(rels')
                     /\ l.pc \in {"reset", "save", "insert", "count"} => l.rel # 0
                     /\ l.pc \in {"own_add", "peer_add"} => l.found \in 0..Len(sess')
                     /\ l.pc = "rel_add" => l.found \in 0..Len(rels')
  PROVE  TypeOK' /\ Found'
<1>1. TablesOK /\ local \in [Workers -> Local \cup {None}]
      /\ \A v \in Workers : local[v] # None => LocalFits(local[v])
  BY TypesByParts
<1>2. local' \in [Workers -> Local \cup {None}]
  BY <1>1
<1>3. ASSUME NEW v \in Workers, local'[v] # None PROVE LocalFits(local[v])' 
  <2>1. CASE v = w
    BY <1>1, <2>1, <1>3 DEF LocalFits
  <2>2. CASE v # w
    BY <1>1, <2>2, <1>3, OthersFit DEF LocalFits
  <2> QED
    BY <2>1, <2>2
<1> QED
  BY <1>2, <1>3 DEF TypeOK, Found, TablesOK, LocalFits, SessRec

-----------------------------------------------------------------------------
(* Steps that touch neither ids nor rows *)

\* A worker that is not where ids and rows are handled, and one whose step this is not
Elsewhere(v) ==
    local'[v] = None \/ local'[v].pc \notin {"own_add", "peer_add", "rel_add", "reset", "save", "insert"}
Unmoved(v) ==
    local'[v] = local[v] \/ (local[v] # None /\ local'[v] = [local[v] EXCEPT !.over = TRUE])

SameKeys ==
    /\ Len(sess') = Len(sess) /\ sess' \in Seq(SessRec)
    /\ \A i \in 1..Len(sess) : sess'[i].user = sess[i].user /\ sess'[i].peer = sess[i].peer

LEMMA ShownUpdate ==
  ASSUME sess \in Seq(SessRec), NEW i \in 0..Len(sess), NEW b \in BOOLEAN,
         sess' = [sess EXCEPT ![i].shown = b]
  PROVE  SameKeys
<1>1. CASE i \in 1..Len(sess)
  <2> DEFINE row == [sess[i] EXCEPT !.shown = b]
  <2>1. sess[i] \in SessRec
    BY <1>1
  <2>2. row \in SessRec /\ row.user = sess[i].user /\ row.peer = sess[i].peer
    BY <2>1 DEF SessRec
  <2>3. sess' = [sess EXCEPT ![i] = row]
    OBVIOUS
  <2> HIDE DEF row
  <2> QED
    BY <1>1, <2>2, <2>3, ExceptSeq DEF SameKeys
<1>2. CASE i \notin 1..Len(sess)
  <2>1. sess' = sess
    BY <1>2
  <2> QED
    BY <2>1 DEF SameKeys
<1> QED
  BY <1>1, <1>2

LEMMA UnmovedWorker ==
  ASSUME TypeOK, NEW v \in Workers, Unmoved(v)
  PROVE  /\ \A pc : At(v, pc)' <=> At(v, pc)
         /\ local[v] # None /\ local'[v] # None
            => /\ local'[v].rel = local[v].rel /\ local'[v].id = local[v].id
               /\ local'[v].found = local[v].found /\ local'[v].blind = local[v].blind
               /\ local'[v].request = local[v].request /\ local'[v].pc = local[v].pc
         /\ local'[v] = None <=> local[v] = None
<1>1. CASE local'[v] = local[v]
  BY <1>1 DEF At
<1>2. CASE local[v] # None /\ local'[v] = [local[v] EXCEPT !.over = TRUE]
  <2>1. local[v] \in Local
    BY <1>2 DEF TypeOK
  <2>2. local'[v] \in Local
    BY <1>2, <2>1 DEF Local
  <2>3. local'[v] # None
    BY <2>2, NoneAssumption
  <2> QED
    BY <1>2, <2>1, <2>3 DEF At, Local
<1> QED
  BY <1>1, <1>2 DEF Unmoved

LEMMA IdsQuiet ==
  ASSUME IdInv, UNCHANGED <<messages, counter, early, rels>>,
         \A v \in Workers : \/ Unmoved(v)
                            \/ ~(At(v, "reset") \/ Holding(v))'
                            \/ ~At(v, "reset")' /\ local'[v].id = ErrId
                            \/ /\ Holding(v) /\ ~At(v, "reset")'
                               /\ local'[v].id = local[v].id /\ local'[v].rel = local[v].rel
  PROVE  (Ids /\ ResetEarly /\ IdsUnique)'
<1>1. ASSUME NEW v \in Workers, NEW r
      PROVE  /\ Holds(v, r)' => Holds(v, r) /\ local'[v].id = local[v].id
             /\ (At(v, "reset") /\ local[v].rel = r)' => At(v, "reset") /\ local[v].rel = r
  <2>1. CASE Unmoved(v)
    BY <2>1, UnmovedWorker DEF IdInv, Holds, Holding, At
  <2>2. CASE ~(At(v, "reset") \/ Holding(v))'
    BY <2>2 DEF Holds, Holding
  <2>3. CASE ~At(v, "reset")' /\ local'[v].id = ErrId
    BY <2>3 DEF Holds, Holding, At
  <2>4. CASE /\ Holding(v) /\ ~At(v, "reset")'
             /\ local'[v].id = local[v].id /\ local'[v].rel = local[v].rel
    BY <2>4 DEF Holds
  <2> QED
    BY <2>1, <2>2, <2>3, <2>4
<1>2. Ids'
  <2>1. (\A m \in messages : m.rel \notin early /\ m.id # ErrId => m.id <= counter[m.rel])'
    BY DEF IdInv, Ids
  <2>2. ASSUME NEW w \in Workers, NEW r \in DOMAIN rels', Holds(w, r)', r \notin early'
        PROVE  /\ local'[w].id <= counter'[r]
               /\ \A m \in messages' : m.rel = r => m.id # local'[w].id
               /\ \A v \in Workers : v # w /\ Holds(v, r)' => local'[v].id # local'[w].id
    <3>1. Holds(w, r) /\ local'[w].id = local[w].id /\ r \in DOMAIN rels /\ r \notin early
      BY <1>1, <2>2
    <3>2. \A v \in Workers : Holds(v, r)' => Holds(v, r) /\ local'[v].id = local[v].id
      BY <1>1
    <3> QED
      BY <3>1, <3>2 DEF IdInv, Ids
  <2> QED
    BY <2>1, <2>2 DEF Ids
<1>3. ResetEarly'
  BY <1>1 DEF IdInv, ResetEarly
<1>4. IdsUnique'
  BY DEF IdInv, IdsUnique
<1> QED
  BY <1>2, <1>3, <1>4

LEMMA RowsQuiet ==
  ASSUME TypeOK, RowInv, UNCHANGED <<rels, raced>>, SameKeys,
         \A v \in Workers : Unmoved(v) \/ ~(At(v, "own_add") \/ At(v, "peer_add") \/ At(v, "rel_add"))'
  PROVE  RowInv'
<1>1. \A key : KeyRows(key)' = KeyRows(key)
  <2>1. DOMAIN sess' = DOMAIN sess /\ DOMAIN sess = 1..Len(sess)
    BY DEF SameKeys, TypeOK
  <2>2. \A key : SessRows(key)' = SessRows(key)
    BY <2>1 DEF SameKeys, SessRows
  <2>3. \A pair : RelRows(pair)' = RelRows(pair)
    BY DEF RelRows
  <2> QED
    BY <2>2, <2>3 DEF KeyRows
<1>2. ASSUME NEW v \in Workers, Adding(v)' # <<>>
      PROVE  Adding(v)' = Adding(v) /\ local'[v].blind = local[v].blind
  <2>1. Unmoved(v)
    BY <1>2 DEF Adding, At
  <2>2. local'[v] # None
    BY <1>2 DEF Adding
  <2> QED
    BY <2>1, <2>2, UnmovedWorker DEF Adding, Own, Peer, Pair, From, To
<1>3. Unseen'
  BY <1>1, <1>2 DEF RowInv, Unseen
<1>4. OneRow'
  <2>1. DOMAIN sess' = DOMAIN sess /\ DOMAIN sess = 1..Len(sess)
    BY DEF SameKeys, TypeOK
  <2> QED
    BY <2>1 DEF RowInv, OneRow, SameKeys
<1> QED
  BY <1>3, <1>4 DEF RowInv

LEMMA QuietStep ==
  ASSUME IInv, NEW w \in Workers, NEW l \in Local \cup {None},
         local' = [local EXCEPT ![w] = l],
         l # None => /\ l.pc \notin {"own_add", "peer_add", "rel_add", "reset", "save", "insert", "count"}
                     /\ l.session \in 0..Len(sess) /\ l.rel \in 0..Len(rels),
         UNCHANGED <<tables, counter, early, raced>>,
         unread' \in [Users \X Users -> Nat],
         requests' \in 0..MaxRequests, faults' \in 0..MaxFaults
  PROVE  IInv'
<1> USE DEF tables
<1>1. TypeOK /\ Found /\ IdInv /\ RowInv
  BY DEF IInv, IdInv
<1>2. TablesOK' /\ SameKeys
  BY <1>1 DEF TypeOK, TablesOK, SameKeys, SessRec
<1>3. TypeOK' /\ Found'
  <2>1. Len(sess') >= Len(sess) /\ Len(rels') >= Len(rels)
    BY <1>1 DEF TypeOK
  <2> QED
    BY <1>1, <1>2, <2>1, WorkerTypes
<1>4. \A v \in Workers : Unmoved(v) \/ (/\ ~(At(v, "reset") \/ Holding(v))'
                                        /\ ~(At(v, "own_add") \/ At(v, "peer_add") \/ At(v, "rel_add"))')
  BY <1>1 DEF Unmoved, At, Holding, TypeOK
<1>5. (Ids /\ ResetEarly /\ IdsUnique)'
  BY <1>1, <1>4, IdsQuiet
<1>6. RowInv'
  BY <1>1, <1>2, <1>4, RowsQuiet
<1> QED
  BY <1>3, <1>5, <1>6 DEF IInv, IdInv

LEMMA LocalOf ==
  ASSUME TypeOK, NEW w \in Workers, local[w] # None
  PROVE  /\ local[w] \in Local /\ local[w].session \in 0..Len(sess) /\ local[w].rel \in 0..Len(rels)
         /\ local[w].request \in Requests /\ From(w) \in Users /\ To(w) \in Users /\ From(w) # To(w)
         /\ Len(sess) \in Nat /\ Len(rels) \in Nat /\ Own(w) \in Users \X Users /\ Peer(w) \in Users \X Users
<1>1. local[w] \in Local
  BY DEF TypeOK
<1>2. local[w].request \in Requests
  BY <1>1 DEF Local
<1>3. From(w) \in Users /\ To(w) \in Users /\ From(w) # To(w)
  BY <1>2, RequestsAssumption DEF From, To
<1> QED
  BY <1>1, <1>2, <1>3 DEF TypeOK, Own, Peer

LEMMA TakeStep ==
  ASSUME IInv, NEW w \in Workers, NEW r \in Requests, Take(w, r)
  PROVE  IInv'
<1> DEFINE pc == CASE r.kind \in Sendings -> "own"
                   [] r.kind = "remove" -> "find"
                   [] r.kind = "read" -> "clear"
<1> DEFINE l == [request |-> r, number |-> requests + 1, session |-> 0, found |-> 0,
                 blind |-> FALSE, rel |-> 0, id |-> 0, failed |-> {}, over |-> FALSE, pc |-> pc]
<1>1. TypeOK /\ requests \in 0..MaxRequests /\ requests < MaxRequests /\ MaxRequests \in Nat
  BY BoundAssumption DEF IInv, IdInv, TypeOK, Take
<1>2. r.kind \in Kinds
  BY RequestsAssumption
<1>3. pc \in {"own", "find", "clear"}
  BY <1>2 DEF Kinds, Sendings
<1>4. l \in Local
  <2>1. requests + 1 \in 1..MaxRequests
    BY <1>1
  <2>2. pc \in Pcs
    BY <1>3 DEF Pcs
  <2> HIDE DEF pc
  <2> QED
    BY <2>1, <2>2 DEF Local
<1>5. l.pc = pc
  OBVIOUS
<1>6. local' = [local EXCEPT ![w] = l]
  BY DEF Take
<1>7. l.session \in 0..Len(sess) /\ l.rel \in 0..Len(rels)
  BY <1>1 DEF TypeOK
<1>8. UNCHANGED <<tables, counter, early, raced>> /\ unread' \in [Users \X Users -> Nat]
      /\ requests' \in 0..MaxRequests /\ faults' \in 0..MaxFaults
  BY <1>1 DEF Take, cache, TypeOK
<1> HIDE DEF l, pc
<1> QED
  BY <1>3, <1>4, <1>5, <1>6, <1>7, <1>8, QuietStep

LEMMA AnswerStep ==
  ASSUME IInv, NEW w \in Workers, Answer(w)
  PROVE  IInv'
<1>1. TypeOK
  BY DEF IInv, IdInv
<1>2. UNCHANGED <<tables, counter, early, raced>> /\ unread' \in [Users \X Users -> Nat]
      /\ requests' \in 0..MaxRequests /\ faults' \in 0..MaxFaults
  BY <1>1 DEF Answer, cache, TypeOK
<1> QED
  BY <1>2, QuietStep DEF Answer

\* A statement of a worker that only moves it on, to a row that is there
LEMMA LookupStep ==
  ASSUME IInv, NEW w \in Workers, local[w] # None,
         NEW session \in 0..Len(sess), NEW rel \in 0..Len(rels),
         NEW failed \in SUBSET {"save", "insert", "count"},
         NEW pc \in Pcs \ {"own_add", "peer_add", "rel_add", "reset", "save", "insert", "count"},
         local' = [local EXCEPT ![w] = [local[w] EXCEPT !.session = session, !.rel = rel,
                                               !.failed = failed, !.pc = pc]],
         UNCHANGED <<tables, counter, early, raced, requests>>,
         unread' \in [Users \X Users -> Nat], faults' \in 0..MaxFaults
  PROVE  IInv'
<1> DEFINE l == [local[w] EXCEPT !.session = session, !.rel = rel, !.failed = failed, !.pc = pc]
<1>1. TypeOK
  BY DEF IInv, IdInv
<1>2. local[w] \in Local /\ Len(sess) \in Nat /\ Len(rels) \in Nat
  BY <1>1, LocalOf
<1>3. l \in Local
  <2>1. session \in Nat /\ rel \in Nat
    BY <1>2
  <2>2. pc \in Pcs
    OBVIOUS
  <2> QED
    BY <1>2, <2>1, <2>2 DEF Local
<1>3a. l.session = session /\ l.rel = rel /\ l.pc = pc
  BY <1>2 DEF Local
<1>4. local' = [local EXCEPT ![w] = l]
  BY <1>1 DEF TypeOK
<1>5. requests' \in 0..MaxRequests
  BY <1>1 DEF TypeOK
<1> HIDE DEF l
<1> QED
  BY <1>3, <1>3a, <1>4, <1>5, QuietStep

LEMMA FindStep ==
  ASSUME IInv, NEW w \in Workers, NEW works \in BOOLEAN,
         FindOwn(w, works) \/ FindRemoved(w, works)
  PROVE  IInv'
<1> DEFINE row == IF works THEN LastRow(ShownRows(Own(w))) ELSE 0
<1>1. TypeOK /\ local[w] # None
  BY DEF IInv, IdInv, FindOwn, FindRemoved, At
<1>2. row \in 0..Len(sess) /\ local[w] \in Local /\ local[w].rel \in 0..Len(rels)
  BY <1>1, RowIds, ResultRow, LocalOf
<1>3. unread' \in [Users \X Users -> Nat] /\ faults' \in 0..MaxFaults
      /\ UNCHANGED <<tables, counter, early, raced, requests>>
  BY <1>1, Faults DEF FindOwn, FindRemoved, cache, TypeOK
<1>4. \E pc \in {"peer", "own_look", "hide", "answer"} :
        local' = [local EXCEPT ![w].session = row, ![w].pc = pc]
  BY DEF FindOwn, FindRemoved
<1> HIDE DEF row
<1>5. PICK pc \in {"peer", "own_look", "hide", "answer"} :
        local' = [local EXCEPT ![w].session = row, ![w].pc = pc]
  BY <1>4
<1>6. local' = [local EXCEPT ![w] = [local[w] EXCEPT !.session = row, !.rel = local[w].rel,
                                               !.failed = local[w].failed, !.pc = pc]]
  BY <1>1, <1>2, <1>5 DEF TypeOK, Local
<1>7. pc \in Pcs \ {"own_add", "peer_add", "rel_add", "reset", "save", "insert", "count"}
      /\ local[w].failed \in SUBSET {"save", "insert", "count"}
  BY <1>2 DEF Pcs, Local
<1> QED
  BY <1>1, <1>2, <1>3, <1>6, <1>7, LookupStep

\* Steps that only move a worker on
LEMMA GoesStep ==
  ASSUME IInv, NEW w \in Workers, local[w] # None,
         NEW pc \in Pcs \ {"own_add", "peer_add", "rel_add", "reset", "save", "insert", "count"},
         Goes(w, pc), UNCHANGED <<tables, counter, early, raced, requests>>,
         unread' \in [Users \X Users -> Nat], faults' \in 0..MaxFaults
  PROVE  IInv'
<1>1. TypeOK
  BY DEF IInv, IdInv
<1>2. local[w] \in Local /\ local[w].session \in 0..Len(sess) /\ local[w].rel \in 0..Len(rels)
      /\ local[w].failed \in SUBSET {"save", "insert", "count"}
  BY <1>1, LocalOf DEF Local
<1>3. local' = [local EXCEPT ![w] = [local[w] EXCEPT !.session = local[w].session, !.rel = local[w].rel,
                                               !.failed = local[w].failed, !.pc = pc]]
  BY <1>1, <1>2 DEF Goes, TypeOK, Local
<1> QED
  BY <1>2, <1>3, LookupStep

LEMMA MoveStep ==
  ASSUME IInv, NEW w \in Workers, NEW works \in BOOLEAN, FindPeer(w, works) \/ NoMsgId(w)
  PROVE  IInv'
<1>1. TypeOK /\ local[w] # None
  BY DEF IInv, IdInv, FindPeer, NoMsgId, At
<1>2. \E pc \in {"rel", "peer_look", "answer"} : Goes(w, pc)
  BY DEF FindPeer, NoMsgId
<1>3. unread' \in [Users \X Users -> Nat] /\ faults' \in 0..MaxFaults
      /\ UNCHANGED <<tables, counter, early, raced, requests>>
  BY <1>1, Faults DEF FindPeer, NoMsgId, cache, TypeOK
<1> QED
  BY <1>1, <1>2, <1>3, GoesStep DEF Pcs

LEMMA FindRelationStep ==
  ASSUME IInv, NEW w \in Workers, NEW works \in BOOLEAN, FindRelation(w, works)
  PROVE  IInv'
<1> DEFINE row == IF works THEN LastRow(RelRows(Pair(w))) ELSE 0
<1>1. TypeOK /\ local[w] # None
  BY DEF IInv, IdInv, FindRelation, At
<1>2. row \in 0..Len(rels) /\ local[w] \in Local /\ local[w].session \in 0..Len(sess)
      /\ local[w].failed \in SUBSET {"save", "insert", "count"}
  <2>1. row \in 0..Len(rels)
    BY <1>1, RowIds, ResultRow
  <2>2. local[w] \in Local /\ local[w].session \in 0..Len(sess)
    BY <1>1, LocalOf
  <2> QED
    BY <2>1, <2>2 DEF Local
<1>3. unread' \in [Users \X Users -> Nat] /\ faults' \in 0..MaxFaults
      /\ UNCHANGED <<tables, counter, early, raced, requests>>
  BY <1>1, Faults DEF FindRelation, cache, TypeOK
<1>4. CASE Goes(w, "id")
  BY <1>1, <1>3, <1>4, GoesStep DEF Pcs
<1>5. CASE \E pc \in {"id", "rel_look"} : local' = [local EXCEPT ![w].rel = row, ![w].pc = pc]
  <2> HIDE DEF row
  <2>1. PICK pc \in {"id", "rel_look"} : local' = [local EXCEPT ![w].rel = row, ![w].pc = pc]
    BY <1>5
  <2>2. local' = [local EXCEPT ![w] = [local[w] EXCEPT !.session = local[w].session, !.rel = row,
                                               !.failed = local[w].failed, !.pc = pc]]
    BY <1>1, <1>2, <2>1 DEF TypeOK, Local
  <2> QED
    BY <1>1, <1>2, <1>3, <2>2, LookupStep DEF Pcs
<1> QED
  BY <1>4, <1>5 DEF FindRelation

LEMMA CountStep ==
  ASSUME IInv, NEW w \in Workers, NEW works \in BOOLEAN, Count(w, works)
  PROVE  IInv'
<1> DEFINE failed == IF works THEN local[w].failed ELSE local[w].failed \cup {"count"}
<1>1. TypeOK /\ local[w] # None
  BY DEF IInv, IdInv, Count, At
<1>2. local[w] \in Local /\ local[w].session \in 0..Len(sess) /\ local[w].rel \in 0..Len(rels)
      /\ Peer(w) \in Users \X Users
  BY <1>1, LocalOf
<1>3. failed \in SUBSET {"save", "insert", "count"}
  BY <1>2 DEF Local
<1>4. unread' \in [Users \X Users -> Nat] /\ faults' \in 0..MaxFaults
      /\ UNCHANGED <<tables, counter, early, raced, requests>>
  <2>1. unread \in [Users \X Users -> Nat]
    BY <1>1 DEF TypeOK
  <2>2. unread[Peer(w)] + 1 \in Nat
    BY <1>2, <2>1
  <2> QED
    BY <1>1, <1>2, <2>1, <2>2, Faults DEF Count
<1>5. local' = [local EXCEPT ![w].failed = failed, ![w].pc = "answer"]
  BY DEF Count
<1> HIDE DEF failed
<1>6. local' = [local EXCEPT ![w] = [local[w] EXCEPT !.session = local[w].session, !.rel = local[w].rel,
                                               !.failed = failed, !.pc = "answer"]]
  BY <1>1, <1>2, <1>5 DEF TypeOK, Local
<1>7. "answer" \in Pcs \ {"own_add", "peer_add", "rel_add", "reset", "save", "insert", "count"}
  BY DEF Pcs
<1> QED
  BY <1>1, <1>2, <1>3, <1>4, <1>6, <1>7, LookupStep

-----------------------------------------------------------------------------
(* The removal and the reading *)

LEMMA OverStep ==
  ASSUME IInv, NEW w \in Workers, local[w] # None, NEW pc \in {"clear", "answer"}, GoesOver(w, pc),
         SameKeys, UNCHANGED <<rels, messages, counter, early, raced, requests>>,
         unread' \in [Users \X Users -> Nat], faults' \in 0..MaxFaults
  PROVE  IInv'
<1>1. IdInv /\ TypeOK /\ Found /\ RowInv /\ local[w] \in Local /\ TablesOK
      /\ \A v \in Workers : local[v] # None => LocalFits(local[v])
  BY LocalOf, TypesByParts DEF IInv, IdInv
<1>2. local'[w] = [local[w] EXCEPT !.pc = pc] /\ local'[w] \in Local
  <2>1. pc \in Pcs
    BY DEF Pcs
  <2>2. local'[w] = [local[w] EXCEPT !.pc = pc]
    <3>1. Peer(w) # Own(w)
      BY <1>1, LocalOf DEF Peer, Own
    <3> QED
      BY <3>1 DEF GoesOver
  <2>3. [local[w] EXCEPT !.pc = pc] \in Local
    BY <1>1, <2>1 DEF Local
  <2> QED
    BY <2>2, <2>3
<1>3. ASSUME NEW v \in Workers, v # w PROVE Unmoved(v)
  BY <1>3 DEF GoesOver, Unmoved
<1>4. \A v \in Workers : local[v] \in Local => [local[v] EXCEPT !.over = TRUE] \in Local
  BY DEF Local
<1>5. local' \in [Workers -> Local \cup {None}]
  BY <1>1, <1>2, <1>4 DEF GoesOver, TypeOK
<1>6. TablesOK' /\ Len(sess') = Len(sess)
  BY <1>1 DEF TablesOK, SameKeys
<1>7. ASSUME NEW v \in Workers, local'[v] # None PROVE LocalFits(local[v])'
  <2>1. CASE v = w
    BY <1>1, <1>2, <1>6, <2>1 DEF LocalFits, Local
  <2>2. CASE v # w
    <3>1. local'[v] = local[v] \/ local'[v] = [local[v] EXCEPT !.over = TRUE]
      BY <1>3, <2>2 DEF Unmoved
    <3>2. local[v] # None /\ LocalFits(local[v])
      BY <1>1, <1>3, <1>7, <2>2, UnmovedWorker
    <3> QED
      BY <1>4, <1>6, <3>1, <3>2 DEF LocalFits, Local
  <2> QED
    BY <2>1, <2>2
<1>8. TypeOK' /\ Found'
  BY <1>5, <1>6, <1>7 DEF TypeOK, Found, TablesOK, LocalFits, SessRec
<1>9. ~(At(w, "reset") \/ Holding(w))'
      /\ ~(At(w, "own_add") \/ At(w, "peer_add") \/ At(w, "rel_add"))'
  BY <1>1, <1>2 DEF At, Holding, Local
<1>10. (Ids /\ ResetEarly /\ IdsUnique)'
  BY <1>1, <1>3, <1>9, IdsQuiet
<1>11. RowInv'
  BY <1>1, <1>3, <1>9, RowsQuiet
<1> QED
  BY <1>8, <1>10, <1>11 DEF IInv, IdInv

LEMMA HideStep ==
  ASSUME IInv, NEW w \in Workers, NEW works \in BOOLEAN, Hide(w, works)
  PROVE  IInv'
<1>1. TypeOK /\ local[w] # None
  BY DEF IInv, IdInv, Hide, At
<1>2. unread' \in [Users \X Users -> Nat] /\ faults' \in 0..MaxFaults
      /\ UNCHANGED <<rels, messages, counter, early, raced, requests>>
  BY <1>1, Faults DEF Hide, cache, TypeOK
<1>3. CASE works
  <2>1. SameKeys
    BY <1>1, <1>3, LocalOf, ShownUpdate DEF Hide, TypeOK, SessRec
  <2> QED
    BY <1>1, <1>2, <1>3, <2>1, OverStep DEF Hide
<1>4. CASE ~works
  <2>1. UNCHANGED <<tables, counter, early, raced, requests>> /\ Goes(w, "answer")
    BY <1>2, <1>4 DEF Hide, tables
  <2> QED
    BY <1>1, <1>2, <2>1, GoesStep DEF Pcs
<1> QED
  BY <1>3, <1>4

LEMMA ClearStep ==
  ASSUME IInv, NEW w \in Workers, NEW works \in BOOLEAN, Clear(w, works)
  PROVE  IInv'
<1>1. TypeOK /\ local[w] # None
  BY DEF IInv, IdInv, Clear, At
<1>2. unread' \in [Users \X Users -> Nat] /\ faults' \in 0..MaxFaults
      /\ UNCHANGED <<tables, counter, early, raced, requests>>
  <2>1. unread \in [Users \X Users -> Nat] /\ Own(w) \in Users \X Users
    BY <1>1, LocalOf DEF TypeOK
  <2> QED
    BY <1>1, <2>1, Faults DEF Clear
<1>3. CASE works
  <2>1. SameKeys
    BY <1>1, <1>2 DEF SameKeys, TypeOK, SessRec, tables
  <2>2. UNCHANGED <<rels, messages, counter, early, raced, requests>>
    BY <1>2 DEF tables
  <2> QED
    BY <1>1, <1>2, <1>3, <2>1, <2>2, OverStep DEF Clear
<1>4. CASE ~works
  BY <1>1, <1>2, <1>4, GoesStep DEF Clear, Pcs
<1> QED
  BY <1>3, <1>4

-----------------------------------------------------------------------------
(* The lookups of addSession and addRelation *)

\* A step after which a worker is about to insert a row only if it is right that there is none
LEMMA KeyRowsOf ==
  ASSUME NEW a, NEW b
  PROVE  KeyRows(<<a, b>>) = SessRows(<<a, b>>) /\ KeyRows(<<a>>) = RelRows(a)
BY DEF KeyRows

LEMMA RowsLook ==
  ASSUME TypeOK, RowInv, NEW w \in Workers, UNCHANGED <<sess, rels, raced>>,
         \A v \in Workers : v # w => Unmoved(v),
         Adding(w)' # <<>> /\ ~local'[w].blind => KeyRows(Adding(w)') = {}
  PROVE  RowInv'
<1>1. \A key : KeyRows(key)' = KeyRows(key)
  BY DEF KeyRows, SessRows, RelRows
<1>2. ASSUME NEW v \in Workers, v # w, Adding(v)' # <<>>
      PROVE  Adding(v)' = Adding(v) /\ local'[v].blind = local[v].blind
  <2>1. Unmoved(v) /\ local'[v] # None
    BY <1>2 DEF Adding
  <2> QED
    BY <2>1, UnmovedWorker DEF Adding, Own, Peer, Pair, From, To
<1>3. Unseen'
  <2> SUFFICES ASSUME NEW v \in Workers, Adding(v)' # <<>>, ~local'[v].blind
               PROVE  Adding(v)' \in raced' \/ KeyRows(Adding(v)') = {}
    BY <1>1 DEF Unseen
  <2>1. CASE v = w
    BY <2>1
  <2>2. CASE v # w
    BY <1>2, <2>2 DEF RowInv, Unseen
  <2> QED
    BY <2>1, <2>2
<1>4. OneRow'
  BY DEF RowInv, OneRow
<1> QED
  BY <1>3, <1>4 DEF RowInv

LEMMA LookStep ==
  ASSUME IInv, NEW w \in Workers, NEW works \in BOOLEAN, local[w] # None,
         \/ Look(w, "own_look", Own(w), "own_add", works)
         \/ Look(w, "peer_look", Peer(w), "peer_add", works)
  PROVE  IInv'
<1>1. IdInv /\ TypeOK /\ Found /\ RowInv /\ local[w] \in Local
  BY LocalOf DEF IInv, IdInv
<1>2. PICK next \in {"own_add", "peer_add"}, key \in {Own(w), Peer(w)} :
        /\ key = IF next = "own_add" THEN Own(w) ELSE Peer(w)
        /\ \E pc : Look(w, pc, key, next, works)
  OBVIOUS
<1> DEFINE row == IF works THEN LastRow(SessRows(key)) ELSE 0
           l == [local[w] EXCEPT !.found = row, !.blind = ~works, !.pc = next]
<1>3. row \in 0..Len(sess) /\ row \in Nat /\ (works /\ row = 0 => SessRows(key) = {})
  BY <1>1, RowIds, ResultRow
<1>4. local' = [local EXCEPT ![w] = l]
  BY <1>2 DEF Look
<1>5. UNCHANGED <<sess, rels, messages, counter, unread, requests, raced, early>>
      /\ faults' \in 0..MaxFaults
  BY <1>1, <1>2, Faults DEF Look, tables, cache
<1> HIDE DEF row
<1>6. l \in Local /\ l.found = row /\ l.blind = ~works /\ l.pc = next /\ l.request = local[w].request
      /\ l.session = local[w].session /\ l.rel = local[w].rel
  <2>1. next \in Pcs
    BY DEF Pcs
  <2>2. (~works) \in BOOLEAN
    OBVIOUS
  <2> QED
    BY <1>1, <1>3, <2>1, <2>2 DEF Local
<1> HIDE DEF l
<1>7. local'[w] = l /\ \A v \in Workers : v # w => Unmoved(v)
  BY <1>1, <1>4 DEF TypeOK, Unmoved
<1>8. TypeOK' /\ Found'
  <2>1. TablesOK' /\ Len(sess') >= Len(sess) /\ Len(rels') >= Len(rels)
    BY <1>1, <1>5 DEF TypeOK, TablesOK, SessRec
  <2>2. l.session \in 0..Len(sess') /\ l.rel \in 0..Len(rels') /\ l.found \in 0..Len(sess')
    BY <1>1, <1>3, <1>5, <1>6, LocalOf
  <2> QED
    BY <1>1, <1>4, <1>6, <2>1, <2>2, WorkerTypes
<1>9. (Ids /\ ResetEarly /\ IdsUnique)'
  <2>1. ~(At(w, "reset") \/ Holding(w))'
    BY <1>6, <1>7 DEF At, Holding
  <2> QED
    BY <1>1, <1>5, <1>7, <2>1, IdsQuiet
<1>10. RowInv'
  <2>1. Own(w)' = Own(w) /\ Peer(w)' = Peer(w)
    BY <1>6, <1>7 DEF Own, Peer, From, To
  <2>2. ASSUME Adding(w)' # <<>>, ~local'[w].blind PROVE KeyRows(Adding(w)') = {}
    <3>1. Adding(w)' = key /\ works /\ row = 0
      BY <1>2, <1>6, <1>7, <2>1, <2>2 DEF Adding
    <3> QED
      BY <1>2, <1>3, <3>1, KeyRowsOf DEF Own, Peer
  <2> QED
    BY <1>1, <1>5, <1>7, <2>2, RowsLook
<1> QED
  BY <1>8, <1>9, <1>10 DEF IInv, IdInv

LEMMA LookRelationStep ==
  ASSUME IInv, NEW w \in Workers, NEW works \in BOOLEAN, LookRelation(w, works)
  PROVE  IInv'
<1>1. IdInv /\ TypeOK /\ Found /\ RowInv /\ local[w] # None /\ local[w] \in Local
  BY LocalOf DEF IInv, IdInv, LookRelation, At
<1> DEFINE row == IF works THEN FirstRow(RelRows(Pair(w))) ELSE 0
           l == [local[w] EXCEPT !.found = row, !.blind = ~works, !.pc = "rel_add"]
<1>3. row \in 0..Len(rels) /\ row \in Nat /\ (works /\ row = 0 => RelRows(Pair(w)) = {})
  BY <1>1, RowIds, ResultRow
<1>4. local' = [local EXCEPT ![w] = l]
  BY DEF LookRelation
<1>5. UNCHANGED <<sess, rels, messages, counter, unread, requests, raced, early>>
      /\ faults' \in 0..MaxFaults
  BY <1>1, Faults DEF LookRelation, tables, cache
<1> HIDE DEF row
<1>6. l \in Local /\ l.found = row /\ l.blind = ~works /\ l.pc = "rel_add"
      /\ l.request = local[w].request
      /\ l.session = local[w].session /\ l.rel = local[w].rel
  <2>1. "rel_add" \in Pcs
    BY DEF Pcs
  <2>2. (~works) \in BOOLEAN
    OBVIOUS
  <2> QED
    BY <1>1, <1>3, <2>1, <2>2 DEF Local
<1> HIDE DEF l
<1>7. local'[w] = l /\ \A v \in Workers : v # w => Unmoved(v)
  BY <1>1, <1>4 DEF TypeOK, Unmoved
<1>8. TypeOK' /\ Found'
  <2>1. TablesOK' /\ Len(sess') >= Len(sess) /\ Len(rels') >= Len(rels)
    BY <1>1, <1>5 DEF TypeOK, TablesOK, SessRec
  <2>2. l.session \in 0..Len(sess') /\ l.rel \in 0..Len(rels') /\ l.found \in 0..Len(rels')
    BY <1>1, <1>3, <1>5, <1>6, LocalOf
  <2> QED
    BY <1>1, <1>4, <1>6, <2>1, <2>2, WorkerTypes
<1>9. (Ids /\ ResetEarly /\ IdsUnique)'
  <2>1. ~(At(w, "reset") \/ Holding(w))'
    BY <1>6, <1>7 DEF At, Holding
  <2> QED
    BY <1>1, <1>5, <1>7, <2>1, IdsQuiet
<1>10. RowInv'
  <2>1. Pair(w)' = Pair(w)
    BY <1>6, <1>7 DEF Pair, From, To
  <2>2. ASSUME Adding(w)' # <<>>, ~local'[w].blind PROVE KeyRows(Adding(w)') = {}
    <3>1. Adding(w)' = <<Pair(w)>> /\ works /\ row = 0
      BY <1>6, <1>7, <2>1, <2>2 DEF Adding
    <3> QED
      BY <1>3, <3>1, KeyRowsOf
  <2> QED
    BY <1>1, <1>5, <1>7, <2>2, RowsLook
<1> QED
  BY <1>8, <1>9, <1>10 DEF IInv, IdInv

-----------------------------------------------------------------------------
(* The ids *)

\* Steps at the ids change no row
LEMMA IdsRows ==
  ASSUME IInv, NEW w \in Workers, NEW l \in Local, local' = [local EXCEPT ![w] = l],
         l.pc \in {"id", "save", "insert", "count", "answer"}, UNCHANGED <<sess, rels, raced>>
  PROVE  RowInv'
<1>1. TypeOK /\ RowInv
  BY DEF IInv, IdInv
<1>2. \A v \in Workers : Unmoved(v) \/ ~(At(v, "own_add") \/ At(v, "peer_add") \/ At(v, "rel_add"))'
  BY <1>1 DEF Unmoved, At, TypeOK
<1>3. SameKeys
  BY <1>1 DEF SameKeys, TypeOK, SessRec
<1> QED
  BY <1>1, <1>2, <1>3, RowsQuiet

LEMMA GetMsgIdStep ==
  ASSUME IInv, NEW w \in Workers, GetMsgId(w)
  PROVE  IInv'
<1> DEFINE rel == local[w].rel
<1>1. IdInv /\ TypeOK /\ Found /\ local[w] # None /\ local[w] \in Local
  BY LocalOf DEF IInv, IdInv, GetMsgId, At
<1>2. rel \in 1..Len(rels) /\ Len(rels) \in Nat /\ local[w].session \in 0..Len(sess)
      /\ DOMAIN rels = 1..Len(rels) /\ rel \in 1..Len(counter) /\ counter[rel] \in Nat
      /\ Len(sess) \in Nat
  <2>1. rel \in 0..Len(rels) /\ rel # 0 /\ local[w].session \in 0..Len(sess)
        /\ Len(rels) \in Nat /\ Len(sess) \in Nat
    BY <1>1, LocalOf DEF GetMsgId
  <2>2. DOMAIN rels = 1..Len(rels) /\ counter \in Seq(Nat) /\ Len(counter) = Len(rels)
    BY <1>1 DEF TypeOK
  <2>3. rel \in 1..Len(counter)
    BY <2>1, <2>2
  <2> QED
    BY <2>1, <2>2, <2>3
<1>3. UNCHANGED <<sess, rels, messages, unread, requests, raced>> /\ faults' \in 0..MaxFaults
  BY <1>1, Faults DEF GetMsgId, tables
<1>3a. Stores(w) \in {"save", "insert"}
  BY DEF Stores
<1>4. ASSUME counter' = [counter EXCEPT ![rel] = @ + 1],
             local' = [local EXCEPT ![w].id = counter[rel] + 1, ![w].pc = Stores(w)],
             early' = IF \E v \in Workers : At(v, "reset") /\ local[v].rel = rel
                      THEN early \cup {rel} ELSE early
      PROVE  IInv'
  <2> DEFINE l == [local[w] EXCEPT !.id = counter[rel] + 1, !.pc = Stores(w)]
  <2>1. l \in Local /\ l.id = counter[rel] + 1 /\ l.pc = Stores(w) /\ l.rel = rel
        /\ l.session = local[w].session
    <3>1. Stores(w) \in Pcs /\ counter[rel] + 1 \in Nat
      BY <1>2, <1>3a DEF Pcs
    <3> QED
      BY <1>1, <3>1 DEF Local
  <2>2. local' = [local EXCEPT ![w] = l]
    BY <1>4
  <2> HIDE DEF l
  <2>3. local'[w] = l /\ \A v \in Workers : v # w => local'[v] = local[v]
    BY <1>1, <2>2 DEF TypeOK
  <2>4. counter' \in Seq(Nat) /\ Len(counter') = Len(counter)
        /\ \A r \in 1..Len(rels) : counter'[r] = IF r = rel THEN counter[r] + 1 ELSE counter[r]
    <3>1. counter \in Seq(Nat) /\ counter[rel] + 1 \in Nat /\ Len(counter) = Len(rels)
      BY <1>1, <1>2 DEF TypeOK
    <3> QED
      BY <1>2, <1>4, <3>1, ExceptSeq
  <2>5. TypeOK' /\ Found'
    <3>1. TablesOK' /\ Len(sess') >= Len(sess) /\ Len(rels') >= Len(rels)
      BY <1>1, <1>2, <1>3, <1>4, <2>4 DEF TypeOK, TablesOK, SessRec
    <3>2. l.session \in 0..Len(sess') /\ l.rel \in 0..Len(rels') /\ l.rel # 0
      BY <1>2, <1>3, <2>1
    <3> QED
      BY <1>1, <1>3a, <2>1, <2>2, <3>1, <3>2, WorkerTypes
  <2>6. early \subseteq early'
    BY <1>4
  <2>7. \A v \in Workers : \A r : v # w => /\ (Holds(v, r)' <=> Holds(v, r))
                                           /\ (At(v, "reset")' <=> At(v, "reset"))
    BY <2>3 DEF Holds, Holding, At
  <2>8. \A r : Holds(w, r)' => r = rel
    BY <2>1, <2>3 DEF Holds, Holding
  <2>9. ~At(w, "reset")'
    BY <1>3a, <2>1, <2>3 DEF At
  <2>10. /\ \A m \in messages : m.rel \in 1..Len(rels) /\ m.id \in Nat
         /\ \A r \in 1..Len(rels) : counter[r] \in Nat
         /\ \A v \in Workers : local[v] # None => local[v].id \in Nat
    <3>1. \A m \in messages : m.rel \in 1..Len(rels) /\ m.id \in Nat
      BY <1>1 DEF TypeOK
    <3>2. \A r \in 1..Len(rels) : counter[r] \in Nat
      BY <1>1 DEF TypeOK
    <3>3. \A v \in Workers : local[v] # None => local[v] \in Local
      BY <1>1 DEF TypeOK
    <3> QED
      BY <3>1, <3>2, <3>3 DEF Local
  <2>11. ASSUME NEW m \in messages, m.rel \notin early', m.id # ErrId PROVE m.id <= counter'[m.rel]
    <3>1. m.id <= counter[m.rel]
      BY <1>1, <2>6, <2>11 DEF IdInv, Ids
    <3>2. m.rel \in 1..Len(rels) /\ counter[m.rel] \in Nat /\ m.id \in Nat
      BY <2>10
    <3>3. counter'[m.rel] \in {counter[m.rel], counter[m.rel] + 1}
      BY <2>4, <3>2
    <3> QED
      BY <3>1, <3>2, <3>3
  <2>12. ASSUME NEW v \in Workers, NEW r \in DOMAIN rels, Holds(v, r)', r \notin early'
         PROVE  /\ local'[v].id <= counter'[r]
                /\ \A m \in messages : m.rel = r => m.id # local'[v].id
                /\ \A u \in Workers : u # v /\ Holds(u, r)' => local'[u].id # local'[v].id
    <3>1. CASE v = w
      <4>1. r = rel /\ local'[v].id = counter[rel] + 1 /\ local'[v].id # ErrId /\ rel \notin early
        BY <2>1, <2>3, <2>6, <2>8, <2>12, <3>1 DEF Holds, Holding
      <4>2. local'[v].id <= counter'[r]
        BY <1>2, <2>4, <4>1
      <4>3. ASSUME NEW m \in messages, m.rel = r PROVE m.id # local'[v].id
        <5>1. m.id # ErrId => m.id <= counter[rel]
          BY <1>1, <4>1, <4>3 DEF IdInv, Ids
        <5> QED
          BY <1>2, <2>10, <4>1, <5>1
      <4>4. ASSUME NEW u \in Workers, u # v, Holds(u, r)' PROVE local'[u].id # local'[v].id
        <5>1. Holds(u, r) /\ local'[u] = local[u] /\ local[u] # None
          BY <2>3, <2>7, <3>1, <4>4 DEF Holds, Holding, At
        <5>2. local[u].id <= counter[r]
          BY <1>1, <1>2, <4>1, <5>1 DEF IdInv, Ids
        <5> QED
          BY <1>2, <2>10, <4>1, <5>1, <5>2
      <4> QED
        BY <4>2, <4>3, <4>4
    <3>2. CASE v # w
      <4>1. Holds(v, r) /\ local'[v] = local[v] /\ r \notin early /\ local[v] # None
        BY <2>3, <2>6, <2>7, <2>12, <3>2 DEF Holds, Holding, At
      <4>2. local[v].id <= counter[r] /\ r \in 1..Len(rels)
        BY <1>1, <1>2, <4>1 DEF IdInv, Ids
      <4>3. local'[v].id <= counter'[r]
        BY <2>4, <2>10, <4>1, <4>2
      <4>4. \A m \in messages : m.rel = r => m.id # local'[v].id
        BY <1>1, <4>1 DEF IdInv, Ids
      <4>5. ASSUME NEW u \in Workers, u # v, Holds(u, r)' PROVE local'[u].id # local'[v].id
        <5>1. CASE u = w
          <6>1. r = rel /\ local'[u].id = counter[rel] + 1
            BY <2>1, <2>3, <2>8, <4>5, <5>1
          <6> QED
            BY <1>2, <2>10, <4>1, <4>2, <6>1
        <5>2. CASE u # w
          BY <1>1, <2>3, <2>7, <4>1, <4>5, <5>2 DEF IdInv, Ids
        <5> QED
          BY <5>1, <5>2
      <4> QED
        BY <4>3, <4>4, <4>5
    <3> QED
      BY <3>1, <3>2
  <2>13. Ids'
    BY <1>3, <2>11, <2>12 DEF Ids
  <2>14. ResetEarly'
    <3> SUFFICES ASSUME NEW v \in Workers, NEW r \in DOMAIN rels,
                        At(v, "reset")', local'[v].rel = r, r \notin early'
                 PROVE  /\ \A m \in messages : m.rel = r => m.id = ErrId
                        /\ \A u \in Workers : ~Holds(u, r)'
      BY <1>3 DEF ResetEarly
    <3>1. v # w /\ At(v, "reset") /\ local[v].rel = r
      BY <2>3, <2>7, <2>9
    <3>2. r # rel /\ r \notin early
      BY <1>4, <3>1
    <3> QED
      BY <1>1, <2>7, <2>8, <3>1, <3>2 DEF IdInv, ResetEarly
  <2>15. IdsUnique'
    BY <1>1, <1>3, <2>6 DEF IdInv, IdsUnique
  <2>16. RowInv'
    BY <1>3, <1>3a, <2>1, <2>2, IdsRows
  <2> QED
    BY <2>5, <2>13, <2>14, <2>15, <2>16 DEF IInv, IdInv
<1>5. ASSUME local' = [local EXCEPT ![w].id = ErrId, ![w].pc = Stores(w)], UNCHANGED <<counter, early>>
      PROVE  IInv'
  <2> DEFINE l == [local[w] EXCEPT !.id = ErrId, !.pc = Stores(w)]
  <2>1. l \in Local /\ l.id = ErrId /\ l.pc = Stores(w) /\ l.rel = rel
        /\ l.session = local[w].session
    <3>1. Stores(w) \in Pcs /\ ErrId \in Nat
      BY <1>3a, ErrIdAssumption DEF Pcs
    <3> QED
      BY <1>1, <3>1 DEF Local
  <2>2. local' = [local EXCEPT ![w] = l]
    BY <1>5
  <2> HIDE DEF l
  <2>3. local'[w] = l /\ \A v \in Workers : v # w => local'[v] = local[v]
    BY <1>1, <2>2 DEF TypeOK
  <2>4. TypeOK' /\ Found'
    <3>1. TablesOK' /\ Len(sess') >= Len(sess) /\ Len(rels') >= Len(rels)
      BY <1>1, <1>2, <1>3, <1>5 DEF TypeOK, TablesOK, SessRec
    <3>2. l.session \in 0..Len(sess') /\ l.rel \in 0..Len(rels') /\ l.rel # 0
      BY <1>2, <1>3, <2>1
    <3> QED
      BY <1>1, <1>3a, <2>1, <2>2, <3>1, <3>2, WorkerTypes
  <2>5. (Ids /\ ResetEarly /\ IdsUnique)'
    <3>1. ~At(w, "reset")' /\ local'[w].id = ErrId
      BY <1>3a, <2>1, <2>3 DEF At
    <3>2. \A v \in Workers : v # w => Unmoved(v)
      BY <2>3 DEF Unmoved
    <3> QED
      BY <1>1, <1>3, <1>5, <3>1, <3>2, IdsQuiet
  <2>6. RowInv'
    BY <1>3, <1>3a, <2>1, <2>2, IdsRows
  <2> QED
    BY <2>4, <2>5, <2>6 DEF IInv, IdInv
<1>6. ASSUME Goes(w, "answer"), UNCHANGED <<counter, early>> PROVE IInv'
  <2>1. UNCHANGED <<tables, counter, early, raced, requests>> /\ unread' \in [Users \X Users -> Nat]
    BY <1>1, <1>3, <1>6 DEF tables, TypeOK
  <2>2. "answer" \in Pcs \ {"own_add", "peer_add", "rel_add", "reset", "save", "insert", "count"}
    BY DEF Pcs
  <2> QED
    BY <1>1, <1>3, <1>6, <2>1, <2>2, GoesStep
<1> QED
  BY <1>4, <1>5, <1>6 DEF GetMsgId

\* The audio of a message that has its id
LEMMA SaveStep ==
  ASSUME IInv, NEW w \in Workers, NEW works \in BOOLEAN, SkipAudio(w) \/ SaveAudio(w, works)
  PROVE  IInv'
<1>1. IdInv /\ TypeOK /\ Found /\ RowInv /\ local[w] # None /\ local[w] \in Local
      /\ At(w, "save")
  BY LocalOf DEF IInv, IdInv, SkipAudio, SaveAudio, At
<1>2. PICK failed \in SUBSET {"save", "insert", "count"}, pc \in {"insert", "answer"} :
        local' = [local EXCEPT ![w].failed = failed, ![w].pc = pc]
  <2>1. local[w].failed \in SUBSET {"save", "insert", "count"}
    BY <1>1 DEF Local
  <2>2. \/ local' = [local EXCEPT ![w].failed = local[w].failed, ![w].pc = "insert"]
        \/ local' = [local EXCEPT ![w].failed = local[w].failed \cup {"save"}, ![w].pc = "answer"]
    BY DEF SkipAudio, SaveAudio
  <2> QED
    BY <2>1, <2>2
<1> DEFINE l == [local[w] EXCEPT !.failed = failed, !.pc = pc]
<1>3. UNCHANGED <<sess, rels, messages, counter, unread, requests, raced, early>>
      /\ faults' \in 0..MaxFaults
  BY <1>1, Faults DEF SkipAudio, SaveAudio, tables, cache, TypeOK
<1>4. l \in Local /\ l.pc = pc /\ l.rel = local[w].rel /\ l.id = local[w].id
      /\ l.session = local[w].session
  <2>1. pc \in Pcs
    BY DEF Pcs
  <2> QED
    BY <1>1, <2>1 DEF Local
<1>5. local' = [local EXCEPT ![w] = l]
  BY <1>2 DEF TypeOK
<1> HIDE DEF l
<1>6. local'[w] = l /\ \A v \in Workers : v # w => local'[v] = local[v]
  BY <1>1, <1>5 DEF TypeOK
<1>7. TypeOK' /\ Found'
  <2>1. TablesOK' /\ Len(sess') >= Len(sess) /\ Len(rels') >= Len(rels)
    BY <1>1, <1>3 DEF TypeOK, TablesOK, SessRec
  <2>2. l.session \in 0..Len(sess') /\ l.rel \in 0..Len(rels') /\ l.rel # 0
    BY <1>1, <1>3, <1>4, LocalOf DEF At, TypeOK
  <2> QED
    BY <1>1, <1>4, <1>5, <2>1, <2>2, WorkerTypes
<1>8. (Ids /\ ResetEarly /\ IdsUnique)'
  <2>1. /\ Holding(w) /\ ~At(w, "reset")'
        /\ local'[w].id = local[w].id /\ local'[w].rel = local[w].rel
    BY <1>1, <1>4, <1>6 DEF Holding, At
  <2>2. \A v \in Workers : v # w => Unmoved(v)
    BY <1>6 DEF Unmoved
  <2> QED
    BY <1>1, <1>3, <2>1, <2>2, IdsQuiet
<1>9. RowInv'
  BY <1>3, <1>4, <1>5, IdsRows
<1> QED
  BY <1>7, <1>8, <1>9 DEF IInv, IdInv

LEMMA InsertStep ==
  ASSUME IInv, NEW w \in Workers, NEW works \in BOOLEAN, Insert(w, works)
  PROVE  IInv'
<1> DEFINE rel == local[w].rel
           failed == IF works THEN local[w].failed ELSE local[w].failed \cup {"insert"}
           pc == IF works THEN "count" ELSE "answer"
           l == [local[w] EXCEPT !.failed = failed, !.pc = pc]
           new == [rel |-> rel, id |-> local[w].id, number |-> local[w].number]
<1>1. IdInv /\ TypeOK /\ Found /\ local[w] # None /\ local[w] \in Local /\ At(w, "insert")
  BY LocalOf DEF IInv, IdInv, Insert, At
<1>2. rel \in 1..Len(rels) /\ local[w].session \in 0..Len(sess)
      /\ Len(rels) \in Nat /\ Len(sess) \in Nat
  <2>1. rel \in 0..Len(rels) /\ local[w].session \in 0..Len(sess)
        /\ Len(rels) \in Nat /\ Len(sess) \in Nat
    BY <1>1, LocalOf
  <2>2. rel # 0
    BY <1>1 DEF At, TypeOK
  <2> QED
    BY <2>1, <2>2
<1>3. UNCHANGED <<sess, rels, counter, unread, requests, raced, early>> /\ faults' \in 0..MaxFaults
  BY <1>1, Faults DEF Insert, cache
<1>4. new \in [rel : 1..Len(rels), id : Nat, number : 1..MaxRequests]
      /\ new.rel = rel /\ new.id = local[w].id
  BY <1>1, <1>2 DEF Local
<1>5. messages' = (IF works THEN messages \cup {new} ELSE messages)
      /\ local' = [local EXCEPT ![w] = l]
  BY DEF Insert
<1>6. l \in Local /\ l.pc = pc /\ l.rel = rel /\ l.session = local[w].session
  <2>1. failed \in SUBSET {"save", "insert", "count"} /\ pc \in Pcs
    BY <1>1 DEF Local, Pcs
  <2> HIDE DEF failed, pc
  <2> QED
    BY <1>1, <2>1 DEF Local
<1>7. pc \in {"count", "answer"}
  OBVIOUS
<1> HIDE DEF l, pc, new
<1>8. local'[w] = l /\ \A v \in Workers : v # w => local'[v] = local[v]
  BY <1>1, <1>5 DEF TypeOK
<1>9. TypeOK' /\ Found'
  <2>1. TablesOK' /\ Len(sess') >= Len(sess) /\ Len(rels') >= Len(rels)
    BY <1>1, <1>2, <1>3, <1>4, <1>5 DEF TypeOK, TablesOK, SessRec
  <2>2. l.session \in 0..Len(sess') /\ l.rel \in 0..Len(rels') /\ l.rel # 0
    BY <1>2, <1>3, <1>6
  <2> QED
    BY <1>1, <1>5, <1>6, <1>7, <2>1, <2>2, WorkerTypes
<1>10. ~(At(w, "reset") \/ Holding(w))'
  BY <1>6, <1>7, <1>8 DEF At, Holding
<1>11. \A v \in Workers : \A r : /\ Holds(v, r)' => v # w /\ Holds(v, r) /\ local'[v] = local[v]
                                 /\ At(v, "reset")' => v # w /\ At(v, "reset") /\ local'[v] = local[v]
  BY <1>8, <1>10 DEF Holds, Holding, At
<1>12. (Ids /\ ResetEarly /\ IdsUnique)'
  <2>1. CASE messages' = messages
    <3>1. \A v \in Workers : v # w => Unmoved(v)
      BY <1>8 DEF Unmoved
    <3> QED
      BY <1>1, <1>3, <1>10, <2>1, <3>1, IdsQuiet
  <2>2. CASE messages' = messages \cup {new}
    <3>1. new.id # ErrId => Holds(w, rel)
      BY <1>1, <1>4 DEF Holds, Holding
    <3>2. \A m \in messages' : m.rel \notin early /\ m.id # ErrId => m.id <= counter[m.rel]
      BY <1>1, <1>2, <1>4, <2>2, <3>1 DEF IdInv, Ids, TypeOK
    <3>3. ASSUME NEW v \in Workers, NEW r \in DOMAIN rels, Holds(v, r)', r \notin early
          PROVE  /\ local'[v].id <= counter[r]
                 /\ \A m \in messages' : m.rel = r => m.id # local'[v].id
                 /\ \A u \in Workers : u # v /\ Holds(u, r)' => local'[u].id # local'[v].id
      <4>1. v # w /\ Holds(v, r) /\ local'[v] = local[v]
        BY <1>11, <3>3
      <4>2. local'[v].id <= counter[r] /\ \A m \in messages : m.rel = r => m.id # local'[v].id
        BY <1>1, <3>3, <4>1 DEF IdInv, Ids
      <4>3. new.rel = r => new.id # local'[v].id
        <5>1. CASE new.id = ErrId
          BY <4>1, <5>1 DEF Holds, Holding
        <5>2. CASE new.id # ErrId /\ new.rel = r
          <6>1. Holds(w, r)
            BY <1>4, <3>1, <5>2
          <6> QED
            BY <1>1, <1>4, <3>3, <4>1, <6>1 DEF IdInv, Ids
        <5> QED
          BY <5>1, <5>2
      <4>4. \A u \in Workers : u # v /\ Holds(u, r)' => local'[u].id # local'[v].id
        BY <1>1, <1>11, <3>3, <4>1 DEF IdInv, Ids
      <4> QED
        BY <2>2, <4>2, <4>3, <4>4
    <3>4. Ids'
      BY <1>3, <3>2, <3>3 DEF Ids
    <3>5. ResetEarly'
      <4> SUFFICES ASSUME NEW v \in Workers, NEW r \in DOMAIN rels,
                          At(v, "reset")', local'[v].rel = r, r \notin early
                   PROVE  /\ \A m \in messages' : m.rel = r => m.id = ErrId
                          /\ \A u \in Workers : ~Holds(u, r)'
        BY <1>3 DEF ResetEarly
      <4>1. At(v, "reset") /\ local[v].rel = r
        BY <1>11
      <4>2. (\A m \in messages : m.rel = r => m.id = ErrId) /\ \A u \in Workers : ~Holds(u, r)
        BY <1>1, <4>1 DEF IdInv, ResetEarly
      <4> QED
        BY <1>4, <1>11, <2>2, <3>1, <4>2
    <3>6. IdsUnique'
      <4>1. ASSUME NEW m \in messages, m.rel = rel, m.id = new.id
            PROVE  m.id = ErrId \/ rel \in early
        BY <1>1, <1>2, <1>4, <3>1, <4>1 DEF IdInv, Ids, TypeOK
      <4> QED
        BY <1>1, <1>3, <1>4, <2>2, <4>1 DEF IdInv, IdsUnique
    <3> QED
      BY <3>4, <3>5, <3>6
  <2> QED
    BY <1>5, <2>1, <2>2
<1>13. RowInv'
  BY <1>3, <1>5, <1>6, <1>7, IdsRows
<1> QED
  BY <1>9, <1>12, <1>13 DEF IInv, IdInv

LEMMA ResetStep ==
  ASSUME IInv, NEW w \in Workers, NEW works \in BOOLEAN, Reset(w, works)
  PROVE  IInv'
<1> DEFINE rel == local[w].rel
           l == [local[w] EXCEPT !.pc = "id"]
<1>1. IdInv /\ TypeOK /\ Found /\ local[w] # None /\ local[w] \in Local /\ At(w, "reset")
  BY LocalOf DEF IInv, IdInv, Reset, At
<1>2. rel \in 1..Len(rels) /\ local[w].session \in 0..Len(sess)
      /\ Len(rels) \in Nat /\ Len(sess) \in Nat
  <2>1. rel \in 0..Len(rels) /\ local[w].session \in 0..Len(sess)
        /\ Len(rels) \in Nat /\ Len(sess) \in Nat
    BY <1>1, LocalOf
  <2>2. rel # 0
    BY <1>1 DEF At, TypeOK
  <2> QED
    BY <2>1, <2>2
<1>3. UNCHANGED <<sess, rels, messages, unread, requests, raced, early>> /\ faults' \in 0..MaxFaults
  BY <1>1, Faults DEF Reset, tables
<1>4. local' = [local EXCEPT ![w] = l]
  BY DEF Reset, Goes
<1>5. l \in Local /\ l.pc = "id" /\ l.rel = rel /\ l.session = local[w].session
  <2>1. "id" \in Pcs
    BY DEF Pcs
  <2> QED
    BY <1>1, <2>1 DEF Local
<1> HIDE DEF l
<1>6. local'[w] = l /\ \A v \in Workers : v # w => local'[v] = local[v]
  BY <1>1, <1>4 DEF TypeOK
<1>7. counter' \in Seq(Nat) /\ Len(counter') = Len(rels)
      /\ \A r \in 1..Len(rels) : r # rel => counter'[r] = counter[r]
  <2>1. counter \in Seq(Nat) /\ Len(counter) = Len(rels) /\ rel \in 1..Len(counter) /\ 0 \in Nat
    BY <1>1, <1>2 DEF TypeOK
  <2>2. counter' = [counter EXCEPT ![rel] = 0] \/ counter' = counter
    BY DEF Reset
  <2>3. CASE counter' = [counter EXCEPT ![rel] = 0]
    <3> HIDE DEF rel
    <3> QED
      BY <2>1, <2>3, ExceptSeq
  <2> QED
    BY <2>1, <2>2, <2>3
<1>8. TypeOK' /\ Found'
  <2>1. TablesOK' /\ Len(sess') >= Len(sess) /\ Len(rels') >= Len(rels)
    BY <1>1, <1>2, <1>3, <1>7 DEF TypeOK, TablesOK, SessRec
  <2>2. l.session \in 0..Len(sess') /\ l.rel \in 0..Len(rels')
    BY <1>2, <1>3, <1>5
  <2> QED
    BY <1>1, <1>4, <1>5, <2>1, <2>2, WorkerTypes
<1>9. ~(At(w, "reset") \/ Holding(w))'
  BY <1>5, <1>6 DEF At, Holding
<1>10. \A v \in Workers : \A r : /\ Holds(v, r)' => v # w /\ Holds(v, r) /\ local'[v] = local[v]
                                 /\ At(v, "reset")' => v # w /\ At(v, "reset") /\ local'[v] = local[v]
  BY <1>6, <1>9 DEF Holds, Holding, At
<1>11. rel \notin early => /\ \A m \in messages : m.rel = rel => m.id = ErrId
                           /\ \A v \in Workers : ~Holds(v, rel)
  BY <1>1, <1>2 DEF IdInv, ResetEarly, TypeOK
<1>12. Ids'
  <2>1. ASSUME NEW m \in messages, m.rel \notin early, m.id # ErrId PROVE m.id <= counter'[m.rel]
    <3>1. m.rel # rel /\ m.rel \in 1..Len(rels)
      BY <1>1, <1>11, <2>1 DEF TypeOK
    <3> QED
      BY <1>1, <1>7, <2>1, <3>1 DEF IdInv, Ids
  <2>2. ASSUME NEW v \in Workers, NEW r \in DOMAIN rels, Holds(v, r)', r \notin early
        PROVE  /\ local'[v].id <= counter'[r]
               /\ \A m \in messages : m.rel = r => m.id # local'[v].id
               /\ \A u \in Workers : u # v /\ Holds(u, r)' => local'[u].id # local'[v].id
    <3>1. Holds(v, r) /\ local'[v] = local[v]
      BY <1>10, <2>2
    <3>2. r # rel /\ r \in 1..Len(rels)
      BY <1>1, <1>11, <2>2, <3>1 DEF TypeOK
    <3>3. local[v].id <= counter[r] /\ (\A m \in messages : m.rel = r => m.id # local[v].id)
          /\ \A u \in Workers : u # v /\ Holds(u, r) => local[u].id # local[v].id
      BY <1>1, <2>2, <3>1 DEF IdInv, Ids
    <3>4. counter'[r] = counter[r]
      BY <1>7, <3>2
    <3>5. \A u \in Workers : Holds(u, r)' => Holds(u, r) /\ local'[u] = local[u]
      BY <1>10
    <3> QED
      BY <3>1, <3>3, <3>4, <3>5
  <2> QED
    BY <1>3, <2>1, <2>2 DEF Ids
<1>13. ResetEarly'
  BY <1>1, <1>3, <1>10 DEF IdInv, ResetEarly
<1>14. IdsUnique'
  BY <1>1, <1>3 DEF IdInv, IdsUnique
<1>15. RowInv'
  BY <1>3, <1>4, <1>5, IdsRows
<1> QED
  BY <1>8, <1>12, <1>13, <1>14, <1>15 DEF IInv, IdInv

-----------------------------------------------------------------------------
(* The inserts of addSession and addRelation *)

\* What the others are about to insert while worker w inserts a row
LEMMA OthersAdding ==
  ASSUME TypeOK, NEW w \in Workers, \A v \in Workers : v # w => local'[v] = local[v],
         Adding(w)' = <<>>, NEW v \in Workers, Adding(v)' # <<>>
  PROVE  v # w /\ Adding(v)' = Adding(v) /\ local'[v].blind = local[v].blind
<1>1. v # w /\ local'[v] = local[v]
  OBVIOUS
<1> QED
  BY <1>1 DEF Adding, Own, Peer, Pair, From, To

\* A worker that inserts races, or there is no row.
LEMMA InsertsFirst ==
  ASSUME Unseen, NEW w \in Workers, Adding(w) # <<>>, NoteRace(w)
  PROVE  /\ raced \subseteq raced'
         /\ Adding(w) \in raced' \/ KeyRows(Adding(w)) = {}
         /\ \A v \in Workers : v # w /\ Adding(v) = Adding(w) => Adding(w) \in raced'
BY DEF Unseen, NoteRace

LEMMA AddStep ==
  ASSUME IInv, NEW w \in Workers, NEW works \in BOOLEAN, local[w] # None,
         \/ Add(w, "own_add", Own(w), "peer", works)
         \/ Add(w, "peer_add", Peer(w), "rel", works)
  PROVE  IInv'
<1>1. IdInv /\ TypeOK /\ Found /\ RowInv /\ local[w] \in Local /\ Len(sess) \in Nat /\ Len(rels) \in Nat
      /\ local[w].session \in 0..Len(sess) /\ local[w].rel \in 0..Len(rels)
  BY LocalOf DEF IInv, IdInv
<1>2. PICK pc \in {"own_add", "peer_add"}, next \in {"peer", "rel"}, key \in {Own(w), Peer(w)} :
        /\ key = IF pc = "own_add" THEN Own(w) ELSE Peer(w)
        /\ Add(w, pc, key, next, works)
  OBVIOUS
<1> DEFINE old == local[w].found
           new == [user |-> key[1], peer |-> key[2], shown |-> TRUE]
           Edited(session) == [local EXCEPT ![w] = [local[w] EXCEPT !.session = session, !.pc = next]]
<1>3. UNCHANGED <<rels, messages, counter, unread, requests, early>> /\ faults' \in 0..MaxFaults
      /\ local[w].pc = pc
  BY <1>1, <1>2, Faults DEF Add, cache, At
<1>4. old \in 0..Len(sess)
  BY <1>1, <1>3 DEF Found
<1>5. new \in SessRec /\ new.user = key[1] /\ new.peer = key[2] /\ key = <<key[1], key[2]>>
  BY <1>1, <1>2, LocalOf DEF SessRec, Own, Peer
<1>6. ASSUME NEW session \in Nat, session \in 0..Len(sess'), Len(sess') >= Len(sess), Len(sess') \in Nat,
             sess' \in Seq(SessRec),
             local' = Edited(session)
      PROVE  /\ TypeOK' /\ Found' /\ (Ids /\ ResetEarly /\ IdsUnique)'
             /\ Adding(w)' = <<>> /\ \A v \in Workers : v # w => local'[v] = local[v]
             /\ \A v \in Workers : Unmoved(v) \/ ~(At(v, "own_add") \/ At(v, "peer_add") \/ At(v, "rel_add"))'
  <2> DEFINE l == [local[w] EXCEPT !.session = session, !.pc = next]
  <2>1. l \in Local /\ l.pc = next /\ l.rel = local[w].rel /\ l.session = session
    <3>1. next \in Pcs
      BY DEF Pcs
    <3> QED
      BY <1>1, <3>1 DEF Local
  <2>2. local' = [local EXCEPT ![w] = l]
    BY <1>6
  <2> HIDE DEF l
  <2>3. local'[w] = l /\ \A v \in Workers : v # w => local'[v] = local[v]
    BY <1>1, <2>2 DEF TypeOK
  <2>4. TypeOK' /\ Found'
    <3>1. TablesOK' /\ Len(rels') >= Len(rels)
      BY <1>1, <1>3, <1>6 DEF TypeOK, TablesOK
    <3>2. l.rel \in 0..Len(rels')
      BY <1>1, <1>3, <2>1
    <3> QED
      BY <1>1, <1>6, <2>1, <2>2, <3>1, <3>2, WorkerTypes
  <2>5. (Ids /\ ResetEarly /\ IdsUnique)'
    <3>1. ~(At(w, "reset") \/ Holding(w))'
      BY <2>1, <2>3 DEF At, Holding
    <3>2. \A v \in Workers : v # w => Unmoved(v)
      BY <2>3 DEF Unmoved
    <3> QED
      BY <1>1, <1>3, <3>1, <3>2, IdsQuiet
  <2>6. Adding(w)' = <<>>
    BY <2>1, <2>3 DEF Adding
  <2>7. \A v \in Workers : Unmoved(v) \/ ~(At(v, "own_add") \/ At(v, "peer_add") \/ At(v, "rel_add"))'
    BY <2>1, <2>3 DEF Unmoved, At
  <2> QED
    BY <2>3, <2>4, <2>5, <2>6, <2>7
<1>7. CASE ~works \/ old # 0
  <2>1. SameKeys /\ UNCHANGED raced
    <3>1. CASE ~works
      BY <1>1, <1>2, <3>1 DEF Add, SameKeys, TypeOK, SessRec
    <3>2. CASE works /\ old # 0
      <4>1. sess' = [sess EXCEPT ![old].shown = TRUE] /\ UNCHANGED raced
        BY <1>2, <3>2 DEF Add
      <4> QED
        BY <1>1, <1>4, <4>1, ShownUpdate DEF TypeOK, SessRec
    <3> QED
      BY <1>7, <3>1, <3>2
  <2>2. \E session \in 0..Len(sess) : local' = Edited(session)
    <3>1. CASE ~works
      <4>1. local' = Edited(0)
        BY <1>2, <3>1 DEF Add
      <4> HIDE DEF Edited
      <4> QED
        BY <1>1, <4>1
    <3>2. CASE works /\ old # 0
      <4>1. local' = Edited(old)
        BY <1>2, <3>2 DEF Add
      <4> HIDE DEF Edited
      <4> QED
        BY <1>4, <4>1
    <3> QED
      BY <1>7, <3>1, <3>2
  <2>3. Len(sess') = Len(sess) /\ sess' \in Seq(SessRec)
    BY <2>1 DEF SameKeys
  <2>4. /\ TypeOK' /\ Found' /\ (Ids /\ ResetEarly /\ IdsUnique)'
        /\ \A v \in Workers : Unmoved(v) \/ ~(At(v, "own_add") \/ At(v, "peer_add") \/ At(v, "rel_add"))'
    <3> HIDE DEF Edited
    <3>1. PICK session \in 0..Len(sess) : local' = Edited(session)
      BY <2>2
    <3> QED
      BY <1>1, <1>6, <2>3, <3>1
  <2>5. RowInv'
    BY <1>1, <1>3, <2>1, <2>4, RowsQuiet
  <2> QED
    BY <2>4, <2>5 DEF IInv, IdInv
<1>8. CASE works /\ old = 0
  <2>1. sess' = Append(sess, new) /\ NoteRace(w)
        /\ local' = Edited(Len(sess) + 1)
    BY <1>2, <1>8 DEF Add
  <2> HIDE DEF Edited
  <2> HIDE DEF new
  <2>2. sess' \in Seq(SessRec) /\ Len(sess') = Len(sess) + 1
        /\ (\A i \in 1..Len(sess) : sess'[i] = sess[i]) /\ sess'[Len(sess) + 1] = new
    BY <1>1, <1>5, <2>1, AppendProperties DEF TypeOK, SessRec
  <2>3. /\ TypeOK' /\ Found' /\ (Ids /\ ResetEarly /\ IdsUnique)'
        /\ Adding(w)' = <<>> /\ \A v \in Workers : v # w => local'[v] = local[v]
    BY <1>1, <1>6, <2>1, <2>2
  <2>4. Adding(w) = key /\ key # <<>> /\ KeyRows(key) = SessRows(key)
    BY <1>2, <1>3, <1>5, <1>8, KeyRowsOf DEF Adding, Own, Peer
  <2>5. /\ raced \subseteq raced'
        /\ key \in raced' \/ SessRows(key) = {}
        /\ \A v \in Workers : v # w /\ Adding(v) = key => key \in raced'
    BY <1>1, <2>1, <2>4, InsertsFirst DEF RowInv
  <2>6. DOMAIN sess = 1..Len(sess) /\ DOMAIN sess' = 1..(Len(sess) + 1)
    BY <1>1, <2>2 DEF TypeOK
  <2>7. \A k : k[1] # key[1] \/ k[2] # key[2] => SessRows(k)' = SessRows(k)
    BY <1>1, <1>5, <2>2, <2>6 DEF SessRows
  <2>8. Unseen'
    <3> SUFFICES ASSUME NEW v \in Workers, Adding(v)' # <<>>, ~local'[v].blind
                 PROVE  Adding(v)' \in raced' \/ KeyRows(Adding(v))' = {}
      BY DEF Unseen
    <3>1. v # w /\ Adding(v)' = Adding(v) /\ local'[v].blind = local[v].blind
      BY <1>1, <2>3, OthersAdding
    <3>2. Adding(v) \in raced \/ KeyRows(Adding(v)) = {}
      BY <1>1, <3>1 DEF RowInv, Unseen
    <3>3. CASE Adding(v) = key
      BY <2>5, <3>1, <3>3
    <3>4. CASE Adding(v) # key
      <4>1. Adding(v) = <<Pair(v)>> \/ \E a, b : Adding(v) = <<a, b>>
        BY <3>1 DEF Adding, Own, Peer
      <4>2. CASE Adding(v) = <<Pair(v)>>
        <5>1. KeyRows(Adding(v))' = KeyRows(Adding(v))
          BY <1>3, <3>1, <4>2 DEF KeyRows, RelRows
        <5> QED
          BY <2>5, <3>1, <3>2, <5>1
      <4>3. CASE \E a, b : Adding(v) = <<a, b>>
        <5>1. PICK a, b : Adding(v) = <<a, b>>
          BY <4>3
        <5>2. a # key[1] \/ b # key[2]
          BY <1>5, <3>4, <5>1
        <5>3. SessRows(<<a, b>>)' = SessRows(<<a, b>>)
          BY <2>7, <5>2
        <5>4. KeyRows(<<a, b>>)' = SessRows(<<a, b>>)' /\ KeyRows(<<a, b>>) = SessRows(<<a, b>>)
          BY DEF KeyRows
        <5> QED
          BY <2>5, <3>1, <3>2, <5>1, <5>3, <5>4
      <4> QED
        BY <4>1, <4>2, <4>3
    <3> QED
      BY <3>3, <3>4
  <2>9. OneRow'
    <3>1. ASSUME NEW i \in DOMAIN sess', NEW j \in DOMAIN sess', i # j,
                 sess'[i].user = sess'[j].user, sess'[i].peer = sess'[j].peer
          PROVE  <<sess'[i].user, sess'[i].peer>> \in raced'
      <4>1. CASE i \in DOMAIN sess /\ j \in DOMAIN sess
        BY <1>1, <2>2, <2>5, <2>6, <3>1, <4>1 DEF RowInv, OneRow
      <4>2. ASSUME NEW k \in DOMAIN sess, sess[k].user = new.user, sess[k].peer = new.peer
            PROVE  <<new.user, new.peer>> \in raced'
        <5>1. k \in SessRows(key)
          BY <1>5, <4>2 DEF SessRows, new
        <5> QED
          BY <1>5, <2>5, <5>1 DEF new
      <4>3. CASE i = Len(sess) + 1
        <5>1. j \in DOMAIN sess /\ sess'[j] = sess[j] /\ sess'[i] = new
          BY <1>1, <2>2, <2>6, <3>1, <4>3
        <5> QED
          BY <3>1, <4>2, <5>1
      <4>4. CASE j = Len(sess) + 1
        <5>1. i \in DOMAIN sess /\ sess'[i] = sess[i] /\ sess'[j] = new
          BY <1>1, <2>2, <2>6, <3>1, <4>4
        <5> QED
          BY <3>1, <4>2, <5>1
      <4> QED
        BY <1>1, <2>6, <4>1, <4>3, <4>4
    <3>2. \A i, j \in DOMAIN rels' : rels'[i] = rels'[j] /\ i # j => <<rels'[i]>> \in raced'
      BY <1>1, <1>3, <2>5 DEF RowInv, OneRow
    <3> QED
      BY <3>1, <3>2 DEF OneRow
  <2> QED
    BY <2>3, <2>8, <2>9 DEF IInv, IdInv, RowInv
<1> QED
  BY <1>7, <1>8

LEMMA AddRelationStep ==
  ASSUME IInv, NEW w \in Workers, NEW works \in BOOLEAN, AddRelation(w, works)
  PROVE  IInv'
<1> DEFINE old == local[w].found
           Edited(rel, pc) == [local EXCEPT ![w] = [local[w] EXCEPT !.rel = rel, !.pc = pc]]
<1>1. IdInv /\ TypeOK /\ Found /\ RowInv /\ local[w] # None /\ local[w] \in Local
      /\ local[w].pc = "rel_add" /\ Len(sess) \in Nat /\ Len(rels) \in Nat
      /\ local[w].session \in 0..Len(sess) /\ Pair(w) \in SUBSET Users
  BY LocalOf DEF IInv, IdInv, AddRelation, At, Pair
<1>2. UNCHANGED <<sess, messages, unread, requests, early>> /\ faults' \in 0..MaxFaults
  BY <1>1, Faults DEF AddRelation
<1>3. old \in 0..Len(rels)
  BY <1>1 DEF Found
<1>4. ASSUME NEW rel \in Nat, NEW pc \in {"id", "reset"}, local' = Edited(rel, pc)
      PROVE  \E l \in Local : /\ local' = [local EXCEPT ![w] = l] /\ local'[w] = l
                              /\ \A v \in Workers : v # w => local'[v] = local[v]
                              /\ l.pc = pc /\ l.rel = rel /\ l.session = local[w].session
  <2> DEFINE l == [local[w] EXCEPT !.rel = rel, !.pc = pc]
  <2>1. l \in Local /\ l.pc = pc /\ l.rel = rel /\ l.session = local[w].session
    <3>1. pc \in Pcs
      BY DEF Pcs
    <3> QED
      BY <1>1, <3>1 DEF Local
  <2>2. local' = [local EXCEPT ![w] = l]
    BY <1>4
  <2> HIDE DEF l
  <2>3. local'[w] = l /\ \A v \in Workers : v # w => local'[v] = local[v]
    BY <1>1, <2>2 DEF TypeOK
  <2> QED
    BY <2>1, <2>2, <2>3
<1>5. CASE ~works \/ old # 0
  <2>1. UNCHANGED <<rels, counter, raced>>
    BY <1>5 DEF AddRelation
  <2>2. local' = Edited(0, "id") \/ local' = Edited(old, "id")
    BY <1>5 DEF AddRelation, ResetsIds
  <2> HIDE DEF Edited
  <2>3. PICK rel \in 0..Len(rels) : local' = Edited(rel, "id")
    BY <1>1, <1>3, <2>2
  <2>4. PICK l \in Local : /\ local' = [local EXCEPT ![w] = l]
                           /\ l.pc = "id" /\ l.rel = rel /\ l.session = local[w].session
    BY <1>1, <1>4, <2>3
  <2>5. UNCHANGED <<tables, counter, early, raced>> /\ unread' \in [Users \X Users -> Nat]
        /\ requests' \in 0..MaxRequests
    BY <1>1, <1>2, <2>1 DEF tables, TypeOK
  <2> QED
    BY <1>1, <1>2, <2>4, <2>5, QuietStep
<1>6. CASE works /\ old = 0
  <2> DEFINE new == Len(rels) + 1
  <2>1. rels' = Append(rels, Pair(w)) /\ counter' = Append(counter, 0) /\ NoteRace(w)
        /\ local' = Edited(new, "reset")
    BY <1>6 DEF AddRelation, ResetsIds
  <2> HIDE DEF Edited
  <2>2. PICK l \in Local : /\ local' = [local EXCEPT ![w] = l] /\ local'[w] = l
                           /\ \A v \in Workers : v # w => local'[v] = local[v]
                           /\ l.pc = "reset" /\ l.rel = new /\ l.session = local[w].session
    <3>1. new \in Nat
      BY <1>1
    <3> HIDE DEF new
    <3> QED
      BY <1>4, <2>1, <3>1
  <2>3. /\ rels' \in Seq(SUBSET Users) /\ Len(rels') = new
        /\ (\A i \in 1..Len(rels) : rels'[i] = rels[i]) /\ rels'[new] = Pair(w)
    BY <1>1, <2>1, AppendProperties DEF TypeOK
  <2>4. /\ counter' \in Seq(Nat) /\ Len(counter') = new
        /\ \A i \in 1..Len(rels) : counter'[i] = counter[i]
    <3>1. counter \in Seq(Nat) /\ Len(counter) = Len(rels) /\ 0 \in Nat
      BY <1>1 DEF TypeOK
    <3> QED
      BY <2>1, <3>1, AppendProperties
  <2>5. DOMAIN rels = 1..Len(rels) /\ DOMAIN rels' = 1..new
    BY <1>1, <2>3 DEF TypeOK
  <2>6. \A m \in messages : m.rel \in 1..Len(rels)
    BY <1>1 DEF TypeOK
  <2>7. TypeOK' /\ Found'
    <3>1. TablesOK' /\ Len(sess') >= Len(sess) /\ Len(rels') >= Len(rels)
      <4>1. messages' \subseteq [rel : 1..Len(rels'), id : Nat, number : 1..MaxRequests]
        <5>1. 1..Len(rels) \subseteq 1..Len(rels')
          BY <1>1, <2>3
        <5> QED
          BY <1>1, <1>2, <5>1 DEF TypeOK
      <4>2. early' \subseteq 1..Len(rels')
        BY <1>1, <1>2, <2>3 DEF TypeOK
      <4> QED
        BY <1>1, <1>2, <2>3, <2>4, <4>1, <4>2 DEF TypeOK, TablesOK, SessRec
    <3>2. l.session \in 0..Len(sess') /\ l.rel \in 0..Len(rels') /\ l.rel # 0
      BY <1>1, <1>2, <2>2, <2>3
    <3> QED
      BY <1>1, <2>2, <3>1, <3>2, WorkerTypes
  <2>8. \A v \in Workers : \A r : Holds(v, r)' =>
          v # w /\ Holds(v, r) /\ local'[v] = local[v] /\ r \in 1..Len(rels)
    <3> SUFFICES ASSUME NEW v \in Workers, NEW r, Holds(v, r)'
                 PROVE  v # w /\ Holds(v, r) /\ local'[v] = local[v] /\ r \in 1..Len(rels)
      OBVIOUS
    <3>1. v # w
      BY <2>2 DEF Holds, Holding, At
    <3>2. local'[v] = local[v] /\ Holds(v, r)
      BY <2>2, <3>1 DEF Holds, Holding, At
    <3>3. local[v] # None /\ local[v].rel = r /\ r # 0 /\ local[v].rel \in 0..Len(rels)
      BY <1>1, <3>2 DEF Holds, Holding, At, TypeOK
    <3> QED
      BY <1>1, <3>1, <3>2, <3>3
  <2>9. Ids'
    <3>1. \A m \in messages : m.rel \notin early /\ m.id # ErrId => m.id <= counter'[m.rel]
      BY <1>1, <2>4, <2>6 DEF IdInv, Ids
    <3>2. ASSUME NEW v \in Workers, NEW r \in DOMAIN rels', Holds(v, r)', r \notin early
          PROVE  /\ local'[v].id <= counter'[r]
                 /\ \A m \in messages : m.rel = r => m.id # local'[v].id
                 /\ \A u \in Workers : u # v /\ Holds(u, r)' => local'[u].id # local'[v].id
      <4>1. Holds(v, r) /\ local'[v] = local[v] /\ r \in 1..Len(rels)
        BY <2>8, <3>2
      <4>2. local[v].id <= counter[r] /\ (\A m \in messages : m.rel = r => m.id # local[v].id)
            /\ \A u \in Workers : u # v /\ Holds(u, r) => local[u].id # local[v].id
        BY <1>1, <2>5, <3>2, <4>1 DEF IdInv, Ids
      <4>3. counter'[r] = counter[r]
        BY <2>4, <4>1
      <4>4. \A u \in Workers : Holds(u, r)' => Holds(u, r) /\ local'[u] = local[u]
        BY <2>8
      <4> QED
        BY <4>1, <4>2, <4>3, <4>4
    <3> QED
      BY <1>2, <3>1, <3>2 DEF Ids
  <2>10. ResetEarly'
    <3> SUFFICES ASSUME NEW v \in Workers, NEW r \in DOMAIN rels',
                        At(v, "reset")', local'[v].rel = r, r \notin early
                 PROVE  /\ \A m \in messages : m.rel = r => m.id = ErrId
                        /\ \A u \in Workers : ~Holds(u, r)'
      BY <1>2 DEF ResetEarly
    <3>1. CASE v = w
      <4>1. r \notin 1..Len(rels)
        BY <1>1, <2>2, <3>1
      <4> QED
        BY <2>6, <2>8, <4>1
    <3>2. CASE v # w
      <4>1. At(v, "reset") /\ local[v].rel = r /\ local[v] # None
        BY <2>2, <3>2 DEF At
      <4>2. r \in DOMAIN rels
        BY <1>1, <2>5, <4>1 DEF At, TypeOK
      <4> QED
        BY <1>1, <2>8, <4>1, <4>2 DEF IdInv, ResetEarly
    <3> QED
      BY <3>1, <3>2
  <2>11. IdsUnique'
    BY <1>1, <1>2 DEF IdInv, IdsUnique
  <2>12. Adding(w) = <<Pair(w)>> /\ Adding(w) # <<>> /\ KeyRows(Adding(w)) = RelRows(Pair(w))
    BY <1>1, <1>6, KeyRowsOf DEF Adding
  <2>13. /\ raced \subseteq raced'
         /\ <<Pair(w)>> \in raced' \/ RelRows(Pair(w)) = {}
         /\ \A v \in Workers : v # w /\ Adding(v) = <<Pair(w)>> => <<Pair(w)>> \in raced'
    BY <1>1, <2>1, <2>12, InsertsFirst DEF RowInv
  <2>14. Adding(w)' = <<>>
    BY <2>2 DEF Adding
  <2>15. Unseen'
    <3> SUFFICES ASSUME NEW v \in Workers, Adding(v)' # <<>>, ~local'[v].blind
                 PROVE  Adding(v)' \in raced' \/ KeyRows(Adding(v))' = {}
      BY DEF Unseen
    <3>1. v # w /\ Adding(v)' = Adding(v) /\ local'[v].blind = local[v].blind
      BY <1>1, <2>2, <2>14, OthersAdding
    <3>2. Adding(v) \in raced \/ KeyRows(Adding(v)) = {}
      BY <1>1, <3>1 DEF RowInv, Unseen
    <3>3. CASE Adding(v) = <<Pair(w)>>
      BY <2>13, <3>1, <3>3
    <3>4. CASE Adding(v) # <<Pair(w)>>
      <4>1. KeyRows(Adding(v))' = KeyRows(Adding(v))
        <5>1. CASE \E a, b : Adding(v) = <<a, b>>
          BY <1>2, <3>1, <5>1 DEF KeyRows, SessRows
        <5>2. CASE Adding(v) = <<Pair(v)>>
          <6>1. Pair(v) # Pair(w)
            BY <3>4, <5>2
          <6>2. {i \in DOMAIN rels' : rels'[i] = Pair(v)} = {i \in DOMAIN rels : rels[i] = Pair(v)}
            BY <1>1, <2>3, <2>5, <6>1
          <6> QED
            BY <3>1, <5>2, <6>2 DEF KeyRows, RelRows
        <5>3. Adding(v) = <<Pair(v)>> \/ \E a, b : Adding(v) = <<a, b>>
          BY <3>1 DEF Adding, Own, Peer
        <5> QED
          BY <5>1, <5>2, <5>3
      <4> QED
        BY <2>13, <3>1, <3>2, <4>1
    <3> QED
      BY <3>3, <3>4
  <2>16. OneRow'
    <3>1. ASSUME NEW i \in DOMAIN rels', NEW j \in DOMAIN rels', i # j, rels'[i] = rels'[j]
          PROVE  <<rels'[i]>> \in raced'
      <4>1. CASE i \in DOMAIN rels /\ j \in DOMAIN rels
        BY <1>1, <2>3, <2>5, <2>13, <3>1, <4>1 DEF RowInv, OneRow
      <4>2. ASSUME NEW k \in DOMAIN rels, rels[k] = Pair(w) PROVE <<Pair(w)>> \in raced'
        <5>1. k \in RelRows(Pair(w))
          BY <4>2 DEF RelRows
        <5> QED
          BY <2>13, <5>1
      <4>3. CASE i = new \/ j = new
        BY <1>1, <2>3, <2>5, <3>1, <4>2, <4>3
      <4> QED
        BY <1>1, <2>5, <4>1, <4>3
    <3>2. \A i, j \in DOMAIN sess' :
            sess'[i].user = sess'[j].user /\ sess'[i].peer = sess'[j].peer /\ i # j =>
              <<sess'[i].user, sess'[i].peer>> \in raced'
      BY <1>1, <1>2, <2>13 DEF RowInv, OneRow
    <3> QED
      BY <3>1, <3>2 DEF OneRow
  <2> QED
    BY <2>7, <2>9, <2>10, <2>11, <2>15, <2>16 DEF IInv, IdInv, RowInv
<1> QED
  BY <1>5, <1>6

-----------------------------------------------------------------------------
(* The theorems *)

LEMMA InitInv == Init => IInv
<1> SUFFICES ASSUME Init PROVE IInv
  OBVIOUS
<1>1. TypeOK
  BY BoundAssumption DEF Init, TypeOK
<1>2. Found /\ Ids /\ ResetEarly /\ IdsUnique
  BY DEF Init, Found, Ids, ResetEarly, IdsUnique, Holds, Holding, At
<1>3. Unseen /\ OneRow
  BY DEF Init, Unseen, OneRow, Adding
<1> QED
  BY <1>1, <1>2, <1>3 DEF IInv, IdInv, RowInv

LEMMA StutterInv == IInv /\ UNCHANGED vars => IInv'
<1> SUFFICES ASSUME IInv, UNCHANGED vars PROVE IInv'
  OBVIOUS
<1> USE DEF vars, tables, cache
<1>1. TypeOK' /\ Found'
  BY DEF IInv, IdInv, TypeOK, Found
<1>2. (Ids /\ ResetEarly /\ IdsUnique)'
  BY DEF IInv, IdInv, Ids, ResetEarly, IdsUnique, Holds, Holding, At
<1>3. RowInv'
  <2>1. SameKeys /\ \A v \in Workers : Unmoved(v)
    BY DEF IInv, IdInv, TypeOK, SameKeys, SessRec, Unmoved
  <2> QED
    BY <2>1, RowsQuiet DEF IInv, IdInv
<1> QED
  BY <1>1, <1>2, <1>3 DEF IInv, IdInv

LEMMA NextInv == IInv /\ [Next]_vars => IInv'
<1> SUFFICES ASSUME IInv, Next PROVE IInv'
  BY StutterInv
<1>1. PICK w \in Workers :
        \/ \E r \in Requests : Take(w, r)
        \/ Answer(w) \/ GetMsgId(w) \/ NoMsgId(w) \/ SkipAudio(w)
        \/ \E works \in BOOLEAN :
             \/ FindOwn(w, works) \/ FindPeer(w, works)
             \/ /\ local[w] # None
                /\ \/ Look(w, "own_look", Own(w), "own_add", works)
                   \/ Look(w, "peer_look", Peer(w), "peer_add", works)
                   \/ Add(w, "own_add", Own(w), "peer", works)
                   \/ Add(w, "peer_add", Peer(w), "rel", works)
             \/ FindRelation(w, works) \/ LookRelation(w, works) \/ AddRelation(w, works)
             \/ Reset(w, works)
             \/ SaveAudio(w, works) \/ Insert(w, works) \/ Count(w, works)
             \/ FindRemoved(w, works) \/ Hide(w, works) \/ Clear(w, works)
  BY DEF Next
<1>2. CASE \E r \in Requests : Take(w, r)
  BY <1>2, TakeStep
<1>3. CASE Answer(w)
  BY <1>3, AnswerStep
<1>4. CASE GetMsgId(w)
  BY <1>4, GetMsgIdStep
<1>5. CASE NoMsgId(w)
  BY <1>5, MoveStep
<1>6. ASSUME NEW works \in BOOLEAN,
             FindOwn(w, works) \/ FindRemoved(w, works) \/ FindPeer(w, works) \/ FindRelation(w, works)
      PROVE  IInv'
  BY <1>6, FindStep, MoveStep, FindRelationStep
<1>7. ASSUME NEW works \in BOOLEAN, local[w] # None,
             \/ Look(w, "own_look", Own(w), "own_add", works)
             \/ Look(w, "peer_look", Peer(w), "peer_add", works)
      PROVE  IInv'
  BY <1>7, LookStep
<1>8. ASSUME NEW works \in BOOLEAN, local[w] # None,
             \/ Add(w, "own_add", Own(w), "peer", works)
             \/ Add(w, "peer_add", Peer(w), "rel", works)
      PROVE  IInv'
  BY <1>8, AddStep
<1>9. ASSUME NEW works \in BOOLEAN, LookRelation(w, works) \/ AddRelation(w, works)
      PROVE  IInv'
  BY <1>9, LookRelationStep, AddRelationStep
<1>10. ASSUME NEW works \in BOOLEAN, Reset(w, works) \/ Insert(w, works) \/ Count(w, works)
       PROVE  IInv'
  BY <1>10, ResetStep, InsertStep, CountStep
<1>11. ASSUME NEW works \in BOOLEAN, Hide(w, works) \/ Clear(w, works)
       PROVE  IInv'
  BY <1>11, HideStep, ClearStep
<1>12. ASSUME NEW works \in BOOLEAN, SkipAudio(w) \/ SaveAudio(w, works)
       PROVE  IInv'
  BY <1>12, SaveStep
<1>13. TRUE \in BOOLEAN
  OBVIOUS
<1> QED
  BY <1>1, <1>2, <1>3, <1>4, <1>5, <1>6, <1>7, <1>8, <1>9, <1>10, <1>11, <1>12, <1>13

\* The inductive invariant holds.
THEOREM MessageStoreInvariant == Spec => []IInv
BY InitInv, NextInv, PTL DEF Spec

\* Every value has its type, and the row ids that a worker carries from one statement to the next
\* (nSessionId, nRelateId) are those of rows.
THEOREM MessageStoreTypeOK == Spec => []TypeOK
<1>1. IInv => TypeOK
  BY DEF IInv, IdInv
<1> QED
  BY <1>1, MessageStoreInvariant, PTL

\* Messages of a relation have different ids, unless redis gave none or addRelation reset them
\* after one was taken.
THEOREM MessageStoreIdsUnique == Spec => []IdsUnique
<1>1. IInv => IdsUnique
  BY DEF IInv, IdInv
<1> QED
  BY <1>1, MessageStoreInvariant, PTL

\* There is one row for a session and one for a relation, unless two workers looked for it before
\* either inserted it, or a look failed.
THEOREM MessageStoreOneRow == Spec => []OneRow
<1>1. IInv => OneRow
  BY DEF IInv, RowInv
<1> QED
  BY <1>1, MessageStoreInvariant, PTL

-----------------------------------------------------------------------------
(* A message that is answered with an id reaches its receiver.  What a     *)
(* worker has done for it so far is still there, or is known to be undone: *)
(* rows keep their users, rows and messages stay, and whoever hides the    *)
(* session or clears the count marks the request as over.                  *)

Sends(w) == local[w].request.kind \in Sendings

\* The statements after the receiver's session is shown
Past == {"rel", "rel_look", "rel_add", "reset", "id", "save", "insert", "count", "answer"}

\* The rows that a worker holds are of its users.
OwnRows(w) ==
    /\ At(w, "peer_add") /\ local[w].found # 0 => local[w].found \in SessRows(Peer(w))
    /\ At(w, "hide") => local[w].session \in SessRows(Own(w))
    /\ At(w, "rel_add") /\ local[w].found # 0 => local[w].found \in RelRows(Pair(w))
    /\ local[w].rel # 0 => local[w].rel \in RelRows(Pair(w))

\* An id is taken with a session, by a request that sends.
Numbered(w) ==
    /\ local[w].id # 0 => local[w].session # 0 /\ local[w].pc \in {"save", "insert", "count", "answer"}
    /\ local[w].pc \in {"find", "hide", "clear"} => ~Sends(w)

\* The receiver's session is shown from then on.
Seen(w) ==
    Sends(w) /\ local[w].pc \in Past /\ local[w].session # 0
       => ShownRows(Peer(w)) # {} \/ local[w].over

\* The message is in its relation once its insert has not failed.
Stored(w) ==
    (\/ At(w, "count")
     \/ At(w, "answer") /\ local[w].id # 0 /\ local[w].failed \cap {"save", "insert"} = {})
       => \E m \in messages : m.number = local[w].number /\ m.rel = local[w].rel

\* And it is counted.
Counted(w) ==
    Sends(w) /\ At(w, "answer") /\ local[w].id # 0 /\ local[w].failed = {}
       => unread[Peer(w)] > 0 \/ local[w].over

OnItsWay(w) == OwnRows(w) /\ Numbered(w) /\ Seen(w) /\ Stored(w) /\ Counted(w)

ReachInv == \A w \in Workers : local[w] # None => OnItsWay(w)

\* Whatever a statement does, rows stay with their users, and messages stay.
Grows ==
    /\ \A k \in Users \X Users : SessRows(k) \subseteq SessRows(k)'
    /\ \A p \in SUBSET Users : RelRows(p) \subseteq RelRows(p)'
    /\ messages \subseteq messages'

\* What is shown and counted for key k stays so.
Keeps(k) ==
    /\ ShownRows(k) # {} => ShownRows(k)' # {}
    /\ unread[k] > 0 => unread'[k] > 0

LEMMA ReachInit == Init => ReachInv
BY DEF Init, ReachInv

LEMMA UsersOf ==
  ASSUME TypeOK, NEW w \in Workers, local[w] # None
  PROVE  /\ local[w] \in Local /\ Own(w) \in Users \X Users /\ Peer(w) \in Users \X Users
         /\ Pair(w) \in SUBSET Users
BY LocalOf DEF Pair

LEMMA SameUsers ==
  ASSUME NEW w \in Workers, local'[w].request = local[w].request
  PROVE  /\ Own(w)' = Own(w) /\ Peer(w)' = Peer(w) /\ Pair(w)' = Pair(w)
         /\ Sends(w)' <=> Sends(w)
BY DEF Own, Peer, Pair, From, To, Sends

\* A worker that does not move keeps what it has done.
LEMMA OthersOnTheirWay ==
  ASSUME TypeOK, NEW v \in Workers, Unmoved(v), local'[v] # None, Grows,
         local[v] # None => OnItsWay(v),
         Sends(v) => Keeps(Peer(v)) \/ local'[v].over
  PROVE  OnItsWay(v)'
<1>1. local[v] # None
  BY UnmovedWorker
<1>2. local[v] \in Local
  BY <1>1 DEF TypeOK
<1>3. /\ local'[v].request = local[v].request /\ local'[v].pc = local[v].pc
      /\ local'[v].session = local[v].session /\ local'[v].found = local[v].found
      /\ local'[v].rel = local[v].rel /\ local'[v].id = local[v].id
      /\ local'[v].number = local[v].number /\ local'[v].failed = local[v].failed
      /\ local[v].over => local'[v].over
  <2>1. CASE local'[v] = local[v]
    BY <2>1
  <2>2. CASE local'[v] = [local[v] EXCEPT !.over = TRUE]
    BY <1>2, <2>2 DEF Local
  <2> QED
    BY <2>1, <2>2 DEF Unmoved
<1>4. /\ Own(v)' = Own(v) /\ Peer(v)' = Peer(v) /\ Pair(v)' = Pair(v)
      /\ Sends(v)' <=> Sends(v)
  BY <1>3, SameUsers
<1>5. Own(v) \in Users \X Users /\ Peer(v) \in Users \X Users /\ Pair(v) \in SUBSET Users
  BY <1>1, UsersOf
<1>6. \A pc : At(v, pc)' <=> At(v, pc)
  BY <1>1, <1>3 DEF At
<1>7. SessRows(Peer(v)) \subseteq SessRows(Peer(v))' /\ SessRows(Own(v)) \subseteq SessRows(Own(v))'
      /\ RelRows(Pair(v)) \subseteq RelRows(Pair(v))'
  <2>1. \A k \in Users \X Users : k = Peer(v) => SessRows(k)' = SessRows(Peer(v))'
    BY <1>4 DEF SessRows
  <2>2. \A k \in Users \X Users : k = Own(v) => SessRows(k)' = SessRows(Own(v))'
    BY <1>4 DEF SessRows
  <2>3. \A p \in SUBSET Users : p = Pair(v) => RelRows(p)' = RelRows(Pair(v))'
    BY <1>4 DEF RelRows
  <2> QED
    BY <1>5, <2>1, <2>2, <2>3 DEF Grows
<1>8. OwnRows(v)'
  BY <1>1, <1>3, <1>6, <1>7 DEF OnItsWay, OwnRows
<1>9. Numbered(v)'
  BY <1>1, <1>3, <1>4 DEF OnItsWay, Numbered
<1>10. Seen(v)'
  <2>1. \A k \in Users \X Users : k = Peer(v) => ShownRows(k)' = ShownRows(Peer(v))'
    BY <1>4 DEF ShownRows, SessRows
  <2> QED
    BY <1>1, <1>3, <1>4, <1>5, <2>1 DEF OnItsWay, Seen, Keeps
<1>11. Stored(v)'
  BY <1>1, <1>3, <1>6 DEF OnItsWay, Stored, Grows
<1>12. Counted(v)'
  BY <1>1, <1>3, <1>4, <1>6 DEF OnItsWay, Counted, Keeps
<1> QED
  BY <1>8, <1>9, <1>10, <1>11, <1>12 DEF OnItsWay

\* One worker moves on, and nothing that is shown or counted is undone.
LEMMA OneOnItsWay ==
  ASSUME TypeOK, ReachInv, NEW w \in Workers, Grows,
         \A v \in Workers : v # w => local'[v] = local[v],
         \A k \in Users \X Users : Keeps(k),
         local'[w] # None => OnItsWay(w)'
  PROVE  ReachInv'
<1>1. ASSUME NEW v \in Workers, v # w, local'[v] # None PROVE OnItsWay(v)'
  <2>1. Unmoved(v) /\ local[v] # None /\ OnItsWay(v)
    BY <1>1 DEF Unmoved, ReachInv
  <2>2. Keeps(Peer(v))
    <3>1. Peer(v) \in Users \X Users
      BY <2>1, UsersOf
    <3>2. Peer(v)' = Peer(v)
      BY <1>1, SameUsers
    <3>3. \A k \in Users \X Users : k = Peer(v) => ShownRows(k)' = ShownRows(Peer(v))'
      BY <3>2 DEF ShownRows, SessRows
    <3> QED
      BY <3>1, <3>2, <3>3 DEF Keeps
  <2> QED
    BY <1>1, <2>1, <2>2, OthersOnTheirWay
<1> QED
  BY <1>1 DEF ReachInv

\* Without a change of the tables, everything is kept.
LEMMA TablesKept ==
  ASSUME UNCHANGED <<sess, rels, unread>>, messages \subseteq messages'
  PROVE  /\ Grows /\ \A k : Keeps(k)
         /\ \A k : SessRows(k)' = SessRows(k) /\ ShownRows(k)' = ShownRows(k)
         /\ \A p : RelRows(p)' = RelRows(p)
BY DEF Grows, Keeps, SessRows, ShownRows, RelRows

LEMMA TakeOnItsWay ==
  ASSUME TypeOK, ReachInv, NEW w \in Workers, NEW r \in Requests, Take(w, r)
  PROVE  ReachInv'
<1>1. Grows /\ \A k \in Users \X Users : Keeps(k)
  BY TablesKept DEF Take, tables, cache
<1>2. \A v \in Workers : v # w => local'[v] = local[v]
  BY DEF Take, TypeOK
<1>3. OnItsWay(w)'
  <2> DEFINE pc == CASE r.kind \in Sendings -> "own"
                     [] r.kind = "remove" -> "find"
                     [] r.kind = "read" -> "clear"
  <2>1. local'[w] = [request |-> r, number |-> requests + 1, session |-> 0, found |-> 0,
                     blind |-> FALSE, rel |-> 0, id |-> 0, failed |-> {}, over |-> FALSE, pc |-> pc]
    BY DEF Take, TypeOK
  <2>2. r.kind \in Kinds
    BY RequestsAssumption
  <2>3. pc \in {"own", "find", "clear"} /\ (pc # "own" => r.kind \notin Sendings)
    BY <2>2 DEF Kinds, Sendings
  <2> HIDE DEF pc
  <2>4. /\ local'[w].rel = 0 /\ local'[w].id = 0 /\ local'[w].session = 0
        /\ local'[w].pc \in {"own", "find", "clear"}
        /\ local'[w].request = r /\ local'[w].pc = pc
    BY <2>1, <2>3
  <2>5. OwnRows(w)' /\ Stored(w)' /\ Counted(w)'
    BY <2>4 DEF OwnRows, Stored, Counted, At
  <2>6. Numbered(w)' /\ Seen(w)'
    BY <2>3, <2>4 DEF Numbered, Seen, Sends
  <2> QED
    BY <2>5, <2>6 DEF OnItsWay
<1> QED
  BY <1>1, <1>2, <1>3, OneOnItsWay

LEMMA AnswerOnItsWay ==
  ASSUME TypeOK, ReachInv, NEW w \in Workers, Answer(w)
  PROVE  ReachInv'
<1>1. Grows /\ \A k \in Users \X Users : Keeps(k)
  BY TablesKept DEF Answer, tables, cache
<1>2. local'[w] = None /\ \A v \in Workers : v # w => local'[v] = local[v]
  BY DEF Answer, TypeOK
<1> QED
  BY <1>1, <1>2, OneOnItsWay

\* A statement that leaves the tables alone leaves its worker with rows of its users: those it
\* held, and those it has just found.
LEMMA LooksOnItsWay ==
  ASSUME TypeOK, ReachInv, NEW w \in Workers, local[w] # None,
         UNCHANGED <<sess, rels, unread>>, messages \subseteq messages',
         \A v \in Workers : v # w => local'[v] = local[v],
         local'[w].request = local[w].request,
         local'[w].pc = "peer_add" /\ local'[w].found # 0 => local'[w].found \in SessRows(Peer(w)),
         local'[w].pc = "hide" => local'[w].session \in SessRows(Own(w)),
         local'[w].pc = "rel_add" /\ local'[w].found # 0 => local'[w].found \in RelRows(Pair(w)),
         local'[w].rel # local[w].rel /\ local'[w].rel # 0 => local'[w].rel \in RelRows(Pair(w)),
         Numbered(w)', Seen(w)', Stored(w)', Counted(w)'
  PROVE  ReachInv'
<1>1. Grows /\ (\A k \in Users \X Users : Keeps(k))
      /\ (\A k : SessRows(k)' = SessRows(k)) /\ (\A p : RelRows(p)' = RelRows(p))
  BY TablesKept
<1>2. Own(w)' = Own(w) /\ Peer(w)' = Peer(w) /\ Pair(w)' = Pair(w)
  BY SameUsers
<1>3. SessRows(Peer(w))' = SessRows(Peer(w)) /\ SessRows(Own(w))' = SessRows(Own(w))
      /\ RelRows(Pair(w))' = RelRows(Pair(w))
  BY <1>2 DEF SessRows, RelRows
<1>4. OwnRows(w)'
  BY <1>3 DEF OwnRows, At, ReachInv, OnItsWay
<1>5. OnItsWay(w)'
  BY <1>4 DEF OnItsWay
<1> QED
  BY <1>1, <1>5, OneOnItsWay

LEMMA FindOnItsWay ==
  ASSUME TypeOK, TypeOK', ReachInv, NEW w \in Workers, NEW works \in BOOLEAN,
         FindOwn(w, works) \/ FindRemoved(w, works)
  PROVE  ReachInv'
<1> DEFINE row == IF works THEN LastRow(ShownRows(Own(w))) ELSE 0
<1>1. local[w] # None /\ local[w] \in Local /\ OnItsWay(w)
  BY UsersOf DEF FindOwn, FindRemoved, At, ReachInv
<1>2. /\ local[w].pc \in {"own", "find"} /\ local[w].id = 0
      /\ UNCHANGED <<sess, rels, unread, messages>>
  BY <1>1 DEF FindOwn, FindRemoved, At, OnItsWay, Numbered, tables, cache
<1>3. row # 0 => row \in SessRows(Own(w))
  <2>1. ShownRows(Own(w)) \subseteq 1..Len(sess) /\ Len(sess) \in Nat
    BY RowIds
  <2> QED
    BY <2>1, ResultRow DEF ShownRows
<1> HIDE DEF row
<1>4. PICK pc \in {"peer", "own_look", "hide", "answer"} :
        /\ local' = [local EXCEPT ![w].session = row, ![w].pc = pc]
        /\ pc = "hide" => row # 0 /\ local[w].pc = "find"
        /\ pc = "answer" => row = 0
  BY <1>1 DEF FindOwn, FindRemoved, At, row
<1>5. local'[w] = [local[w] EXCEPT !.session = row, !.pc = pc]
      /\ \A v \in Workers : v # w => local'[v] = local[v]
  BY <1>4 DEF TypeOK
<1>6. /\ local'[w].request = local[w].request /\ local'[w].rel = local[w].rel
      /\ local'[w].id = 0 /\ local'[w].pc = pc /\ local'[w].session = row
  BY <1>1, <1>2, <1>5 DEF Local
<1>8. Numbered(w)'
  BY <1>1, <1>2, <1>4, <1>6 DEF OnItsWay, Numbered, Sends
<1>9. Seen(w)'
  BY <1>4, <1>6 DEF Seen, Past
<1>10. Stored(w)' /\ Counted(w)'
  BY <1>4, <1>6 DEF Stored, Counted, At
<1> QED
  BY <1>1, <1>2, <1>3, <1>4, <1>5, <1>6, <1>8, <1>9, <1>10, LooksOnItsWay

LEMMA FindPeerOnItsWay ==
  ASSUME TypeOK, ReachInv, NEW w \in Workers, NEW works \in BOOLEAN, FindPeer(w, works)
  PROVE  ReachInv'
<1>1. local[w] # None /\ local[w] \in Local /\ OnItsWay(w)
  BY UsersOf DEF FindPeer, At, ReachInv
<1>2. /\ local[w].pc = "peer" /\ local[w].id = 0
      /\ UNCHANGED <<sess, rels, unread, messages>>
  BY <1>1 DEF FindPeer, At, OnItsWay, Numbered, tables, cache
<1>3. PICK pc \in {"rel", "peer_look"} :
        Goes(w, pc) /\ (pc = "rel" => ShownRows(Peer(w)) # {})
  BY DEF FindPeer
<1>4. /\ local'[w] = [local[w] EXCEPT !.pc = pc]
      /\ \A v \in Workers : v # w => local'[v] = local[v]
  BY <1>3 DEF Goes, TypeOK
<1>5. /\ local'[w].request = local[w].request /\ local'[w].rel = local[w].rel
      /\ local'[w].id = 0 /\ local'[w].pc = pc
  BY <1>1, <1>2, <1>4 DEF Local
<1>6. Numbered(w)' /\ Stored(w)' /\ Counted(w)'
  BY <1>5 DEF Numbered, Stored, Counted, At
<1>7. Seen(w)'
  <2>1. ShownRows(Peer(w))' = ShownRows(Peer(w))
    BY <1>2, <1>5, SameUsers DEF ShownRows, SessRows
  <2> QED
    BY <1>3, <1>5, <2>1 DEF Seen, Past
<1> QED
  BY <1>1, <1>2, <1>4, <1>5, <1>6, <1>7, LooksOnItsWay

LEMMA LookOnItsWay ==
  ASSUME TypeOK, ReachInv, NEW w \in Workers, NEW works \in BOOLEAN, local[w] # None,
         \/ Look(w, "own_look", Own(w), "own_add", works)
         \/ Look(w, "peer_look", Peer(w), "peer_add", works)
         \/ LookRelation(w, works)
  PROVE  ReachInv'
<1>1. local[w] \in Local /\ OnItsWay(w)
  BY UsersOf DEF ReachInv
<1>2. /\ local[w].pc \in {"own_look", "peer_look", "rel_look"} /\ local[w].id = 0
      /\ UNCHANGED <<sess, rels, unread, messages>>
  BY <1>1 DEF Look, LookRelation, At, OnItsWay, Numbered, tables, cache
<1>3. PICK pc \in {"own_add", "peer_add", "rel_add"}, found \in Nat, blind \in BOOLEAN :
        /\ local' = [local EXCEPT ![w].found = found, ![w].blind = blind, ![w].pc = pc]
        /\ pc = "peer_add" /\ found # 0 => found \in SessRows(Peer(w))
        /\ pc = "rel_add" => local[w].pc = "rel_look"
        /\ pc = "rel_add" /\ found # 0 => found \in RelRows(Pair(w))
  <2>1. CASE Look(w, "own_look", Own(w), "own_add", works)
    <3> DEFINE found == IF works THEN LastRow(SessRows(Own(w))) ELSE 0
    <3>1. found \in Nat
      BY RowIds, ResultRow
    <3>2. local' = [local EXCEPT ![w].found = found, ![w].blind = ~works, ![w].pc = "own_add"]
      BY <2>1 DEF Look
    <3> HIDE DEF found
    <3> QED
      BY <3>1, <3>2
  <2>2. CASE Look(w, "peer_look", Peer(w), "peer_add", works)
    <3> DEFINE found == IF works THEN LastRow(SessRows(Peer(w))) ELSE 0
    <3>1. found \in Nat /\ (found # 0 => found \in SessRows(Peer(w)))
      BY RowIds, ResultRow
    <3>2. local' = [local EXCEPT ![w].found = found, ![w].blind = ~works, ![w].pc = "peer_add"]
      BY <2>2 DEF Look
    <3> HIDE DEF found
    <3> QED
      BY <3>1, <3>2
  <2>3. CASE LookRelation(w, works)
    <3> DEFINE found == IF works THEN FirstRow(RelRows(Pair(w))) ELSE 0
    <3>1. found \in Nat /\ (found # 0 => found \in RelRows(Pair(w)))
      BY RowIds, ResultRow
    <3>2. /\ local' = [local EXCEPT ![w].found = found, ![w].blind = ~works, ![w].pc = "rel_add"]
          /\ local[w].pc = "rel_look"
      BY <2>3 DEF LookRelation, At
    <3> HIDE DEF found
    <3> QED
      BY <3>1, <3>2
  <2> QED
    BY <2>1, <2>2, <2>3
<1>4. /\ local'[w] = [local[w] EXCEPT !.found = found, !.blind = blind, !.pc = pc]
      /\ \A v \in Workers : v # w => local'[v] = local[v]
  BY <1>3 DEF TypeOK
<1>5. /\ local'[w].request = local[w].request /\ local'[w].rel = local[w].rel
      /\ local'[w].id = 0 /\ local'[w].pc = pc /\ local'[w].found = found
      /\ local'[w].session = local[w].session /\ local'[w].over = local[w].over
  BY <1>1, <1>2, <1>4 DEF Local
<1>6. Numbered(w)' /\ Stored(w)' /\ Counted(w)'
  BY <1>5 DEF Numbered, Stored, Counted, At
<1>7. Seen(w)'
  <2>1. ShownRows(Peer(w))' = ShownRows(Peer(w)) /\ (Sends(w)' <=> Sends(w))
    BY <1>2, <1>5, SameUsers DEF ShownRows, SessRows
  <2> QED
    BY <1>1, <1>3, <1>5, <2>1 DEF OnItsWay, Seen, Past
<1> QED
  BY <1>1, <1>2, <1>3, <1>4, <1>5, <1>6, <1>7, LooksOnItsWay

LEMMA FindRelationOnItsWay ==
  ASSUME TypeOK, ReachInv, NEW w \in Workers, NEW works \in BOOLEAN, FindRelation(w, works)
  PROVE  ReachInv'
<1> DEFINE row == IF works THEN LastRow(RelRows(Pair(w))) ELSE 0
<1>1. local[w] # None /\ local[w] \in Local /\ OnItsWay(w)
  BY UsersOf DEF FindRelation, At, ReachInv
<1>2. /\ local[w].pc = "rel" /\ local[w].id = 0
      /\ UNCHANGED <<sess, rels, unread, messages>>
  BY <1>1 DEF FindRelation, At, OnItsWay, Numbered, tables, cache
<1>3. row \in Nat /\ (row # 0 => row \in RelRows(Pair(w)))
  BY RowIds, ResultRow
<1> HIDE DEF row
<1>4. PICK pc \in {"id", "rel_look"}, rel \in {row, local[w].rel} :
        local'[w] = [local[w] EXCEPT !.rel = rel, !.pc = pc]
  <2>1. CASE Goes(w, "id")
    <3>1. local'[w] = [local[w] EXCEPT !.pc = "id"]
      BY <2>1 DEF Goes, TypeOK
    <3>2. [local[w] EXCEPT !.pc = "id"] = [local[w] EXCEPT !.rel = local[w].rel, !.pc = "id"]
      BY <1>1 DEF Local
    <3> QED
      BY <3>1, <3>2
  <2>2. ASSUME NEW pc \in {"id", "rel_look"}, local' = [local EXCEPT ![w].rel = row, ![w].pc = pc]
        PROVE  local'[w] = [local[w] EXCEPT !.rel = row, !.pc = pc]
    BY <2>2 DEF TypeOK
  <2>3. \/ Goes(w, "id")
        \/ \E pc \in {"id", "rel_look"} : local' = [local EXCEPT ![w].rel = row, ![w].pc = pc]
    BY DEF FindRelation, row
  <2> QED
    BY <2>1, <2>2, <2>3
<1>5. \A v \in Workers : v # w => local'[v] = local[v]
  BY DEF FindRelation, Goes, TypeOK
<1>6. /\ local'[w].request = local[w].request /\ local'[w].rel = rel
      /\ local'[w].id = 0 /\ local'[w].pc = pc
      /\ local'[w].session = local[w].session /\ local'[w].over = local[w].over
  BY <1>1, <1>2, <1>4 DEF Local
<1>7. Numbered(w)' /\ Stored(w)' /\ Counted(w)'
  BY <1>6 DEF Numbered, Stored, Counted, At
<1>8. Seen(w)'
  <2>1. ShownRows(Peer(w))' = ShownRows(Peer(w)) /\ (Sends(w)' <=> Sends(w))
    BY <1>2, <1>6, SameUsers DEF ShownRows, SessRows
  <2> QED
    BY <1>1, <1>2, <1>6, <2>1 DEF OnItsWay, Seen, Past
<1> QED
  BY <1>1, <1>2, <1>3, <1>5, <1>6, <1>7, <1>8, LooksOnItsWay

\* The statements that take the id
LEMMA IdOnItsWay ==
  ASSUME TypeOK, ReachInv, NEW w \in Workers, NEW works \in BOOLEAN,
         Reset(w, works) \/ GetMsgId(w) \/ NoMsgId(w)
  PROVE  ReachInv'
<1>1. local[w] # None /\ local[w] \in Local /\ OnItsWay(w)
  BY UsersOf DEF Reset, GetMsgId, NoMsgId, At, ReachInv
<1>2. /\ local[w].pc \in {"reset", "id"} /\ local[w].id = 0
      /\ UNCHANGED <<sess, rels, unread, messages>>
  BY <1>1 DEF Reset, GetMsgId, NoMsgId, At, OnItsWay, Numbered, tables, cache
<1>2a. Stores(w) \in {"save", "insert"}
  BY DEF Stores
<1>3. PICK pc \in {"id", "save", "insert", "answer"}, id \in {0, ErrId, counter[local[w].rel] + 1} :
        /\ local'[w] = [local[w] EXCEPT !.id = id, !.pc = pc]
        /\ id # 0 => local[w].session # 0 /\ pc = Stores(w)
  <2>1. ASSUME NEW pc \in {"id", "answer"}, Goes(w, pc)
        PROVE  local'[w] = [local[w] EXCEPT !.id = 0, !.pc = pc]
    <3>1. local'[w] = [local[w] EXCEPT !.pc = pc]
      BY <2>1 DEF Goes, TypeOK
    <3> QED
      BY <1>1, <1>2, <3>1 DEF Local
  <2>2. ASSUME NEW id \in {ErrId, counter[local[w].rel] + 1},
               local' = [local EXCEPT ![w].id = id, ![w].pc = Stores(w)]
        PROVE  local'[w] = [local[w] EXCEPT !.id = id, !.pc = Stores(w)]
    BY <2>2 DEF TypeOK
  <2>3. \/ \E pc \in {"id", "answer"} : Goes(w, pc)
        \/ /\ local[w].session # 0
           /\ \E id \in {ErrId, counter[local[w].rel] + 1} :
                local' = [local EXCEPT ![w].id = id, ![w].pc = Stores(w)]
    BY DEF Reset, GetMsgId, NoMsgId
  <2> QED
    BY <1>2a, <2>1, <2>2, <2>3
<1>4. \A v \in Workers : v # w => local'[v] = local[v]
  BY DEF Reset, GetMsgId, NoMsgId, Goes, TypeOK
<1>5. /\ local'[w].request = local[w].request /\ local'[w].rel = local[w].rel
      /\ local'[w].id = id /\ local'[w].pc = pc
      /\ local'[w].session = local[w].session /\ local'[w].over = local[w].over
  BY <1>1, <1>3 DEF Local
<1>6. Numbered(w)' /\ Stored(w)' /\ Counted(w)'
  BY <1>2a, <1>3, <1>5 DEF Numbered, Stored, Counted, At
<1>7. Seen(w)'
  <2>1. ShownRows(Peer(w))' = ShownRows(Peer(w)) /\ (Sends(w)' <=> Sends(w))
    BY <1>2, <1>5, SameUsers DEF ShownRows, SessRows
  <2> QED
    BY <1>1, <1>2, <1>5, <2>1 DEF OnItsWay, Seen, Past
<1> QED
  BY <1>1, <1>2, <1>4, <1>5, <1>6, <1>7, LooksOnItsWay

\* An audio message that is turned away, or whose audio is not saved, is known to fail.
LEMMA SaveOnItsWay ==
  ASSUME TypeOK, ReachInv, NEW w \in Workers, NEW works \in BOOLEAN,
         SkipAudio(w) \/ SaveAudio(w, works)
  PROVE  ReachInv'
<1>1. local[w] # None /\ local[w] \in Local /\ OnItsWay(w)
  BY UsersOf DEF SkipAudio, SaveAudio, At, ReachInv
<1>2. local[w].pc = "save" /\ UNCHANGED <<sess, rels, unread, messages>>
  BY DEF SkipAudio, SaveAudio, At, tables, cache
<1>3. PICK pc \in {"insert", "answer"}, failed \in SUBSET {"save", "insert", "count"} :
        /\ local' = [local EXCEPT ![w].failed = failed, ![w].pc = pc]
        /\ pc = "answer" => "save" \in failed
  <2>1. local[w].failed \in SUBSET {"save", "insert", "count"}
    BY <1>1 DEF Local
  <2>2. \/ local' = [local EXCEPT ![w].failed = local[w].failed, ![w].pc = "insert"]
        \/ local' = [local EXCEPT ![w].failed = local[w].failed \cup {"save"}, ![w].pc = "answer"]
    BY DEF SkipAudio, SaveAudio
  <2>3. CASE local' = [local EXCEPT ![w].failed = local[w].failed, ![w].pc = "insert"]
    BY <2>1, <2>3
  <2>4. CASE local' = [local EXCEPT ![w].failed = local[w].failed \cup {"save"}, ![w].pc = "answer"]
    <3>1. local[w].failed \cup {"save"} \in SUBSET {"save", "insert", "count"}
      BY <2>1
    <3> QED
      BY <2>4, <3>1
  <2> QED
    BY <2>2, <2>3, <2>4
<1>4. /\ local'[w] = [local[w] EXCEPT !.failed = failed, !.pc = pc]
      /\ \A v \in Workers : v # w => local'[v] = local[v]
  BY <1>3 DEF TypeOK
<1>5. /\ local'[w].request = local[w].request /\ local'[w].rel = local[w].rel
      /\ local'[w].id = local[w].id /\ local'[w].pc = pc /\ local'[w].failed = failed
      /\ local'[w].session = local[w].session /\ local'[w].over = local[w].over
  BY <1>1, <1>4 DEF Local
<1>6. Numbered(w)'
  BY <1>1, <1>5 DEF OnItsWay, Numbered
<1>7. Stored(w)' /\ Counted(w)'
  BY <1>3, <1>5 DEF Stored, Counted, At
<1>8. Seen(w)'
  <2>1. ShownRows(Peer(w))' = ShownRows(Peer(w)) /\ (Sends(w)' <=> Sends(w))
    BY <1>2, <1>5, SameUsers DEF ShownRows, SessRows
  <2> QED
    BY <1>1, <1>2, <1>5, <2>1 DEF OnItsWay, Seen, Past
<1> QED
  BY <1>1, <1>2, <1>4, <1>5, <1>6, <1>7, <1>8, LooksOnItsWay

\* The message is stored, and a failure is known.
LEMMA InsertOnItsWay ==
  ASSUME TypeOK, ReachInv, NEW w \in Workers, NEW works \in BOOLEAN, Insert(w, works)
  PROVE  ReachInv'
<1>1. local[w] # None /\ local[w] \in Local /\ OnItsWay(w)
  BY UsersOf DEF Insert, At, ReachInv
<1>2. /\ local[w].pc = "insert" /\ UNCHANGED <<sess, rels, unread>>
      /\ messages \subseteq messages'
  BY DEF Insert, At, cache
<1>3. PICK pc \in {"count", "answer"}, failed \in SUBSET {"save", "insert", "count"} :
        /\ local' = [local EXCEPT ![w].failed = failed, ![w].pc = pc]
        /\ pc = "answer" => "insert" \in failed
        /\ pc = "count" => \E m \in messages' : m.number = local[w].number /\ m.rel = local[w].rel
  <2>1. local[w].failed \in SUBSET {"save", "insert", "count"}
    BY <1>1 DEF Local
  <2>2. CASE works
    <3>1. local' = [local EXCEPT ![w].failed = local[w].failed, ![w].pc = "count"]
      BY <2>2 DEF Insert
    <3>2. [rel |-> local[w].rel, id |-> local[w].id, number |-> local[w].number] \in messages'
      BY <2>2 DEF Insert
    <3> QED
      BY <2>1, <3>1, <3>2
  <2>3. CASE ~works
    <3>1. local' = [local EXCEPT ![w].failed = local[w].failed \cup {"insert"}, ![w].pc = "answer"]
      BY <2>3 DEF Insert
    <3> QED
      BY <2>1, <3>1
  <2> QED
    BY <2>2, <2>3
<1>4. /\ local'[w] = [local[w] EXCEPT !.failed = failed, !.pc = pc]
      /\ \A v \in Workers : v # w => local'[v] = local[v]
  BY <1>3 DEF TypeOK
<1>5. /\ local'[w].request = local[w].request /\ local'[w].rel = local[w].rel
      /\ local'[w].id = local[w].id /\ local'[w].pc = pc /\ local'[w].failed = failed
      /\ local'[w].session = local[w].session /\ local'[w].over = local[w].over
      /\ local'[w].number = local[w].number
  BY <1>1, <1>4 DEF Local
<1>6. Numbered(w)'
  BY <1>1, <1>5 DEF OnItsWay, Numbered
<1>7. Stored(w)' /\ Counted(w)'
  BY <1>3, <1>5 DEF Stored, Counted, At
<1>8. Seen(w)'
  <2>1. ShownRows(Peer(w))' = ShownRows(Peer(w)) /\ (Sends(w)' <=> Sends(w))
    BY <1>2, <1>5, SameUsers DEF ShownRows, SessRows
  <2> QED
    BY <1>1, <1>2, <1>5, <2>1 DEF OnItsWay, Seen, Past
<1> QED
  BY <1>1, <1>2, <1>4, <1>5, <1>6, <1>7, <1>8, LooksOnItsWay

LEMMA CountOnItsWay ==
  ASSUME TypeOK, ReachInv, NEW w \in Workers, NEW works \in BOOLEAN, Count(w, works)
  PROVE  ReachInv'
<1>1. local[w] # None /\ local[w] \in Local /\ OnItsWay(w) /\ Peer(w) \in Users \X Users
  BY UsersOf DEF Count, At, ReachInv
<1>2. local[w].pc = "count" /\ UNCHANGED <<sess, rels, messages>>
  BY DEF Count, At, tables
<1>3. unread \in [Users \X Users -> Nat]
  BY DEF TypeOK
<1>4. Grows /\ \A k \in Users \X Users : Keeps(k)
  <2>1. \A k \in Users \X Users : unread[k] > 0 => unread'[k] > 0
    BY <1>1, <1>3 DEF Count
  <2>2. \A k \in Users \X Users : ShownRows(k)' = ShownRows(k)
    BY <1>2 DEF ShownRows, SessRows
  <2>3. Grows
    BY <1>2 DEF Grows, SessRows, RelRows
  <2> QED
    BY <2>1, <2>2, <2>3 DEF Keeps
<1>5. PICK failed \in SUBSET {"save", "insert", "count"} :
        /\ local' = [local EXCEPT ![w].failed = failed, ![w].pc = "answer"]
        /\ local[w].failed \subseteq failed
        /\ failed = {} => unread'[Peer(w)] > 0
  <2>1. local[w].failed \in SUBSET {"save", "insert", "count"}
    BY <1>1 DEF Local
  <2>2. CASE works
    <3>1. local' = [local EXCEPT ![w].failed = local[w].failed, ![w].pc = "answer"]
      BY <2>2 DEF Count
    <3>2. unread'[Peer(w)] = unread[Peer(w)] + 1
      BY <1>1, <1>3, <2>2 DEF Count
    <3>3. unread[Peer(w)] \in Nat
      BY <1>1, <1>3
    <3>4. unread'[Peer(w)] > 0
      BY <3>2, <3>3
    <3> QED
      BY <2>1, <3>1, <3>4, Zenon
  <2>3. CASE ~works
    <3>1. local' = [local EXCEPT ![w].failed = local[w].failed \cup {"count"}, ![w].pc = "answer"]
      BY <2>3 DEF Count
    <3> QED
      BY <2>1, <3>1
  <2> QED
    BY <2>2, <2>3
<1>6. /\ local'[w] = [local[w] EXCEPT !.failed = failed, !.pc = "answer"]
      /\ \A v \in Workers : v # w => local'[v] = local[v]
  BY <1>5 DEF TypeOK
<1>7. /\ local'[w].request = local[w].request /\ local'[w].rel = local[w].rel
      /\ local'[w].id = local[w].id /\ local'[w].pc = "answer" /\ local'[w].failed = failed
      /\ local'[w].session = local[w].session /\ local'[w].over = local[w].over
      /\ local'[w].number = local[w].number
  BY <1>1, <1>6 DEF Local
<1>8. Own(w)' = Own(w) /\ Peer(w)' = Peer(w) /\ Pair(w)' = Pair(w) /\ (Sends(w)' <=> Sends(w))
  BY <1>7, SameUsers
<1>9. OwnRows(w)'
  <2>1. RelRows(Pair(w))' = RelRows(Pair(w))
    BY <1>2, <1>8 DEF RelRows
  <2> QED
    BY <1>1, <1>7, <2>1 DEF OnItsWay, OwnRows, At
<1>10. Numbered(w)'
  BY <1>1, <1>7 DEF OnItsWay, Numbered
<1>11. Stored(w)'
  BY <1>1, <1>2, <1>7 DEF OnItsWay, Stored, At
<1>12. Counted(w)'
  BY <1>5, <1>7, <1>8 DEF Counted
<1>13. Seen(w)'
  <2>1. ShownRows(Peer(w))' = ShownRows(Peer(w))
    BY <1>2, <1>8 DEF ShownRows, SessRows
  <2> QED
    BY <1>1, <1>2, <1>7, <1>8, <2>1 DEF OnItsWay, Seen, Past
<1>14. OnItsWay(w)'
  BY <1>9, <1>10, <1>11, <1>12, <1>13 DEF OnItsWay
<1> QED
  BY <1>4, <1>6, <1>14, OneOnItsWay

\* A row that is added or shown: no other row changes.
LEMMA RowAdded ==
  ASSUME sess \in Seq(SessRec), NEW key \in Users \X Users, NEW old \in 0..Len(sess),
         old # 0 => old \in SessRows(key),
         sess' = IF old # 0 THEN [sess EXCEPT ![old].shown = TRUE]
                 ELSE Append(sess, [user |-> key[1], peer |-> key[2], shown |-> TRUE])
  PROVE  /\ \A k : SessRows(k) \subseteq SessRows(k)' /\ ShownRows(k) \subseteq ShownRows(k)'
         /\ \E i \in DOMAIN sess' : sess'[i].user = key[1] /\ sess'[i].peer = key[2] /\ sess'[i].shown
<1> DEFINE new == [user |-> key[1], peer |-> key[2], shown |-> TRUE]
<1>1. CASE old # 0
  <2>1. sess' = [sess EXCEPT ![old].shown = TRUE]
    BY <1>1
  <2>2. old \in 1..Len(sess) /\ DOMAIN sess = 1..Len(sess)
    BY <1>1
  <2>3. SameKeys
    BY <2>1, ShownUpdate
  <2>4. DOMAIN sess' = DOMAIN sess
    BY <2>1
  <2>5. sess[old] \in SessRec /\ sess'[old] = [sess[old] EXCEPT !.shown = TRUE]
    <3>1. sess[old] \in SessRec
      BY <2>2
    <3>2. sess'[old] = [sess[old] EXCEPT !.shown = TRUE]
      BY <2>1, <2>2, Zenon
    <3> QED
      BY <3>1, <3>2
  <2>6. sess'[old].shown /\ sess'[old].user = sess[old].user /\ sess'[old].peer = sess[old].peer
    <3>1. ASSUME NEW r \in SessRec
          PROVE  /\ [r EXCEPT !.shown = TRUE].shown
                 /\ [r EXCEPT !.shown = TRUE].user = r.user
                 /\ [r EXCEPT !.shown = TRUE].peer = r.peer
      BY DEF SessRec
    <3> QED
      BY <2>5, <3>1, Zenon
  <2>7. \A j \in DOMAIN sess : sess[j].shown => sess'[j].shown
    BY <2>1, <2>6
  <2>8. \A k : SessRows(k) \subseteq SessRows(k)' /\ ShownRows(k) \subseteq ShownRows(k)'
    BY <2>2, <2>3, <2>4, <2>7 DEF SessRows, ShownRows, SameKeys
  <2>9. sess[old].user = key[1] /\ sess[old].peer = key[2]
    BY <1>1 DEF SessRows
  <2> QED
    BY <2>2, <2>4, <2>6, <2>8, <2>9
<1>2. CASE old = 0
  <2>1. new \in SessRec /\ new.user = key[1] /\ new.peer = key[2] /\ new.shown
    BY DEF SessRec
  <2>2. sess' = Append(sess, new)
    BY <1>2
  <2> HIDE DEF new
  <2>3. /\ Len(sess) \in Nat /\ DOMAIN sess = 1..Len(sess) /\ DOMAIN sess' = 1..Len(sess)+1
        /\ sess'[Len(sess) + 1] = new /\ \A j \in 1..Len(sess) : sess'[j] = sess[j]
    BY <2>1, <2>2
  <2>4. \A k : SessRows(k) \subseteq SessRows(k)' /\ ShownRows(k) \subseteq ShownRows(k)'
    BY <2>3 DEF SessRows, ShownRows
  <2> QED
    BY <2>1, <2>3, <2>4
<1> QED
  BY <1>1, <1>2

LEMMA AddOnItsWay ==
  ASSUME TypeOK, Found, ReachInv, NEW w \in Workers, NEW works \in BOOLEAN, local[w] # None,
         \/ Add(w, "own_add", Own(w), "peer", works)
         \/ Add(w, "peer_add", Peer(w), "rel", works)
  PROVE  ReachInv'
<1>1. local[w] \in Local /\ OnItsWay(w)
      /\ Own(w) \in Users \X Users /\ Peer(w) \in Users \X Users
  BY UsersOf DEF ReachInv
<1>2. PICK pc \in {"own_add", "peer_add"}, next \in {"peer", "rel"}, key \in {Own(w), Peer(w)} :
        /\ next = "rel" <=> pc = "peer_add"
        /\ pc = "peer_add" => key = Peer(w)
        /\ Add(w, pc, key, next, works)
  OBVIOUS
<1> DEFINE old == local[w].found
<1>3. /\ local[w].pc = pc /\ local[w].id = 0 /\ UNCHANGED <<rels, messages, unread>>
      /\ old \in 0..Len(sess) /\ key \in Users \X Users
  BY <1>1, <1>2 DEF Add, At, OnItsWay, Numbered, Found, cache
<1>4. PICK session \in {0, old, Len(sess) + 1} :
        /\ local' = [local EXCEPT ![w].session = session, ![w].pc = next]
        /\ session # 0 => works
  BY <1>2 DEF Add
<1>5. /\ local'[w] = [local[w] EXCEPT !.session = session, !.pc = next]
      /\ \A v \in Workers : v # w => local'[v] = local[v]
  BY <1>4 DEF TypeOK
<1>6. /\ local'[w].request = local[w].request /\ local'[w].rel = local[w].rel
      /\ local'[w].id = 0 /\ local'[w].pc = next /\ local'[w].session = session
  BY <1>1, <1>3, <1>5 DEF Local
<1>7. Own(w)' = Own(w) /\ Peer(w)' = Peer(w) /\ Pair(w)' = Pair(w)
  BY <1>6, SameUsers
<1>8. /\ \A k \in Users \X Users : SessRows(k) \subseteq SessRows(k)' /\ ShownRows(k) \subseteq ShownRows(k)'
      /\ works /\ pc = "peer_add" => ShownRows(Peer(w))' # {}
  <2>1. CASE works /\ (old # 0 => old \in SessRows(key))
    <3>1. sess' = IF old # 0 THEN [sess EXCEPT ![old].shown = TRUE]
                  ELSE Append(sess, [user |-> key[1], peer |-> key[2], shown |-> TRUE])
      BY <1>2, <2>1 DEF Add
    <3>2. sess \in Seq(SessRec)
      BY DEF TypeOK, SessRec
    <3>3. /\ \A k : SessRows(k) \subseteq SessRows(k)' /\ ShownRows(k) \subseteq ShownRows(k)'
          /\ \E i \in DOMAIN sess' : sess'[i].user = key[1] /\ sess'[i].peer = key[2] /\ sess'[i].shown
      <4> HIDE DEF old
      <4> QED
        BY <1>3, <2>1, <3>1, <3>2, RowAdded
    <3> QED
      BY <1>2, <1>7, <3>3 DEF SessRows, ShownRows
  <2>2. CASE works /\ old # 0 /\ old \notin SessRows(key)
    <3>1. pc # "peer_add"
      BY <1>1, <1>2, <1>3, <2>2 DEF OnItsWay, OwnRows, At
    <3>2. sess' = [sess EXCEPT ![old].shown = TRUE]
      BY <1>2, <2>2 DEF Add
    <3>3. sess \in Seq(SessRec)
      BY DEF TypeOK, SessRec
    <3>4. PICK key1 \in Users \X Users : old \in SessRows(key1)
      <4>1. old \in 1..Len(sess) /\ DOMAIN sess = 1..Len(sess)
        BY <1>3, <2>2, <3>3
      <4>2. sess[old] \in SessRec
        BY <3>3, <4>1
      <4>3. <<sess[old].user, sess[old].peer>> \in Users \X Users
        BY <4>2 DEF SessRec
      <4>4. old \in SessRows(<<sess[old].user, sess[old].peer>>)
        BY <4>1 DEF SessRows
      <4> QED
        BY <4>3, <4>4
    <3>5. \A k : SessRows(k) \subseteq SessRows(k)' /\ ShownRows(k) \subseteq ShownRows(k)'
      BY <1>3, <2>2, <3>2, <3>3, <3>4, RowAdded
    <3> QED
      BY <3>1, <3>5
  <2>3. CASE ~works
    <3>1. sess' = sess
      BY <1>2, <2>3 DEF Add
    <3> QED
      BY <2>3, <3>1 DEF SessRows, ShownRows
  <2> QED
    BY <2>1, <2>2, <2>3
<1>9. Grows /\ \A k \in Users \X Users : Keeps(k)
  <2>1. \A p : RelRows(p)' = RelRows(p)
    BY <1>3 DEF RelRows
  <2> QED
    BY <1>3, <1>8, <2>1 DEF Grows, Keeps
<1>10. OwnRows(w)'
  <2>1. RelRows(Pair(w))' = RelRows(Pair(w))
    BY <1>3, <1>7 DEF RelRows
  <2> QED
    BY <1>1, <1>6, <2>1 DEF OnItsWay, OwnRows, At
<1>11. Numbered(w)' /\ Stored(w)' /\ Counted(w)'
  BY <1>6 DEF Numbered, Stored, Counted, At
<1>12. Seen(w)'
  BY <1>2, <1>4, <1>6, <1>8 DEF Seen, Past
<1>13. OnItsWay(w)'
  BY <1>10, <1>11, <1>12 DEF OnItsWay
<1> QED
  BY <1>5, <1>9, <1>13, OneOnItsWay

LEMMA AddRelationOnItsWay ==
  ASSUME TypeOK, ReachInv, NEW w \in Workers, NEW works \in BOOLEAN, AddRelation(w, works)
  PROVE  ReachInv'
<1>1. local[w] # None /\ local[w] \in Local /\ OnItsWay(w) /\ Pair(w) \in SUBSET Users
  BY UsersOf DEF AddRelation, At, ReachInv
<1> DEFINE old == local[w].found
<1>2. /\ local[w].pc = "rel_add" /\ local[w].id = 0 /\ UNCHANGED <<sess, messages, unread>>
      /\ old # 0 => old \in RelRows(Pair(w))
      /\ rels \in Seq(SUBSET Users)
  BY <1>1 DEF AddRelation, At, OnItsWay, OwnRows, Numbered, TypeOK
<1>3. PICK pc \in {"reset", "id"}, rel \in {0, old, Len(rels) + 1} :
        /\ local' = [local EXCEPT ![w].rel = rel, ![w].pc = pc]
        /\ rel # 0 /\ rel # old => rel = Len(rels) + 1 /\ rels' = Append(rels, Pair(w))
  BY DEF AddRelation
<1>4. /\ local'[w] = [local[w] EXCEPT !.rel = rel, !.pc = pc]
      /\ \A v \in Workers : v # w => local'[v] = local[v]
  BY <1>3 DEF TypeOK
<1>5. /\ local'[w].request = local[w].request /\ local'[w].rel = rel
      /\ local'[w].id = 0 /\ local'[w].pc = pc
      /\ local'[w].session = local[w].session /\ local'[w].over = local[w].over
  BY <1>1, <1>2, <1>4 DEF Local
<1>6. Own(w)' = Own(w) /\ Peer(w)' = Peer(w) /\ Pair(w)' = Pair(w) /\ (Sends(w)' <=> Sends(w))
  BY <1>5, SameUsers
<1>7. rels' = rels \/ rels' = Append(rels, Pair(w))
  BY DEF AddRelation
<1>8. /\ Len(rels) \in Nat /\ DOMAIN rels = 1..Len(rels)
      /\ rels' = Append(rels, Pair(w)) => /\ DOMAIN rels' = 1..Len(rels) + 1
                                          /\ rels'[Len(rels) + 1] = Pair(w)
                                          /\ \A i \in 1..Len(rels) : rels'[i] = rels[i]
  BY <1>1, <1>2
<1>9. \A p : RelRows(p) \subseteq RelRows(p)'
  BY <1>7, <1>8 DEF RelRows
<1>10. Grows /\ (\A k \in Users \X Users : Keeps(k)) /\ (\A k : ShownRows(k)' = ShownRows(k))
  BY <1>2, <1>9 DEF Grows, Keeps, SessRows, ShownRows
<1>11. OwnRows(w)'
  <2>1. rel # 0 => rel \in RelRows(Pair(w))'
    <3>1. CASE rel = old
      <4>1. RelRows(Pair(w)) \subseteq RelRows(Pair(w))'
        BY <1>6, <1>7, <1>8 DEF RelRows
      <4> QED
        BY <1>2, <3>1, <4>1
    <3>2. CASE rel # 0 /\ rel # old
      BY <1>3, <1>6, <1>8, <3>2 DEF RelRows
    <3> QED
      BY <3>1, <3>2
  <2> QED
    BY <1>5, <2>1 DEF OwnRows, At
<1>12. Numbered(w)' /\ Stored(w)' /\ Counted(w)'
  BY <1>5 DEF Numbered, Stored, Counted, At
<1>13. Seen(w)'
  <2>1. ShownRows(Peer(w))' = ShownRows(Peer(w))
    BY <1>2, <1>6 DEF ShownRows, SessRows
  <2> QED
    BY <1>1, <1>2, <1>5, <1>6, <2>1 DEF OnItsWay, Seen, Past
<1>14. OnItsWay(w)'
  BY <1>11, <1>12, <1>13 DEF OnItsWay
<1> QED
  BY <1>4, <1>10, <1>14, OneOnItsWay

\* The receiver removes the session or reads: requests to it are marked as over, and those to
\* other users keep what they have.
LEMMA OverOnItsWay ==
  ASSUME TypeOK, ReachInv, NEW w \in Workers, local[w] # None, NEW pc \in {"clear", "answer"},
         GoesOver(w, pc), local[w].pc \in {"hide", "clear"}, Grows,
         UNCHANGED rels,
         \A k \in Users \X Users : k # Own(w) => Keeps(k)
  PROVE  ReachInv'
<1>1. local[w] \in Local /\ OnItsWay(w) /\ Own(w) # Peer(w)
  BY UsersOf, LocalOf DEF ReachInv, Own, Peer
<1>2. /\ local'[w] = [local[w] EXCEPT !.pc = pc]
      /\ \A v \in Workers : v # w => Unmoved(v)
  BY <1>1 DEF GoesOver, Unmoved
<1>3. /\ local'[w].request = local[w].request /\ local'[w].rel = local[w].rel
      /\ local'[w].id = 0 /\ local'[w].pc = pc
  BY <1>1, <1>2 DEF Local, OnItsWay, Numbered
<1>4. Own(w)' = Own(w) /\ Peer(w)' = Peer(w) /\ Pair(w)' = Pair(w) /\ (Sends(w)' <=> Sends(w))
  BY <1>3, SameUsers
<1>5. ~Sends(w)
  BY <1>1 DEF OnItsWay, Numbered
<1>6. OwnRows(w)'
  <2>1. RelRows(Pair(w))' = RelRows(Pair(w))
    BY <1>4 DEF RelRows
  <2> QED
    BY <1>1, <1>3, <2>1 DEF OnItsWay, OwnRows, At
<1>7. Numbered(w)' /\ Stored(w)'
  BY <1>3, <1>4, <1>5 DEF Numbered, Stored, At
<1>8. Counted(w)' /\ Seen(w)'
  BY <1>4, <1>5 DEF Counted, Seen
<1>9. OnItsWay(w)'
  BY <1>6, <1>7, <1>8 DEF OnItsWay
<1>10. ASSUME NEW v \in Workers, v # w, local'[v] # None PROVE OnItsWay(v)'
  <2>1. Unmoved(v) /\ local[v] # None /\ OnItsWay(v)
    BY <1>2, <1>10, UnmovedWorker DEF ReachInv
  <2>2. Peer(v) \in Users \X Users /\ local[v] \in Local
    BY <2>1, UsersOf
  <2>3. CASE Sends(v) /\ Peer(v) = Own(w)
    <3>1. local'[v] = [local[v] EXCEPT !.over = TRUE]
      BY <1>10, <2>1, <2>3 DEF GoesOver, Sends
    <3>2. local'[v].over
      BY <2>2, <3>1 DEF Local
    <3> QED
      BY <1>10, <2>1, <3>2, OthersOnTheirWay
  <2>4. CASE Sends(v) /\ Peer(v) # Own(w)
    <3>1. local'[v] = local[v]
      BY <1>10, <2>4 DEF GoesOver
    <3>2. Peer(v)' = Peer(v)
      BY <3>1, SameUsers
    <3>3. \A k \in Users \X Users : k = Peer(v) => ShownRows(k)' = ShownRows(Peer(v))'
      BY <3>2 DEF ShownRows, SessRows
    <3>4. Keeps(Peer(v))
      BY <2>2, <2>4, <3>2, <3>3 DEF Keeps
    <3> QED
      BY <1>10, <2>1, <3>4, OthersOnTheirWay
  <2>5. CASE ~Sends(v)
    BY <1>10, <2>1, <2>5, OthersOnTheirWay
  <2> QED
    BY <2>3, <2>4, <2>5
<1> QED
  BY <1>9, <1>10 DEF ReachInv

\* The statement failed, and the request is answered.
LEMMA GivesUpOnItsWay ==
  ASSUME TypeOK, ReachInv, NEW w \in Workers, local[w] # None, Goes(w, "answer"),
         local[w].pc \in {"hide", "clear"}, UNCHANGED <<sess, rels, unread, messages>>
  PROVE  ReachInv'
<1>1. local[w] \in Local /\ OnItsWay(w)
  BY UsersOf DEF ReachInv
<1>2. /\ local'[w] = [local[w] EXCEPT !.pc = "answer"]
      /\ \A v \in Workers : v # w => local'[v] = local[v]
  BY DEF Goes, TypeOK
<1>3. /\ local'[w].request = local[w].request /\ local'[w].rel = local[w].rel
      /\ local'[w].id = 0 /\ local'[w].pc = "answer"
  BY <1>1, <1>2 DEF Local, OnItsWay, Numbered
<1>4. ~Sends(w)'
  BY <1>1, <1>3, SameUsers DEF OnItsWay, Numbered
<1>5. Numbered(w)' /\ Stored(w)'
  BY <1>3 DEF Numbered, Stored, At
<1>6. Counted(w)' /\ Seen(w)'
  BY <1>4 DEF Counted, Seen
<1> QED
  BY <1>2, <1>3, <1>5, <1>6, LooksOnItsWay

LEMMA HideOnItsWay ==
  ASSUME TypeOK, ReachInv, NEW w \in Workers, NEW works \in BOOLEAN, Hide(w, works)
  PROVE  ReachInv'
<1>1. local[w] # None /\ local[w].pc = "hide" /\ OnItsWay(w) /\ Own(w) \in Users \X Users
  BY UsersOf DEF Hide, At, ReachInv
<1>2. UNCHANGED <<rels, messages, unread>>
  BY DEF Hide, cache
<1>3. CASE works
  <2> DEFINE row == local[w].session
  <2>1. sess' = [sess EXCEPT ![row].shown = FALSE] /\ GoesOver(w, "clear")
    BY <1>3 DEF Hide
  <2>2. row \in SessRows(Own(w)) /\ row \in 0..Len(sess) /\ sess \in Seq(SessRec)
    BY <1>1, LocalOf DEF OnItsWay, OwnRows, At, TypeOK, SessRec
  <2>3. SameKeys
    BY <2>1, <2>2, ShownUpdate
  <2>4. DOMAIN sess = 1..Len(sess) /\ DOMAIN sess' = DOMAIN sess
    BY <2>1, <2>2
  <2>5. \A k : SessRows(k)' = SessRows(k)
    BY <2>3, <2>4 DEF SessRows, SameKeys
  <2>6. \A j \in DOMAIN sess : j # row => sess'[j] = sess[j]
    BY <2>1, <2>2
  <2>7. ASSUME NEW k \in Users \X Users, k # Own(w) PROVE ShownRows(k) \subseteq ShownRows(k)'
    <3>1. row \notin SessRows(k)
      <4>1. sess[row].user = Own(w)[1] /\ sess[row].peer = Own(w)[2]
        BY <2>2 DEF SessRows
      <4> QED
        BY <1>1, <2>7, <4>1 DEF SessRows
    <3> QED
      BY <2>5, <2>6, <3>1 DEF ShownRows, SessRows
  <2>8. Grows
    BY <1>2, <2>5 DEF Grows, RelRows
  <2>9. \A k \in Users \X Users : k # Own(w) => Keeps(k)
    BY <1>2, <2>7 DEF Keeps
  <2> QED
    BY <1>1, <1>2, <2>1, <2>8, <2>9, OverOnItsWay
<1>4. CASE ~works
  <2>1. UNCHANGED sess /\ Goes(w, "answer")
    BY <1>4 DEF Hide
  <2> QED
    BY <1>1, <1>2, <2>1, GivesUpOnItsWay
<1> QED
  BY <1>3, <1>4

LEMMA ClearOnItsWay ==
  ASSUME TypeOK, ReachInv, NEW w \in Workers, NEW works \in BOOLEAN, Clear(w, works)
  PROVE  ReachInv'
<1>1. local[w] # None /\ local[w].pc = "clear" /\ Own(w) \in Users \X Users
  BY UsersOf DEF Clear, At
<1>2. UNCHANGED <<sess, rels, messages>>
  BY DEF Clear, tables
<1>3. CASE works
  <2>1. unread' = [unread EXCEPT ![Own(w)] = 0] /\ GoesOver(w, "answer")
    BY <1>3 DEF Clear
  <2>2. \A k \in Users \X Users : k # Own(w) => unread'[k] = unread[k]
    BY <2>1 DEF TypeOK
  <2>3. Grows /\ \A k \in Users \X Users : k # Own(w) => Keeps(k)
    BY <1>2, <2>2 DEF Grows, Keeps, SessRows, ShownRows, RelRows
  <2> QED
    BY <1>1, <1>2, <2>1, <2>3, OverOnItsWay
<1>4. CASE ~works
  <2>1. UNCHANGED unread /\ Goes(w, "answer")
    BY <1>4 DEF Clear
  <2> QED
    BY <1>1, <1>2, <2>1, GivesUpOnItsWay
<1> QED
  BY <1>3, <1>4

LEMMA ReachNext == IInv /\ IInv' /\ ReachInv /\ [Next]_vars => ReachInv'
<1> SUFFICES ASSUME IInv, IInv', ReachInv, [Next]_vars PROVE ReachInv'
  OBVIOUS
<1>1. TypeOK /\ TypeOK' /\ Found
  BY DEF IInv, IdInv
<1>2. CASE UNCHANGED vars
  <2>1. UNCHANGED <<sess, rels, unread, messages, local>>
    BY <1>2 DEF vars, tables, cache
  <2>2. Grows /\ \A k \in Users \X Users : Keeps(k)
    BY <2>1, TablesKept
  <2>3. ASSUME NEW v \in Workers, local'[v] # None PROVE OnItsWay(v)'
    <3>1. Unmoved(v) /\ OnItsWay(v) /\ Peer(v) \in Users \X Users
      BY <1>1, <2>1, <2>3, UsersOf DEF Unmoved, ReachInv
    <3>2. Keeps(Peer(v))
      BY <2>1 DEF Keeps, ShownRows, SessRows, Peer, From, To
    <3> QED
      BY <1>1, <2>2, <2>3, <3>1, <3>2, OthersOnTheirWay
  <2> QED
    BY <2>3 DEF ReachInv
<1>3. CASE Next
  <2>1. PICK w \in Workers :
          \/ \E r \in Requests : Take(w, r)
          \/ Answer(w) \/ GetMsgId(w) \/ NoMsgId(w) \/ SkipAudio(w)
          \/ \E works \in BOOLEAN :
               \/ FindOwn(w, works) \/ FindPeer(w, works)
               \/ /\ local[w] # None
                  /\ \/ Look(w, "own_look", Own(w), "own_add", works)
                     \/ Look(w, "peer_look", Peer(w), "peer_add", works)
                     \/ Add(w, "own_add", Own(w), "peer", works)
                     \/ Add(w, "peer_add", Peer(w), "rel", works)
               \/ FindRelation(w, works) \/ LookRelation(w, works) \/ AddRelation(w, works)
               \/ Reset(w, works)
               \/ SaveAudio(w, works) \/ Insert(w, works) \/ Count(w, works)
               \/ FindRemoved(w, works) \/ Hide(w, works) \/ Clear(w, works)
    BY <1>3 DEF Next
  <2>2. CASE \E r \in Requests : Take(w, r)
    BY <1>1, <2>2, TakeOnItsWay
  <2>3. CASE Answer(w)
    BY <1>1, <2>3, AnswerOnItsWay
  <2>4. CASE GetMsgId(w) \/ NoMsgId(w)
    <3>1. TRUE \in BOOLEAN
      OBVIOUS
    <3> QED
      BY <1>1, <2>4, <3>1, IdOnItsWay
  <2>5. ASSUME NEW works \in BOOLEAN,
               FindOwn(w, works) \/ FindRemoved(w, works) \/ FindPeer(w, works) \/ FindRelation(w, works)
        PROVE  ReachInv'
    BY <1>1, <2>5, FindOnItsWay, FindPeerOnItsWay, FindRelationOnItsWay
  <2>6. ASSUME NEW works \in BOOLEAN,
               \/ /\ local[w] # None
                  /\ \/ Look(w, "own_look", Own(w), "own_add", works)
                     \/ Look(w, "peer_look", Peer(w), "peer_add", works)
               \/ LookRelation(w, works)
        PROVE  ReachInv'
    <3>1. local[w] # None
      BY <2>6 DEF LookRelation, At
    <3> QED
      BY <1>1, <2>6, <3>1, LookOnItsWay
  <2>7. ASSUME NEW works \in BOOLEAN, local[w] # None,
               \/ Add(w, "own_add", Own(w), "peer", works)
               \/ Add(w, "peer_add", Peer(w), "rel", works)
        PROVE  ReachInv'
    BY <1>1, <2>7, AddOnItsWay
  <2>8. ASSUME NEW works \in BOOLEAN, AddRelation(w, works) \/ Reset(w, works)
        PROVE  ReachInv'
    BY <1>1, <2>8, AddRelationOnItsWay, IdOnItsWay
  <2>9. ASSUME NEW works \in BOOLEAN, Insert(w, works) \/ Count(w, works)
        PROVE  ReachInv'
    BY <1>1, <2>9, InsertOnItsWay, CountOnItsWay
  <2>10. ASSUME NEW works \in BOOLEAN, Hide(w, works) \/ Clear(w, works)
         PROVE  ReachInv'
    BY <1>1, <2>10, HideOnItsWay, ClearOnItsWay
  <2>11. ASSUME NEW works \in BOOLEAN, SkipAudio(w) \/ SaveAudio(w, works)
         PROVE  ReachInv'
    BY <1>1, <2>11, SaveOnItsWay
  <2>12. TRUE \in BOOLEAN
    OBVIOUS
  <2> QED
    BY <2>1, <2>2, <2>3, <2>4, <2>5, <2>6, <2>7, <2>8, <2>9, <2>10, <2>11, <2>12
<1> QED
  BY <1>2, <1>3

LEMMA ReachImplies == IInv /\ ReachInv => AckedReaches
<1> SUFFICES ASSUME IInv, ReachInv, NEW w \in Workers,
                    At(w, "answer"), local[w].request.kind \in Sendings, local[w].id # 0,
                    local[w].failed = {}
             PROVE  /\ \E m \in messages : m.number = local[w].number
                         /\ \/ m.rel = LastRow(RelRows(Pair(w)))
                            \/ <<Pair(w)>> \in raced
                    /\ (ShownRows(Peer(w)) # {} /\ unread[Peer(w)] > 0) \/ local[w].over
  BY DEF AckedReaches
<1>1. TypeOK /\ OneRow /\ local[w] # None /\ OnItsWay(w)
  BY DEF IInv, IdInv, RowInv, At, ReachInv
<1>2. PICK m \in messages : m.number = local[w].number /\ m.rel = local[w].rel
  BY <1>1 DEF OnItsWay, Stored
<1>3. local[w].rel # 0 /\ local[w].rel \in RelRows(Pair(w))
  <2>1. m.rel \in 1..Len(rels) /\ Len(rels) \in Nat
    BY <1>1 DEF TypeOK
  <2> QED
    BY <1>1, <1>2, <2>1 DEF OnItsWay, OwnRows
<1>4. m.rel = LastRow(RelRows(Pair(w))) \/ <<Pair(w)>> \in raced
  <2>1. LastRow(RelRows(Pair(w))) \in RelRows(Pair(w))
    BY <1>1, <1>3, RowIds, ResultRow
  <2> QED
    BY <1>1, <1>2, <1>3, <2>1 DEF OneRow, RelRows
<1>5. local[w].session # 0
  BY <1>1 DEF OnItsWay, Numbered
<1>6. (ShownRows(Peer(w)) # {} /\ unread[Peer(w)] > 0) \/ local[w].over
  BY <1>1, <1>5 DEF OnItsWay, Seen, Counted, Sends, Past, At
<1> QED
  BY <1>2, <1>4, <1>6

\* A message that is answered with an id is where the receiver looks for it: in the relation that
\* its client is shown, in a session that is shown, and counted as unread; unless the receiver
\* removed the session or read its messages meanwhile, the relation was inserted twice, or a
\* statement failed whose result sendMessage does not look at.
THEOREM MessageStoreAckedReaches == Spec => []AckedReaches
BY MessageStoreInvariant, ReachInit, ReachNext, ReachImplies, PTL DEF Spec
=============================================================================
