------------------------ MODULE MessageStoreProofs ------------------------
(***************************************************************************)
(* Theorems about module MessageStore, for all accounts, groups, devices   *)
(* and bounds.                                                             *)
(*                                                                         *)
(* The argument for NothingSkipped: a page leaves out a row sent before    *)
(* one of its own only if the row was sent at or before the time the       *)
(* handler started from, or was stored after the page was read (PageGap);  *)
(* and the handler starts from the time of a row that was handed out, or   *)
(* from a day ago (StartBehind), because content rows say when their       *)
(* message was sent (ContentTimes).  So a page added to what was handed    *)
(* out leaves no gap that was not there or excused before.                 *)
(***************************************************************************)
EXTENDS MessageStore, TLAPS

NewIds == /\ \A m \in DOMAIN content : m <= lastId
          /\ \A r \in index : r.msg <= lastId

\* A content row has the time of the index rows that carry its id.
ContentTimes == \A r \in index : r.msg \in DOMAIN content => content[r.msg] = r.time

\* What is read was stored for the account it is read for.
Stored == /\ \A a \in Account : handed[a] \subseteq Inbox(a)
          /\ \A d \in Device : page[d] \subseteq Inbox(Owner[d])
          /\ \A d \in Device : got[d] \subseteq handed[Owner[d]]

IdOf(m, rows) == \E r \in rows : r.msg = m

\* A message that is asked for or saved was handed to the account.
Known == /\ \A a \in Account : ack[a] = 0 \/ IdOf(ack[a], handed[a])
         /\ \A d \in Device : cursor[d] = 0 \/ IdOf(cursor[d], handed[Owner[d]])
         /\ \A d \in Device : pc[d] # "idle" => req[d] = cursor[d]

Excused(r) == r \in late \/ Expired(r)

\* A handler starts from a row that was handed out or from a day ago.
StartBehind ==
    \A d \in Device : pc[d] \in {"find", "ack"} =>
        start[d] <= Earliest \/ \E h \in handed[Owner[d]] : start[d] = h.time

PageGap ==
    \A d \in Device : pc[d] = "ack" =>
        \A r \in Inbox(Owner[d]), h \in page[d] :
            r.time <= h.time =>
                \/ \E e \in page[d] : e.time = r.time
                \/ r.time <= start[d]
                \/ r \in late

\* A device that follows its messages has nothing later than the last of them,
\* and a page it waits for begins after it.
Follows ==
    \A d \in Device :
        /\ cursor[d] = 0 => got[d] = {}
        /\ ~relook[d] =>
            /\ cursor[d] \in DOMAIN content =>
                    \A r \in got[d] : r.time <= content[cursor[d]]
            /\ pc[d] \in {"find", "ack"} /\ req[d] # 0 =>
                    req[d] \in DOMAIN content /\ content[req[d]] <= start[d]

PageLater ==
    \A d \in Device :
        /\ \A r \in page[d] : r.time > start[d]
        /\ pc[d] # "ack" => page[d] = {}

IInv == /\ TypeOK /\ NewIds /\ ContentTimes /\ Stored /\ Known /\ StartBehind
        /\ PageGap /\ PageLater /\ NothingSkipped /\ Follows
-----------------------------------------------------------------------------
\* Before anything is sent or read every table is empty.
LEMMA InitInv == Init => IInv
<1> SUFFICES ASSUME Init PROVE IInv
  OBVIOUS
<1> USE DEF Init
<1>1. TypeOK
  <2>1. TablesOK
    BY DEF TablesOK
  <2>2. SyncingOK /\ ReadingOK
    BY DEF SyncingOK, ReadingOK, Place
  <2> QED  BY <2>1, <2>2, MessageStoreAssumption DEF TypeOK
<1>2. NewIds /\ ContentTimes /\ Stored
  BY DEF NewIds, ContentTimes, Stored, Inbox
<1>3. Known /\ StartBehind /\ PageGap /\ PageLater
  BY DEF Known, StartBehind, PageGap, PageLater
<1>4. NothingSkipped /\ Follows
  BY MessageStoreAssumption DEF NothingSkipped, Follows
<1> QED  BY <1>1, <1>2, <1>3, <1>4 DEF IInv

\* When the clock goes forward, so does the day before.
LEMMA Shift ==
    ASSUME NEW x \in Nat, NEW y \in Nat, NEW k \in Nat, y >= x
    PROVE  y - k >= x - k /\ x - k \in Int
OBVIOUS

LEMMA Forward ==
    ASSUME clock \in Nat, clock' \in Nat, clock' >= clock
    PROVE  Earliest' >= Earliest /\ Earliest \in Int /\ Earliest' \in Int
<1>1. Day \in Nat
  BY MessageStoreAssumption
<1>2. clock' - Day >= clock - Day /\ clock - Day \in Int
  BY <1>1, Shift
<1>3. clock' - Day \in Int
  BY <1>1
<1> QED  BY <1>2, <1>3 DEF Earliest

\* Steps that touch neither messages nor readers: the clock only goes forward,
\* so what was expired stays so.
LEMMA QuietStep ==
    ASSUME IInv, clock' \in Nat, clock' >= clock, talks' \in Nat,
           sent' \subseteq Request, members' \in [Group -> SUBSET Account],
           UNCHANGED <<lastId, content, index, ack, acked, syncing, reading, late>>
    PROVE  IInv'
<1> USE DEF IInv, syncing, reading
<1>1. TypeOK'
  <2>1. TablesOK'
    BY DEF TypeOK, TablesOK
  <2>2. SyncingOK' /\ ReadingOK'
    BY DEF TypeOK, SyncingOK, ReadingOK
  <2> QED  BY <2>1, <2>2, MessageStoreAssumption DEF TypeOK
<1>2. NewIds' /\ ContentTimes' /\ Stored'
  BY DEF NewIds, ContentTimes, Stored, Inbox
<1>3. Known' /\ PageGap' /\ PageLater' /\ Follows'
  BY DEF Known, IdOf, PageGap, PageLater, Follows, Inbox
<1>4. Earliest' >= Earliest /\ Earliest \in Int /\ Earliest' \in Int
  <2>1. clock \in Nat
    BY DEF TypeOK
  <2> QED  BY <2>1, Forward
<1>5. StartBehind'
  <2> SUFFICES ASSUME NEW d \in Device, pc[d] \in {"find", "ack"},
                      start[d] <= Earliest
               PROVE  start[d] <= Earliest'
    BY DEF StartBehind
  <2> QED  BY <1>4 DEF TypeOK, SyncingOK
<1>6. NothingSkipped'
  <2> SUFFICES ASSUME NEW a \in Account, NEW r \in Inbox(a), Expired(r)
               PROVE  Expired(r)'
    BY DEF NothingSkipped, Inbox
  <2>1. r.time \in Nat
    BY DEF TypeOK, TablesOK, Inbox, Row
  <2> QED  BY <1>4, <2>1 DEF Expired
<1> QED  BY <1>1, <1>2, <1>3, <1>5, <1>6

\* The transaction of an insert: rows and content under ids not used before.
LEMMA StoreStep ==
    ASSUME IInv, NEW id \in Nat, NEW time \in Nat, NEW rows \in SUBSET Row,
           Store(id, time, rows), lastId' \in Nat, lastId' >= lastId,
           sent' \subseteq Request, id > lastId, id <= lastId',
           \A r \in rows : /\ r.msg > lastId /\ r.msg <= lastId'
                           /\ r.msg = id => r.time = time,
           UNCHANGED <<clock, talks, members, ack, acked, syncing, reading>>
    PROVE  IInv'
<1> USE DEF IInv, syncing, reading
<1>0. /\ lastId \in Nat /\ index \subseteq Row /\ late \subseteq Row
      /\ DOMAIN content \subseteq MsgId
      /\ \A r \in Row : r.msg \in Nat /\ r.time \in Nat
      /\ \A m \in DOMAIN content : content[m] \in Nat
  BY DEF TypeOK, TablesOK, Row, MsgId
<1>1. /\ index' = index \cup rows
      /\ DOMAIN content' = DOMAIN content \cup {id}
      /\ content'[id] = time
      /\ late \subseteq late'
  BY DEF Store
<1>2. \A m \in DOMAIN content : content'[m] = content[m]
  BY <1>0, <1>1 DEF Store, NewIds, MsgId
<1>3. TypeOK'
  <2>1. TablesOK'
    <3>1. DOMAIN content' \subseteq MsgId
      BY <1>0, <1>1 DEF MsgId
    <3>2. content' \in [DOMAIN content' -> Nat]
      BY <1>0, <1>1 DEF Store
    <3> QED  BY <3>1, <3>2, <1>0, <1>1 DEF TypeOK, TablesOK
  <2>2. SyncingOK' /\ ReadingOK'
    BY DEF TypeOK, SyncingOK, ReadingOK
  <2>3. late' \subseteq Row
    BY <1>0 DEF Store, Overtaken
  <2> QED  BY <2>1, <2>2, <2>3 DEF TypeOK
<1>4. NewIds'
  <2>1. \A m \in DOMAIN content' : m <= lastId'
    BY <1>0, <1>1 DEF NewIds, MsgId
  <2>2. \A r \in index' : r.msg <= lastId'
    BY <1>0, <1>1 DEF NewIds
  <2> QED  BY <2>1, <2>2 DEF NewIds
<1>5. ContentTimes'
  <2> SUFFICES ASSUME NEW r \in index', r.msg \in DOMAIN content'
               PROVE  content'[r.msg] = r.time
    BY DEF ContentTimes
  <2>1. CASE r \in rows
    <3>1. r.msg \notin DOMAIN content
      BY <2>1, <1>0 DEF NewIds, MsgId
    <3> QED  BY <2>1, <3>1, <1>1
  <2>2. CASE r \in index
    <3>1. r.msg # id
      BY <2>2, <1>0 DEF NewIds
    <3> QED  BY <2>2, <3>1, <1>1, <1>2 DEF ContentTimes
  <2> QED  BY <2>1, <2>2, <1>1
<1>6. Stored' /\ Known'
  BY <1>1 DEF Stored, Known, IdOf, Inbox
<1>7. StartBehind' /\ PageLater'
  BY DEF StartBehind, PageLater, Earliest
<1>8. ASSUME NEW a \in Account, NEW r \in Inbox(a)', r \notin index,
             NEW h \in ReadBy(a), r.time <= h.time
      PROVE  r \in late'
  BY <1>8, <1>1 DEF Inbox, Store, Overtaken
<1>9. PageGap'
  <2> SUFFICES ASSUME NEW d \in Device, pc[d] = "ack",
                      NEW r \in Inbox(Owner[d])', NEW h \in page[d],
                      r.time <= h.time
               PROVE  \/ \E e \in page[d] : e.time = r.time
                      \/ r.time <= start[d]
                      \/ r \in late'
    BY DEF PageGap
  <2>1. CASE r \in index
    BY <2>1, <1>1 DEF PageGap, Inbox
  <2>2. CASE r \notin index
    <3>1. Owner[d] \in Account /\ h \in ReadBy(Owner[d])
      BY MessageStoreAssumption DEF ReadBy
    <3> QED  BY <3>1, <2>2, <1>8
  <2> QED  BY <2>1, <2>2
<1>10. NothingSkipped'
  <2> SUFFICES ASSUME NEW a \in Account, NEW r \in Inbox(a)', NEW h \in handed[a],
                      r.time <= h.time
               PROVE  \/ \E e \in handed[a] : e.time = r.time
                      \/ r \in late'
                      \/ Expired(r)
    BY DEF NothingSkipped, Expired, Earliest
  <2>1. CASE r \in index
    BY <2>1, <1>1 DEF NothingSkipped, Inbox
  <2>2. CASE r \notin index
    <3>1. h \in ReadBy(a)
      BY DEF ReadBy
    <3> QED  BY <3>1, <2>2, <1>8
  <2> QED  BY <2>1, <2>2
<1>11. Follows'
  <2> SUFFICES ASSUME NEW d \in Device
               PROVE  /\ cursor[d] = 0 => got[d] = {}
                      /\ ~relook[d] =>
                          /\ cursor[d] \in DOMAIN content' =>
                              \A r \in got[d] : r.time <= content'[cursor[d]]
                          /\ pc[d] \in {"find", "ack"} /\ req[d] # 0 =>
                              /\ req[d] \in DOMAIN content'
                              /\ content'[req[d]] <= start[d]
    BY DEF Follows
  <2>1. cursor[d] # id
    <3>1. CASE cursor[d] = 0
      BY <3>1, <1>0
    <3>2. CASE IdOf(cursor[d], handed[Owner[d]])
      BY <3>2, <1>0, MessageStoreAssumption DEF IdOf, Stored, Inbox, NewIds
    <3> QED  BY <3>1, <3>2 DEF Known
  <2>2. cursor[d] \in DOMAIN content' =>
            cursor[d] \in DOMAIN content /\ content'[cursor[d]] = content[cursor[d]]
    BY <2>1, <1>1, <1>2
  <2> QED  BY <2>2, <1>1, <1>2 DEF Follows
<1> QED  BY <1>3, <1>4, <1>5, <1>6, <1>7, <1>9, <1>10, <1>11

\* An insert issues ids above all used ones and gives its rows its own time.
LEMMA InsertStep == ASSUME IInv, NEW q \in sent, Insert(q) PROVE IInv'
<1>1. q \in Request /\ lastId \in Nat /\ sent' \subseteq Request
  BY DEF IInv, TypeOK, TablesOK, Insert, InsertUser, InsertGroup, InsertFails
<1>2. q.time \in Nat /\ q.from \in Account
  BY <1>1 DEF Request
<1>3. CASE InsertUser(q)
  <2>1. UserRows(q, lastId') \in SUBSET Row
    BY <1>1, <1>2, <1>3 DEF InsertUser, UserRows, Row, MsgId
  <2>2. lastId' = lastId + 1 /\ lastId' \in Nat
    BY <1>1, <1>3 DEF InsertUser
  <2>3. \A r \in UserRows(q, lastId') : r.msg = lastId' /\ r.time = q.time
    BY DEF UserRows
  <2> QED  BY <1>1, <1>2, <1>3, <2>1, <2>2, <2>3, StoreStep DEF InsertUser
<1>4. CASE InsertGroup(q)
  <2>1. GroupRows(q, lastId + 1) \in SUBSET Row
    <3>1. members[q.dest] \subseteq Account /\ lastId + 1 \in MsgId
      BY <1>1, <1>4 DEF IInv, TypeOK, TablesOK, InsertGroup, MsgId
    <3> QED  BY <3>1, <1>2, <1>4 DEF InsertGroup, GroupRows, Row
  <2>2. lastId' = lastId + 2 /\ lastId' \in Nat
    BY <1>1, <1>4 DEF InsertGroup
  <2>3. \A r \in GroupRows(q, lastId + 1) : r.msg = lastId + 1
    BY DEF GroupRows
  <2>4. Store(lastId', q.time, GroupRows(q, lastId + 1))
    BY <2>2, <1>4 DEF InsertGroup
  <2> QED
    BY <1>1, <1>2, <1>4, <2>1, <2>2, <2>3, <2>4, StoreStep DEF InsertGroup
<1>5. CASE InsertFails(q)
  <2>1. clock \in Nat /\ talks \in Nat /\ members \in [Group -> SUBSET Account]
    BY DEF IInv, TypeOK, TablesOK
  <2> QED  BY <1>1, <1>5, <2>1, QuietStep DEF InsertFails, tables
<1> QED  BY <1>3, <1>4, <1>5 DEF Insert

\* The read position of an account is gone, or one of the messages it was handed.
LEMMA PositionStep ==
    ASSUME IInv, NEW a \in Account, AckExpires(a) \/ MessageAck(a) PROVE IInv'
<1> USE DEF IInv, tables, syncing, reading
<1>0. UNCHANGED <<clock, talks, sent, tables, syncing, reading, late>>
  BY DEF AckExpires, MessageAck
<1>1. ack' \in [Account -> Nat] /\ acked' \in [Account -> Nat]
  <2>1. \A r \in handed[a] : r.msg \in Nat
    BY DEF TypeOK, ReadingOK, Row, MsgId
  <2>2. ack \in [Account -> Nat] /\ acked \in [Account -> Nat]
    BY DEF TypeOK
  <2> QED  BY <2>1, <2>2 DEF AckExpires, MessageAck, SetMessageAck
<1>2. TypeOK'
  <2>1. TablesOK' /\ SyncingOK' /\ ReadingOK'
    BY <1>0 DEF TypeOK, TablesOK, SyncingOK, ReadingOK
  <2> QED  BY <1>0, <1>1, <2>1 DEF TypeOK
<1>3. Known'
  <2> SUFFICES ASSUME NEW b \in Account
               PROVE  ack'[b] = 0 \/ IdOf(ack'[b], handed[b])
    BY <1>0 DEF Known, IdOf
  <2>1. ack \in [Account -> Nat] /\ (ack[b] = 0 \/ IdOf(ack[b], handed[b]))
    BY DEF TypeOK, Known
  <2>2. CASE AckExpires(a)
    BY <2>1, <2>2 DEF AckExpires
  <2>3. CASE MessageAck(a)
    BY <2>1, <2>3 DEF MessageAck, SetMessageAck, IdOf
  <2> QED  BY <2>2, <2>3
<1>4. NewIds' /\ ContentTimes' /\ Stored'
  BY <1>0 DEF NewIds, ContentTimes, Stored, Inbox
<1>5. StartBehind' /\ PageGap' /\ PageLater'
  BY <1>0 DEF StartBehind, PageGap, PageLater, Inbox, Earliest
<1>6. NothingSkipped' /\ Follows'
  BY <1>0 DEF NothingSkipped, Follows, Inbox, Expired, Earliest
<1> QED  BY <1>2, <1>3, <1>4, <1>5, <1>6

\* What a message of an account stands for: the time of a row that was handed
\* to it, or nothing, which makes the handler start a day ago.
LEMMA SentTimeBehind ==
    ASSUME IInv, NEW a \in Account, NEW id \in Nat,
           id = 0 \/ IdOf(id, handed[a])
    PROVE  /\ SentTime(id) \in Nat
           /\ SentTime(id) <= Earliest \/ \E h \in handed[a] : SentTime(id) = h.time
           /\ id \in DOMAIN content => content[id] <= SentTime(id)
<1> USE DEF IInv
<1>1. /\ clock \in Nat /\ Day \in Nat /\ clock > Day
      /\ DOMAIN content \subseteq MsgId
      /\ \A m \in DOMAIN content : content[m] \in Nat
  BY MessageStoreAssumption DEF TypeOK, TablesOK
<1>2. Earliest \in Nat
  BY <1>1 DEF Earliest
<1>3. id \in DOMAIN content => \E h \in handed[a] : content[id] = h.time
  <2> SUFFICES ASSUME id \in DOMAIN content
               PROVE  \E h \in handed[a] : content[id] = h.time
    OBVIOUS
  <2>1. PICK h \in handed[a] : h.msg = id
    BY <1>1 DEF IdOf, MsgId
  <2>2. h \in index
    BY DEF Stored, Inbox
  <2> QED  BY <2>1, <2>2 DEF ContentTimes
<1>4. CASE id \in DOMAIN content /\ content[id] >= Earliest
  <2>1. SentTime(id) = content[id]
    BY <1>4 DEF SentTime
  <2> QED  BY <2>1, <1>1, <1>3, <1>4
<1>5. CASE ~(id \in DOMAIN content /\ content[id] >= Earliest)
  <2>1. SentTime(id) = Earliest
    BY <1>5 DEF SentTime
  <2>2. id \in DOMAIN content => content[id] <= Earliest
    BY <1>1, <1>2, <1>5
  <2> QED  BY <2>1, <2>2, <1>2
<1> QED  BY <1>4, <1>5

\* A device asks: cold, it forgets what it was handed.
LEMMA AskStep ==
    ASSUME IInv, NEW d \in Device, NEW id \in {0, cursor[d]}, Sync(d, id)
    PROVE  IInv'
<1> USE DEF IInv, tables, Sync
<1>0. /\ cursor \in [Device -> Nat] /\ got \in [Device -> SUBSET Row]
      /\ relook \in [Device -> BOOLEAN] /\ pc \in [Device -> Place]
      /\ req \in [Device -> Nat] /\ id \in Nat
  BY DEF TypeOK, SyncingOK, ReadingOK
<1>1. \A e \in Device : /\ got'[e] \subseteq got[e]
                        /\ e # d => got'[e] = got[e] /\ cursor'[e] = cursor[e]
  BY <1>0
<1>2. TypeOK'
  <2>1. TablesOK' /\ SyncingOK'
    <3>1. pc' \in [Device -> Place] /\ req' \in [Device -> Nat]
      BY <1>0 DEF Place
    <3> QED  BY <3>1 DEF TypeOK, TablesOK, SyncingOK
  <2>2. got' \in [Device -> SUBSET Row] /\ relook' \in [Device -> BOOLEAN]
    <3>1. CASE id = 0
      BY <3>1, <1>0
    <3>2. CASE id # 0
      BY <3>2, <1>0
    <3> QED  BY <3>1, <3>2
  <2>3. ReadingOK'
    BY <1>0, <2>2 DEF TypeOK, ReadingOK
  <2> QED  BY <2>1, <2>3 DEF TypeOK
<1>3. Stored'
  BY <1>1 DEF Stored, Inbox
<1>4. Known'
  BY <1>0 DEF Known, IdOf
<1>5. NewIds' /\ ContentTimes' /\ NothingSkipped'
  BY DEF NewIds, ContentTimes, NothingSkipped, Inbox, Expired, Earliest
<1>6. StartBehind' /\ PageGap' /\ PageLater'
  BY <1>0 DEF StartBehind, PageGap, PageLater, Inbox, Earliest
<1>7. Follows'
  <2> SUFFICES ASSUME NEW e \in Device
               PROVE  /\ cursor'[e] = 0 => got'[e] = {}
                      /\ ~relook'[e] =>
                          /\ cursor'[e] \in DOMAIN content =>
                              \A r \in got'[e] : r.time <= content[cursor'[e]]
                          /\ pc'[e] \in {"find", "ack"} /\ req'[e] # 0 =>
                              /\ req'[e] \in DOMAIN content
                              /\ content[req'[e]] <= start[e]
    BY DEF Follows
  <2>1. CASE e # d
    BY <2>1, <1>0 DEF Follows
  <2>2. CASE e = d /\ id = 0
    BY <2>2, <1>0
  <2>3. CASE e = d /\ id # 0
    BY <2>3, <1>0 DEF Follows
  <2> QED  BY <2>1, <2>2, <2>3
<1> QED  BY <1>2, <1>3, <1>4, <1>5, <1>6, <1>7

\* The handler takes the time it starts from.
LEMMA TimeStep ==
    ASSUME IInv, NEW d \in Device, GetSentTime(d) \/ GetSentTimeFails(d)
    PROVE  IInv'
<1> DEFINE id == IF req[d] = 0 THEN ack[Owner[d]] ELSE req[d]
<1> USE DEF IInv, tables
<1>0. /\ start \in [Device -> Nat] /\ relook \in [Device -> BOOLEAN]
      /\ pc \in [Device -> Place] /\ req \in [Device -> Nat]
      /\ ack \in [Account -> Nat] /\ Owner[d] \in Account
  BY MessageStoreAssumption DEF TypeOK, SyncingOK, ReadingOK
<1>1. /\ pc[d] = "time" /\ pc' = [pc EXCEPT ![d] = "find"]
      /\ UNCHANGED <<clock, talks, sent, tables, ack, acked, req, page, cursor,
                     got, handed, late>>
      /\ \E s \in {SentTime(id), Earliest} : start' = [start EXCEPT ![d] = s]
      /\ \A e \in Device \ {d} : start'[e] = start[e] /\ relook'[e] = relook[e]
  BY <1>0 DEF GetSentTime, GetSentTimeFails
<1>2. /\ SentTime(id) \in Nat
      /\ \/ SentTime(id) <= Earliest
         \/ \E h \in handed[Owner[d]] : SentTime(id) = h.time
      /\ id \in DOMAIN content => content[id] <= SentTime(id)
  <2>1. id \in Nat
    BY <1>0
  <2>2. id = 0 \/ IdOf(id, handed[Owner[d]])
    BY <1>0, <1>1 DEF Known
  <2> QED  BY <1>0, <2>1, <2>2, SentTimeBehind
<1>3. Earliest \in Nat
  <2>1. clock \in Nat /\ Day \in Nat /\ clock > Day
    BY MessageStoreAssumption DEF TypeOK
  <2> QED  BY <2>1 DEF Earliest
<1>4. TypeOK'
  <2>1. start' \in [Device -> Nat]
    BY <1>0, <1>1, <1>2, <1>3
  <2>2. relook' \in [Device -> BOOLEAN]
    <3>1. CASE GetSentTime(d)
      BY <3>1, <1>0 DEF GetSentTime
    <3>2. CASE GetSentTimeFails(d)
      BY <3>2, <1>0 DEF GetSentTimeFails
    <3> QED  BY <3>1, <3>2
  <2>3. TablesOK' /\ SyncingOK' /\ ReadingOK'
    BY <1>0, <1>1, <2>1, <2>2 DEF TypeOK, TablesOK, SyncingOK, ReadingOK, Place
  <2> QED  BY <1>1, <2>3 DEF TypeOK
<1>5. NewIds' /\ ContentTimes' /\ Stored'
  BY <1>1 DEF NewIds, ContentTimes, Stored, Inbox
<1>6. NothingSkipped'
  BY <1>1 DEF NothingSkipped, Inbox, Expired, Earliest
<1>7. Known'
  BY <1>0, <1>1 DEF Known, IdOf
<1>8. StartBehind'
  <2> SUFFICES ASSUME NEW e \in Device, pc'[e] \in {"find", "ack"}
               PROVE  start'[e] <= Earliest \/ \E h \in handed[Owner[e]] :
                                                  start'[e] = h.time
    BY <1>1 DEF StartBehind, Earliest
  <2>1. CASE e # d
    BY <2>1, <1>0, <1>1 DEF StartBehind
  <2>2. CASE e = d
    BY <2>2, <1>0, <1>1, <1>2, <1>3
  <2> QED  BY <2>1, <2>2
<1>9. PageGap' /\ PageLater'
  <2>1. \A e \in Device : pc'[e] = IF e = d THEN "find" ELSE pc[e]
    BY <1>0, <1>1
  <2>2. page[d] = {}
    BY <1>1 DEF PageLater
  <2>3. PageGap'
    BY <1>1, <2>1 DEF PageGap, Inbox
  <2>4. PageLater'
    <3> SUFFICES ASSUME NEW e \in Device
                 PROVE  /\ \A r \in page[e] : r.time > start'[e]
                        /\ pc'[e] # "ack" => page[e] = {}
      BY <1>1 DEF PageLater
    <3>1. CASE e = d
      BY <3>1, <2>2
    <3>2. CASE e # d
      BY <3>2, <1>1, <2>1 DEF PageLater
    <3> QED  BY <3>1, <3>2
  <2> QED  BY <2>3, <2>4
<1>10. Follows'
  <2> SUFFICES ASSUME NEW e \in Device
               PROVE  /\ cursor[e] = 0 => got[e] = {}
                      /\ ~relook'[e] =>
                          /\ cursor[e] \in DOMAIN content =>
                              \A r \in got[e] : r.time <= content[cursor[e]]
                          /\ pc'[e] \in {"find", "ack"} /\ req[e] # 0 =>
                              /\ req[e] \in DOMAIN content
                              /\ content[req[e]] <= start'[e]
    BY <1>1 DEF Follows
  <2>1. CASE e # d
    BY <2>1, <1>0, <1>1 DEF Follows
  <2>2. CASE e = d /\ GetSentTime(d)
    <3>1. relook'[d] = (relook[d] \/ req[d] \notin DOMAIN content \cup {0})
      BY <2>2, <1>0 DEF GetSentTime
    <3>2. start'[d] = SentTime(id)
      BY <2>2, <1>0 DEF GetSentTime
    <3> QED  BY <2>2, <3>1, <3>2, <1>2 DEF Follows
  <2>3. CASE e = d /\ GetSentTimeFails(d)
    <3>1. relook'[d] = (relook[d] \/ req[d] # 0)
      BY <2>3, <1>0 DEF GetSentTimeFails
    <3> QED  BY <2>3, <3>1 DEF Follows
  <2> QED  BY <1>1, <2>1, <2>2, <2>3
<1> QED  BY <1>4, <1>5, <1>6, <1>7, <1>8, <1>9, <1>10

\* What a page leaves out of the inbox was sent no later than the handler's
\* start, or no earlier than anything on the page.
LEMMA FindStep == ASSUME IInv, NEW d \in Device, Find(d) PROVE IInv'
<1> USE DEF IInv, tables, reading, Find
<1>0. /\ page \in [Device -> SUBSET Row] /\ pc \in [Device -> Place]
      /\ start \in [Device -> Nat] /\ index \subseteq Row
      /\ \A r \in Row : r.time \in Nat
  BY DEF TypeOK, SyncingOK, TablesOK, Row
<1>1. PICK p \in SUBSET Selected(d) : /\ IsPage(p, Selected(d))
                                      /\ page' = [page EXCEPT ![d] = p]
  OBVIOUS
<1>2. p \subseteq Inbox(Owner[d]) /\ p \subseteq Row
      /\ \A r \in p : r.time > start[d]
  BY <1>0, <1>1 DEF Selected, Inbox
<1>3. \A e \in Device : /\ page'[e] = IF e = d THEN p ELSE page[e]
                        /\ pc'[e] = IF e = d THEN "ack" ELSE pc[e]
  BY <1>0, <1>1
<1>4. TypeOK'
  <2>1. page' \in [Device -> SUBSET Row]
    BY <1>0, <1>1, <1>2
  <2>2. TablesOK' /\ SyncingOK' /\ ReadingOK'
    BY <1>0, <2>1 DEF TypeOK, TablesOK, SyncingOK, ReadingOK, Place
  <2> QED  BY <2>2 DEF TypeOK
<1>5. NewIds' /\ ContentTimes' /\ NothingSkipped'
  BY DEF NewIds, ContentTimes, NothingSkipped, Inbox, Expired, Earliest
<1>6. Stored'
  BY <1>2, <1>3 DEF Stored, Inbox
<1>7. Known' /\ StartBehind' /\ Follows'
  <2>1. Known'
    BY <1>3 DEF Known, IdOf
  <2>2. StartBehind'
    BY <1>3 DEF StartBehind, Earliest
  <2>3. Follows'
    BY <1>3 DEF Follows
  <2> QED  BY <2>1, <2>2, <2>3
<1>8. PageLater'
  BY <1>2, <1>3 DEF PageLater
<1>9. PageGap'
  <2> SUFFICES ASSUME NEW e \in Device, pc'[e] = "ack", NEW r \in Inbox(Owner[e]),
                      NEW h \in page'[e], r.time <= h.time
               PROVE  \/ \E k \in page'[e] : k.time = r.time
                      \/ r.time <= start[e]
                      \/ r \in late
    BY DEF PageGap, Inbox
  <2>1. CASE e # d
    BY <2>1, <1>3 DEF PageGap
  <2>2. CASE e = d /\ r \in p
    BY <2>2, <1>3
  <2>3. CASE e = d /\ r \notin Selected(d)
    BY <2>3, <1>0 DEF Selected, Inbox
  <2>4. CASE e = d /\ r \in Selected(d) \ p
    <3>1. h \in p /\ h.time <= r.time
      BY <2>4, <1>1, <1>3 DEF IsPage
    <3>2. h.time = r.time
      BY <3>1, <1>0, <1>2 DEF Inbox
    <3> QED  BY <2>4, <3>1, <3>2, <1>3
  <2> QED  BY <2>1, <2>2, <2>3, <2>4
<1> QED  BY <1>4, <1>5, <1>6, <1>7, <1>8, <1>9

\* The page is handed out; the position asked for is one that was handed out.
LEMMA AnswerStep == ASSUME IInv, NEW d \in Device, Answer(d) PROVE IInv'
<1> DEFINE a == Owner[d]
<1> USE DEF IInv, tables
<1>0. /\ page \in [Device -> SUBSET Row] /\ pc \in [Device -> Place]
      /\ req \in [Device -> Nat] /\ start \in [Device -> Nat]
      /\ got \in [Device -> SUBSET Row] /\ handed \in [Account -> SUBSET Row]
      /\ cursor \in [Device -> Nat] /\ ack \in [Account -> Nat]
      /\ acked \in [Account -> Nat] /\ a \in Account
      /\ \A r \in Row : r.time \in Nat /\ r.msg \in Nat \ {0}
  BY MessageStoreAssumption DEF TypeOK, SyncingOK, ReadingOK, Row, MsgId
<1>1. /\ pc[d] = "ack" /\ pc' = [pc EXCEPT ![d] = "idle"]
      /\ page' = [page EXCEPT ![d] = {}]
      /\ got' = [got EXCEPT ![d] = @ \cup page[d]]
      /\ handed' = [handed EXCEPT ![a] = @ \cup page[d]]
      /\ UNCHANGED <<clock, talks, sent, tables, req, start, relook, late>>
  BY DEF Answer
<1>2. /\ \A e \in Device : /\ page'[e] = IF e = d THEN {} ELSE page[e]
                           /\ pc'[e] = IF e = d THEN "idle" ELSE pc[e]
                           /\ got'[e] = IF e = d THEN got[e] \cup page[d] ELSE got[e]
      /\ \A b \in Account : handed'[b] = IF b = a THEN handed[b] \cup page[d]
                                                  ELSE handed[b]
  BY <1>0, <1>1
<1>3. \/ page[d] = {} /\ cursor' = cursor
      \/ \E last \in page[d] : /\ \A r \in page[d] : r.time <= last.time
                               /\ cursor' = [cursor EXCEPT ![d] = last.msg]
  BY DEF Answer
<1>4. \A e \in Device : /\ cursor'[e] \in Nat
                        /\ e # d => cursor'[e] = cursor[e]
  BY <1>0, <1>3
<1>5. \A b \in Account : ack'[b] = ack[b] \/ (b = a /\ ack'[b] = req[d])
  BY <1>0 DEF Answer, SetMessageAck
<1>6. TypeOK'
  <2>1. ack' \in [Account -> Nat] /\ acked' \in [Account -> Nat]
    BY <1>0 DEF Answer, SetMessageAck
  <2>2. cursor' \in [Device -> Nat]
    BY <1>0, <1>3
  <2>3. got' \in [Device -> SUBSET Row] /\ handed' \in [Account -> SUBSET Row]
    BY <1>0, <1>1
  <2>4. ReadingOK'
    BY <1>1, <2>2, <2>3 DEF TypeOK, ReadingOK
  <2>5. TablesOK' /\ SyncingOK'
    BY <1>0, <1>1 DEF TypeOK, TablesOK, SyncingOK, Place
  <2> QED  BY <1>1, <2>1, <2>4, <2>5 DEF TypeOK
<1>7. NewIds' /\ ContentTimes'
  BY <1>1 DEF NewIds, ContentTimes
<1>8. Stored'
  <2>1. \A b \in Account : handed'[b] \subseteq Inbox(b)
    BY <1>2 DEF Stored
  <2>2. \A e \in Device : page'[e] \subseteq Inbox(Owner[e])
    BY <1>2 DEF Stored
  <2>3. \A e \in Device : got'[e] \subseteq handed'[Owner[e]]
    BY <1>0, <1>2, MessageStoreAssumption DEF Stored
  <2> QED  BY <1>1, <2>1, <2>2, <2>3 DEF Stored, Inbox
<1>9. Known'
  <2>1. \A b \in Account, m \in Nat : IdOf(m, handed[b]) => IdOf(m, handed'[b])
    BY <1>2 DEF IdOf
  <2>2. req[d] = 0 \/ IdOf(req[d], handed[a])
    BY <1>0, <1>1 DEF Known
  <2>3. \A b \in Account : ack'[b] = 0 \/ IdOf(ack'[b], handed'[b])
    BY <1>0, <1>5, <2>1, <2>2 DEF Known
  <2>4. \A e \in Device : cursor'[e] = 0 \/ IdOf(cursor'[e], handed'[Owner[e]])
    <3> SUFFICES ASSUME NEW e \in Device
                 PROVE  cursor'[e] = 0 \/ IdOf(cursor'[e], handed'[Owner[e]])
      OBVIOUS
    <3>1. cursor'[e] = cursor[e] \/ (e = d /\ IdOf(cursor'[e], page[d]))
      BY <1>0, <1>3 DEF IdOf
    <3>2. Owner[e] \in Account /\ cursor[e] \in Nat
      BY <1>0, MessageStoreAssumption
    <3>3. CASE cursor'[e] = cursor[e]
      BY <3>2, <3>3, <2>1 DEF Known
    <3>4. CASE e = d /\ IdOf(cursor'[e], page[d])
      BY <3>4, <1>0, <1>2 DEF IdOf
    <3> QED  BY <3>1, <3>3, <3>4
  <2>5. \A e \in Device : pc'[e] # "idle" => req[e] = cursor'[e]
    BY <1>2, <1>4 DEF Known
  <2> QED  BY <1>1, <2>3, <2>4, <2>5 DEF Known, IdOf
<1>10. StartBehind'
  <2> SUFFICES ASSUME NEW e \in Device, pc'[e] \in {"find", "ack"}
               PROVE  start[e] <= Earliest \/ \E h \in handed'[Owner[e]] :
                                                  start[e] = h.time
    BY <1>1 DEF StartBehind, Earliest
  <2>1. Owner[e] \in Account /\ e # d
    BY <1>2, MessageStoreAssumption
  <2> QED  BY <1>2, <2>1 DEF StartBehind
<1>11. PageGap'
  BY <1>1, <1>2 DEF PageGap, Inbox
<1>12. PageLater'
  BY <1>1, <1>2 DEF PageLater
<1>13. NothingSkipped'
  <2> SUFFICES ASSUME NEW b \in Account, NEW r \in Inbox(b), NEW h \in handed'[b],
                      r.time <= h.time
               PROVE  \/ \E e \in handed'[b] : e.time = r.time
                      \/ r \in late
                      \/ Expired(r)
    BY <1>1 DEF NothingSkipped, Inbox, Expired, Earliest
  <2>0. /\ r.time \in Nat /\ Earliest \in Int
        /\ \A k \in handed[b] : k.time \in Nat
    <3>1. r \in Row /\ clock \in Nat /\ Day \in Nat
      BY MessageStoreAssumption DEF TypeOK, TablesOK, Inbox
    <3> QED  BY <3>1, <1>0 DEF Earliest
  <2>1. CASE h \in handed[b]
    BY <2>1, <1>2 DEF NothingSkipped
  <2>2. CASE b = a /\ h \in page[d]
    <3>1. CASE \E e \in page[d] : e.time = r.time
      BY <2>2, <3>1, <1>2
    <3>2. CASE r.time <= start[d] /\ start[d] <= Earliest
      BY <3>2, <2>0, <1>0 DEF Expired
    <3>3. CASE r.time <= start[d] /\ \E k \in handed[a] : start[d] = k.time
      <4>1. PICK k \in handed[a] : start[d] = k.time
        BY <3>3
      <4>2. r.time <= k.time
        BY <3>3, <4>1
      <4> QED  BY <2>2, <4>1, <4>2, <1>2 DEF NothingSkipped
    <3> QED
      BY <2>2, <3>1, <3>2, <3>3, <1>1 DEF PageGap, StartBehind
  <2> QED  BY <2>1, <2>2, <1>2
<1>14. Follows'
  <2> SUFFICES ASSUME NEW e \in Device
               PROVE  /\ cursor'[e] = 0 => got'[e] = {}
                      /\ ~relook[e] =>
                          /\ cursor'[e] \in DOMAIN content =>
                              \A r \in got'[e] : r.time <= content[cursor'[e]]
                          /\ pc'[e] \in {"find", "ack"} /\ req[e] # 0 =>
                              req[e] \in DOMAIN content /\ content[req[e]] <= start[e]
    BY <1>1 DEF Follows
  <2>1. CASE e # d
    BY <2>1, <1>2, <1>4 DEF Follows
  <2>2. CASE e = d /\ page[d] = {}
    BY <2>2, <1>2, <1>3 DEF Follows
  <2>3. CASE e = d /\ page[d] # {}
    <3>1. PICK last \in page[d] : /\ \A r \in page[d] : r.time <= last.time
                                  /\ cursor'[d] = last.msg
      BY <2>3, <1>0, <1>3
    <3>2. last \in Row /\ last \in index /\ last.time > start[d]
      BY <1>0 DEF Stored, Inbox, PageLater
    <3>3. ASSUME ~relook[d], last.msg \in DOMAIN content, NEW r \in got[d]
          PROVE  r.time <= last.time
      <4>1. req[d] = cursor[d] /\ req[d] # 0
        BY <1>1, <3>3 DEF Known, Follows
      <4>2. req[d] \in DOMAIN content /\ content[req[d]] <= start[d]
        BY <1>1, <3>3, <4>1 DEF Follows
      <4>3. r.time <= content[req[d]]
        BY <3>3, <4>1, <4>2 DEF Follows
      <4>4. r.time \in Nat /\ content[req[d]] \in Nat
        BY <1>0, <4>2 DEF TypeOK, TablesOK
      <4> QED  BY <1>0, <3>2, <4>2, <4>3, <4>4
    <3>4. last.msg \in DOMAIN content => content[last.msg] = last.time
      BY <3>2 DEF ContentTimes
    <3> QED  BY <2>3, <1>0, <1>2, <3>1, <3>2, <3>3, <3>4
  <2> QED  BY <2>1, <2>2, <2>3
<1> QED  BY <1>6, <1>7, <1>8, <1>9, <1>10, <1>11, <1>12, <1>13, <1>14

\* A failing request leaves the device as it was.
LEMMA FailStep == ASSUME IInv, NEW d \in Device, SyncFails(d) PROVE IInv'
<1> USE DEF IInv, tables, reading, SyncFails
<1>0. page \in [Device -> SUBSET Row] /\ pc \in [Device -> Place]
  BY DEF TypeOK, SyncingOK
<1>1. \A e \in Device : /\ page'[e] = IF e = d THEN {} ELSE page[e]
                        /\ pc'[e] = IF e = d THEN "idle" ELSE pc[e]
  BY <1>0
<1>2. TypeOK'
  <2>1. TablesOK' /\ SyncingOK' /\ ReadingOK'
    BY <1>0 DEF TypeOK, TablesOK, SyncingOK, ReadingOK, Place
  <2> QED  BY <2>1 DEF TypeOK
<1>3. NewIds' /\ ContentTimes' /\ NothingSkipped'
  BY DEF NewIds, ContentTimes, NothingSkipped, Inbox, Expired, Earliest
<1>4. Stored' /\ Known' /\ Follows'
  <2>1. Stored'
    BY <1>1 DEF Stored, Inbox
  <2>2. Known' /\ Follows'
    BY <1>1 DEF Known, IdOf, Follows
  <2> QED  BY <2>1, <2>2
<1>5. StartBehind' /\ PageGap' /\ PageLater'
  <2>1. StartBehind' /\ PageGap'
    BY <1>1 DEF StartBehind, PageGap, Inbox, Earliest
  <2>2. PageLater'
    BY <1>1 DEF PageLater
  <2> QED  BY <2>1, <2>2
<1> QED  BY <1>2, <1>3, <1>4, <1>5
-----------------------------------------------------------------------------
\* Every step keeps the inductive invariant.
LEMMA NextInv == IInv /\ [Next]_vars => IInv'
<1> SUFFICES ASSUME IInv, [Next]_vars PROVE IInv'
  OBVIOUS
<1>0. clock \in Nat /\ talks \in Nat /\ sent \subseteq Request /\ lastId \in Nat
      /\ members \in [Group -> SUBSET Account]
  BY DEF IInv, TypeOK, TablesOK
<1>1. CASE Tick
  BY <1>0, <1>1, QuietStep DEF Tick, tables
<1>2. ASSUME NEW from \in Account, NEW dest \in Account \cup Group, Talk(from, dest)
      PROVE  IInv'
  <2>1. talks' \in Nat /\ sent' \subseteq Request
    BY <1>0, <1>2 DEF Talk, Request
  <2> QED  BY <1>0, <1>2, <2>1, QuietStep DEF Talk, tables
<1>3. ASSUME NEW g \in Group, NEW as \in SUBSET Account, GroupCreate(g, as)
      PROVE  IInv'
  <2>1. members' \in [Group -> SUBSET Account]
    BY <1>0, <1>3 DEF GroupCreate
  <2>2. /\ clock' \in Nat /\ clock' >= clock
        /\ talks' \in Nat /\ sent' \subseteq Request
        /\ UNCHANGED <<lastId, content, index, ack, acked, syncing, reading, late>>
    BY <1>0, <1>3 DEF GroupCreate
  <2> QED  BY <2>1, <2>2, QuietStep
<1>4. ASSUME NEW g \in Group, NEW b \in Account, GroupJoin(g, b)
      PROVE  IInv'
  <2>1. members' \in [Group -> SUBSET Account]
    BY <1>0, <1>4 DEF GroupJoin
  <2>2. /\ clock' \in Nat /\ clock' >= clock
        /\ talks' \in Nat /\ sent' \subseteq Request
        /\ UNCHANGED <<lastId, content, index, ack, acked, syncing, reading, late>>
    BY <1>0, <1>4 DEF GroupJoin
  <2> QED  BY <2>1, <2>2, QuietStep
<1>5. CASE UNCHANGED vars
  BY <1>0, <1>5, QuietStep DEF vars, tables
<1>6. CASE \E q \in sent : Insert(q)
  BY <1>6, InsertStep
<1>7. CASE \E b \in Account : AckExpires(b) \/ MessageAck(b)
  BY <1>7, PositionStep
<1>8. ASSUME NEW d \in Device,
             \/ \E id \in {0, cursor[d]} : Sync(d, id)
             \/ GetSentTime(d) \/ GetSentTimeFails(d)
             \/ Find(d) \/ Answer(d) \/ SyncFails(d)
      PROVE  IInv'
  BY <1>8, AskStep, TimeStep, FindStep, AnswerStep, FailStep
<1> QED
  BY <1>1, <1>2, <1>3, <1>4, <1>5, <1>6, <1>7, <1>8 DEF Next

LEMMA Invariance == Spec => []IInv
BY InitInv, NextInv, PTL DEF Spec

\* The message service keeps the types of its tables and of its requests.
THEOREM TypeCorrect == Spec => []TypeOK
<1>1. IInv => TypeOK
  BY DEF IInv
<1> QED  BY <1>1, Invariance, PTL

\* No sequence of pages, of any number of devices, acknowledgements, failures
\* and joins, leaves an account without a message sent before one it was handed,
\* but for late, expired and simultaneous ones.
THEOREM NoGap == Spec => []NothingSkipped
<1>1. IInv => NothingSkipped
  BY DEF IInv
<1> QED  BY <1>1, Invariance, PTL

\* A device that pages on from the last message it was handed gets no message
\* again while the service finds the content of that message.
THEOREM NoRepeat == Spec => []NothingTwice
<1>1. IInv => NothingTwice
  <2> SUFFICES ASSUME IInv, NEW d \in Device, ~relook[d],
                      NEW r \in page[d], r \in got[d]
               PROVE  FALSE
    BY DEF NothingTwice
  <2> USE DEF IInv
  <2>1. pc[d] = "ack" /\ r.time > start[d]
    BY DEF PageLater
  <2>2. req[d] = cursor[d] /\ req[d] # 0
    BY <2>1 DEF Known, Follows
  <2>3. req[d] \in DOMAIN content /\ content[req[d]] <= start[d]
    BY <2>1, <2>2 DEF Follows
  <2>4. r.time <= content[req[d]]
    BY <2>2, <2>3 DEF Follows
  <2>5. r.time \in Nat /\ content[req[d]] \in Nat /\ start[d] \in Nat
    BY <2>3 DEF TypeOK, TablesOK, SyncingOK, Row
  <2> QED  BY <2>1, <2>3, <2>4, <2>5
<1> QED  BY <1>1, Invariance, PTL
=============================================================================
