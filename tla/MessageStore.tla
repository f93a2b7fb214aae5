--------------------------- MODULE MessageStore ---------------------------
(***************************************************************************)
(* The message service: services/service/handler/message_handler.go and    *)
(* group_handler.go over their tables (database/model.go) and the read     *)
(* position in redis (database/redis.go).                                  *)
(*                                                                         *)
(* Every message has one content row and one index row for each account    *)
(* concerned.  A device synchronises by asking for the indexes after a     *)
(* message it names, or, cold, after its account's read position; the      *)
(* handler turns that message into the time it was sent and selects what   *)
(* was sent later, at most Limit rows.  The time of sending is taken by    *)
(* the chat server before it calls the service, so messages are stored in  *)
(* another order than that of their times.                                 *)
(*                                                                         *)
(* A transaction of mysql is atomic; a failing one stores nothing.  The    *)
(* members of a group are read from another database than the messages     *)
(* are written to, but joining commutes with all that a message does, so   *)
(* both are one step.                                                      *)
(***************************************************************************)
EXTENDS Integers, FiniteSets

CONSTANTS Account,
          Group,
          NoGroup,      \* Group of an index row between two users
          Device,
          Owner,        \* the account a device is signed in with
          Limit,        \* wire.OfflineSyncIndexCount, 2000
          Day,          \* what AddDate(0, 0, -1) takes from the clock
          MaxTalk,      \* bound: the messages sent
          MaxClock      \* bound: the clock

ASSUME MessageStoreAssumption ==
    /\ Owner \in [Device -> Account]
    /\ Limit \in Nat \ {0}
    /\ Day \in Nat \ {0}
    /\ MaxTalk \in Nat
    /\ MaxClock \in Nat
    /\ NoGroup \notin Group
    /\ Account \cap Group = {}

VARIABLES
    clock,              \* the time, which the servers share
    talks,              \* the number of messages sent so far
    sent,               \* requests to insert that the service has not handled
    lastId,             \* the id generator
    content,            \* MessageCount: the send time of each content row
    index,              \* MessageIndex: its rows
    members,            \* GroupMember: the accounts of each group
    ack,                \* chat:ack:<account>, 0 when there is none
    acked,              \* history: the last id set there
    pc, req, start, page,  \* each device's request for indexes: its place, the
                        \* MessageId asked for, the handler's start and indexes
    cursor,             \* the last message of a device's last page
    got,                \* history: the rows handed to it since its cold start
    handed,             \* history: the rows handed to the account's devices
    relook,             \* history: since its cold start a device's message was
                        \* not found, so that the handler took Earliest
    late                \* history: rows stored when a row sent no earlier had
                        \* been read for their account

tables  == <<lastId, content, index, members>>
syncing == <<pc, req, start, page>>
reading == <<cursor, got, relook, handed>>
vars == <<clock, talks, sent, tables, ack, acked, syncing, reading, late>>

MsgId == Nat \ {0}
Row   == [to : Account, msg : MsgId, time : Nat, dir : {0, 1},
          group : Group \cup {NoGroup}]
Request == [nr : Nat, from : Account, dest : Account \cup Group,
            time : Nat]
Place == {"idle", "time", "find", "ack"}

Init ==
    /\ clock = Day + 1
    /\ talks = 0
    /\ sent = {}
    /\ lastId = 0
    /\ content = [m \in {} |-> 0]
    /\ index = {}
    /\ members = [g \in Group |-> {}]
    /\ ack = [a \in Account |-> 0]
    /\ acked = [a \in Account |-> 0]
    /\ pc = [d \in Device |-> "idle"]
    /\ req = [d \in Device |-> 0]
    /\ start = [d \in Device |-> 0]
    /\ page = [d \in Device |-> {}]
    /\ cursor = [d \in Device |-> 0]
    /\ got = [d \in Device |-> {}]
    /\ relook = [d \in Device |-> FALSE]
    /\ handed = [a \in Account |-> {}]
    /\ late = {}

Tick ==
    /\ clock < MaxClock
    /\ clock' = clock + 1
    /\ UNCHANGED <<talks, sent, tables, ack, acked, syncing, reading, late>>

---------------------------------------------------------------------------
(* Storing messages *)

\* DoUserTalk and DoGroupTalk: the time is taken and the request sent.
Talk(from, dest) ==
    /\ talks < MaxTalk
    /\ talks' = talks + 1
    /\ sent' = sent \cup {[nr |-> talks', from |-> from, dest |-> dest,
                           time |-> clock]}
    /\ UNCHANGED <<clock, tables, ack, acked, syncing, reading, late>>

\* The rows of account a that a page already holds, or held.
ReadBy(a) == handed[a] \cup UNION {page[d] : d \in {e \in Device : Owner[e] = a}}

Overtaken(rows) == {r \in rows : \E h \in ReadBy(r.to) : r.time <= h.time}

\* The transaction: the content under id, and the index rows.
Store(id, time, rows) ==
    /\ content' = [m \in DOMAIN content \cup {id} |->
                    IF m = id THEN time ELSE content[m]]
    /\ index' = index \cup rows
    /\ late' = late \cup Overtaken(rows)

UserRows(q, id) ==
    {[to |-> q.dest, msg |-> id, time |-> q.time, dir |-> 0, group |-> NoGroup],
     [to |-> q.from, msg |-> id, time |-> q.time, dir |-> 1, group |-> NoGroup]}

InsertUser(q) ==
    /\ q.dest \in Account
    /\ lastId' = lastId + 1
    /\ Store(lastId', q.time, UserRows(q, lastId'))
    /\ sent' = sent \ {q}
    /\ UNCHANGED <<clock, talks, members, ack, acked, syncing, reading>>

GroupRows(q, id) ==
    {[to |-> a, msg |-> id, time |-> q.time, dir |-> IF a = q.from THEN 1 ELSE 0,
      group |-> q.dest] : a \in members[q.dest]}

\* The content gets an id of its own, not the one the index rows carry.  No
\* members, no rows, and creating no rows is an error to gorm: InsertFails.
InsertGroup(q) ==
    /\ q.dest \in Group
    /\ members[q.dest] # {}
    /\ lastId' = lastId + 2
    /\ Store(lastId + 2, q.time, GroupRows(q, lastId + 1))
    /\ sent' = sent \ {q}
    /\ UNCHANGED <<clock, talks, members, ack, acked, syncing, reading>>

\* The transaction, or a call before it, fails.
InsertFails(q) ==
    /\ sent' = sent \ {q}
    /\ UNCHANGED <<clock, talks, tables, ack, acked, syncing, reading, late>>

\* groupCreate, with the members named in the request (creating no member rows
\* fails), and GroupJoin, which the unique index of GroupMember keeps from
\* adding an account twice.  GroupQuit deletes by a GroupMember without its
\* primary key, which gorm refuses: it changes nothing.
GroupCreate(g, as) ==
    /\ members[g] = {}
    /\ as # {}
    /\ members' = [members EXCEPT ![g] = as]
    /\ UNCHANGED <<clock, talks, sent, lastId, content, index, ack, acked,
                   syncing, reading, late>>

GroupJoin(g, a) ==
    /\ members[g] # {}
    /\ a \notin members[g]
    /\ members' = [members EXCEPT ![g] = @ \cup {a}]
    /\ UNCHANGED <<clock, talks, sent, lastId, content, index, ack, acked,
                   syncing, reading, late>>

---------------------------------------------------------------------------
(* Reading them *)

\* setMessageAck.  It expires in 15 ns, less than redis can express: depending
\* on the redis client this is an error (AckFails, SyncFails) or a position
\* that is soon gone (AckExpires).
SetMessageAck(a, id) ==
    IF id = 0
    THEN UNCHANGED <<ack, acked>>
    ELSE /\ ack' = [ack EXCEPT ![a] = id]
         /\ acked' = [acked EXCEPT ![a] = id]

AckExpires(a) ==
    /\ ack[a] # 0
    /\ ack' = [ack EXCEPT ![a] = 0]
    /\ UNCHANGED <<clock, talks, sent, tables, acked, syncing, reading, late>>

\* MessageAck for a message the account was handed, which may be any of them.  The
\* service takes any id (message_handler.go:141-152), so a chat.talk.ack may name
\* one that was pushed and never synchronised; that is left out.
MessageAck(a) ==
    /\ \E r \in handed[a] : SetMessageAck(a, r.msg)
    /\ UNCHANGED <<clock, talks, sent, tables, syncing, reading, late>>

\* A device asks: from nothing, or from the last message it was handed.
Sync(d, id) ==
    /\ pc[d] = "idle"
    /\ id \in {0, cursor[d]}
    /\ pc' = [pc EXCEPT ![d] = "time"]
    /\ req' = [req EXCEPT ![d] = id]
    /\ got' = IF id = 0 THEN [got EXCEPT ![d] = {}] ELSE got
    /\ cursor' = [cursor EXCEPT ![d] = id]
    /\ relook' = IF id = 0 THEN [relook EXCEPT ![d] = FALSE] ELSE relook
    /\ UNCHANGED <<clock, talks, sent, tables, ack, acked, start, page, handed,
                   late>>

Earliest == clock - Day

SentTime(id) ==
    IF id \in DOMAIN content /\ content[id] >= Earliest
    THEN content[id] ELSE Earliest

\* getSentTime takes an error of either lookup for a message that is not there.
GetSentTime(d) ==
    /\ pc[d] = "time"
    /\ pc' = [pc EXCEPT ![d] = "find"]
    /\ start' = [start EXCEPT ![d] =
                    SentTime(IF req[d] = 0 THEN ack[Owner[d]] ELSE req[d])]
    /\ relook' = [relook EXCEPT ![d] = @ \/ req[d] \notin DOMAIN content \cup {0}]
    /\ UNCHANGED <<clock, talks, sent, tables, ack, acked, req, page, cursor,
                   got, handed, late>>

GetSentTimeFails(d) ==
    /\ pc[d] = "time"
    /\ pc' = [pc EXCEPT ![d] = "find"]
    /\ start' = [start EXCEPT ![d] = Earliest]
    /\ relook' = [relook EXCEPT ![d] = @ \/ req[d] # 0]
    /\ UNCHANGED <<clock, talks, sent, tables, ack, acked, req, page, cursor,
                   got, handed, late>>

InclusiveSelected(d) == {r \in index : /\ r.to = Owner[d]
                                       /\ r.time >= start[d]
                                       /\ r.dir = 0}

\* account_a = ? and send_time > ? and direction = 0
Selected(d) == {r \in index : /\ r.to = Owner[d]
                              /\ r.time > start[d]
                              /\ r.dir = 0}

UnorderedPage(p, rows) ==
    /\ p \subseteq rows
    /\ Cardinality(p) <= Limit
    /\ p = rows \/ Cardinality(p) = Limit

\* The first Limit of them in the order of their times, equal ones in any.
IsPage(p, rows) ==
    /\ p \subseteq rows
    /\ \A r \in rows \ p, e \in p : e.time <= r.time
    /\ Cardinality(p) <= Limit
    /\ p = rows \/ Cardinality(p) = Limit

Find(d) ==
    /\ pc[d] = "find"
    /\ pc' = [pc EXCEPT ![d] = "ack"]
    /\ \E p \in SUBSET Selected(d) :
        /\ IsPage(p, Selected(d))
        /\ page' = [page EXCEPT ![d] = p]
    /\ UNCHANGED <<clock, talks, sent, tables, ack, acked, req, start, reading,
                   late>>

\* The position asked for is saved and the page handed to the device.
Answer(d) ==
    /\ pc[d] = "ack"
    /\ SetMessageAck(Owner[d], req[d])
    /\ pc' = [pc EXCEPT ![d] = "idle"]
    /\ got' = [got EXCEPT ![d] = @ \cup page[d]]
    /\ handed' = [handed EXCEPT ![Owner[d]] = @ \cup page[d]]
    /\ IF page[d] = {}
       THEN UNCHANGED cursor
       ELSE \E last \in page[d] :
                /\ \A r \in page[d] : r.time <= last.time
                /\ cursor' = [cursor EXCEPT ![d] = last.msg]
    /\ page' = [page EXCEPT ![d] = {}]
    /\ UNCHANGED <<clock, talks, sent, tables, req, start, relook, late>>

\* The query, the save, or the call as a whole fails; the device gets no page.
SyncFails(d) ==
    /\ pc[d] # "idle"
    /\ pc' = [pc EXCEPT ![d] = "idle"]
    /\ page' = [page EXCEPT ![d] = {}]
    /\ UNCHANGED <<clock, talks, sent, tables, ack, acked, req, start, reading,
                   late>>

Insert(q) == InsertUser(q) \/ InsertGroup(q) \/ InsertFails(q)

Next ==
    \/ Tick
    \/ \E from \in Account, dest \in Account \cup Group : Talk(from, dest)
    \/ \E q \in sent : Insert(q)
    \/ \E g \in Group :
        \/ \E as \in SUBSET Account : GroupCreate(g, as)
        \/ \E a \in Account : GroupJoin(g, a)
    \/ \E a \in Account : AckExpires(a) \/ MessageAck(a)
    \/ \E d \in Device :
        \/ \E id \in {0, cursor[d]} : Sync(d, id)
        \/ GetSentTime(d) \/ GetSentTimeFails(d)
        \/ Find(d) \/ Answer(d) \/ SyncFails(d)

Spec == Init /\ [][Next]_vars

---------------------------------------------------------------------------
(* Properties *)

TablesOK ==
    /\ lastId \in Nat
    /\ DOMAIN content \subseteq MsgId
    /\ content \in [DOMAIN content -> Nat]
    /\ index \subseteq Row
    /\ members \in [Group -> SUBSET Account]

SyncingOK ==
    /\ pc \in [Device -> Place]
    /\ req \in [Device -> Nat]
    /\ start \in [Device -> Nat]
    /\ page \in [Device -> SUBSET Row]

ReadingOK ==
    /\ cursor \in [Device -> Nat]
    /\ got \in [Device -> SUBSET Row]
    /\ relook \in [Device -> BOOLEAN]
    /\ handed \in [Account -> SUBSET Row]

\* Every variable has its type, and the clock has passed the first day.
TypeOK ==
    /\ clock \in Nat /\ clock > Day
    /\ talks \in Nat
    /\ sent \subseteq Request
    /\ TablesOK
    /\ ack \in [Account -> Nat] /\ acked \in [Account -> Nat]
    /\ SyncingOK
    /\ ReadingOK
    /\ late \subseteq Row

Expired(r) == r.time <= Earliest

Inbox(a) == {r \in index : r.to = a /\ r.dir = 0}

\* Once an account was handed a message, it was handed every message sent to it
\* before that one, except those stored too late, those older than a day and
\* those sent at the very time of one it was handed.  What GetOfflineMessageIndex
\* makes of the pages of several devices, of read positions that move back or
\* are gone, of failed lookups and of messages without content never opens
\* another gap.  An acknowledgement of a message that was pushed, and so was never
\* handed out here, passes over what lies before it; MessageAck leaves it out.
NothingSkipped ==
    \A a \in Account : \A r \in Inbox(a), h \in handed[a] :
        r.time <= h.time =>
            \/ \E e \in handed[a] : e.time = r.time
            \/ r \in late
            \/ Expired(r)

\* A device that goes on from the last message it was handed is handed nothing
\* twice, as long as GetOfflineMessageIndex finds that message's content.
NothingTwice ==
    \A d \in Device : ~relook[d] => page[d] \cap got[d] = {}

\* message_handler.go:182 calls the message whose id is saved the one up to which
\* the account is synchronised: whatever was sent to it earlier, and is not
\* older than a day, has been handed to it.
SyncedMeansDelivered ==
    \A a \in Account : \A r \in Inbox(a) :
        acked[a] \in DOMAIN content /\ r.time < content[acked[a]] =>
            r \in handed[a] \/ Expired(r)
=============================================================================
