------------------------------- MODULE Client -------------------------------
(***************************************************************************)
(* The client side of a connection: tcp/client.go and websocket/client.go. *)
(* The two differ in three places: Send over tcp goes on when the client   *)
(* is not connected; Send and ping over tcp move the READ deadline by      *)
(* WriteWait, and set none for the write; and ping over tcp takes no lock  *)
(* and always pings the newest connection.  `kind` says which of the two   *)
(* the client is.                                                          *)
(*                                                                         *)
(* Callers connect, send, read in a loop and close.  Time passes in ticks, *)
(* and a tick only passes when nobody has anything left to do: the program *)
(* and the peer are quick compared with the waits, which are all seconds.  *)
(* Only a write over tcp to a peer that fell silent may take any time, and *)
(* need not end.                                                           *)
(* A frame is written in Pieces calls of Write, as in Channel.             *)
(***************************************************************************)
EXTENDS Naturals, FiniteSets

CONSTANTS MaxConn,      \* bound: the connections a client makes, one after another
          Sender,       \* the goroutines that send
          Closer,       \* the goroutine that closes
          None,         \* nobody, no connection
          Never,        \* no deadline
          Pieces,       \* the writes of one frame
          HeartBeat, ReadWait, WriteWait,   \* the options, in ticks
          PongDelay,    \* a peer that is alive answers a ping within this time
          MaxSend       \* bound: the calls of Send between two ticks

Conn == 1 .. MaxConn

ASSUME ClientAssumption ==
    /\ MaxConn \in Nat /\ MaxSend \in Nat /\ Pieces \in Nat \ {0}
    /\ None \notin Conn \cup Sender \cup {Closer} /\ Closer \notin Conn \cup Sender
    /\ Sender \cap Conn = {} /\ Never \notin Nat
    /\ {HeartBeat, ReadWait, WriteWait, PongDelay} \subseteq Nat
    /\ PongDelay < WriteWait /\ WriteWait < HeartBeat
    /\ HeartBeat + PongDelay < ReadWait /\ MaxConn * WriteWait < HeartBeat

VARIABLES
    kind, beats,        \* tcp or ws; whether options.HeartBeat is positive
    state, conn, once,  \* the fields of Client
    dialing,            \* a Connect is in DialAndHandshake
    sock, peer,         \* each connection: none, open or closed; the other
                        \* side: live, silent (nothing arrives) or gone
    deadline, pong,     \* ticks to its read deadline; to the peer's next pong
    lock,               \* who holds the mutex
    place, piece, to,   \* each writer: its place, writes made, and where to
    heart, beat,        \* the heartbeat loops that run; ticks to their tick
    reader,             \* the connection each reading goroutine waits for
    sends,              \* how many calls of Send there were since the last tick
    everSent,           \* whether there ever was one
    tail, garbled,      \* the byte stream of each connection, as in Channel
    cutShort,           \* open ones with a frame that a failed write left unfinished
    lost                \* open ones whose reader gave up though the peer answers

config  == <<kind, beats>>
fields  == <<state, conn, once, dialing>>
links   == <<sock, peer>>
timers  == <<deadline, pong, beat>>
writers == <<lock, place, piece, to, sends, everSent>>
readers == <<reader, lost>>
stream  == <<tail, garbled, cutShort>>
vars == <<config, fields, links, timers, writers, heart, readers, stream>>

\* Whoever writes: senders, the heartbeat loop of each connection, the closer.
Writer == Sender \cup Conn \cup {Closer}

Init ==
    /\ kind \in {"tcp", "ws"} /\ beats \in BOOLEAN
    /\ state = 0 /\ conn = None /\ once = FALSE /\ dialing = FALSE
    /\ sock = [c \in Conn |-> "none"] /\ peer = [c \in Conn |-> "live"]
    /\ deadline = [c \in Conn |-> Never] /\ pong = [c \in Conn |-> Never]
    /\ beat = [c \in Conn |-> Never] /\ heart = {}
    /\ lock = None /\ sends = 0 /\ everSent = FALSE
    /\ place = [w \in Writer |-> "idle"]
    /\ piece = [w \in Writer |-> 0]
    /\ to = [w \in Writer |-> None]
    /\ reader = [c \in Conn |-> None]
    /\ tail = [c \in Conn |-> None] /\ garbled = [c \in Conn |-> FALSE]
    /\ cutShort = {} /\ lost = {}
-----------------------------------------------------------------------------
(***************************************************************************)
(* Read, called in a loop until it fails: goroutine c goes to wait for a   *)
(* frame of the connection the field holds by then.                        *)
(***************************************************************************)
UntimedRead(c, d, times) ==
    /\ reader' = [reader EXCEPT ![c] = d]
    /\ deadline' = times

ClearedRead(c, d, times) ==
    /\ reader' = [reader EXCEPT ![c] = d]
    /\ deadline' = IF beats THEN [times EXCEPT ![d] = Never] ELSE times

Read(c, d, times) ==
    /\ reader' = [reader EXCEPT ![c] = d]
    /\ deadline' = IF beats THEN [times EXCEPT ![d] = ReadWait] ELSE times
-----------------------------------------------------------------------------
(***************************************************************************)
(* Connect.  A client that is connected, or connecting, refuses.           *)
(***************************************************************************)
UncheckedConnect ==
    /\ ~dialing
    /\ state' = 1 /\ dialing' = TRUE
    /\ UNCHANGED <<config, conn, once, links, timers, writers, heart, readers, stream>>

Connect ==
    /\ state = 0
    /\ state' = 1 /\ dialing' = TRUE
    /\ UNCHANGED <<config, conn, once, links, timers, writers, heart, readers, stream>>

DialFails ==
    /\ dialing
    /\ state' = 0 /\ dialing' = FALSE
    /\ UNCHANGED <<config, conn, once, links, timers, writers, heart, readers, stream>>

\* The ws dialer waited for the answer to its login under a deadline, and
\* leaves that deadline behind.  The caller starts to read.
Connected(c) ==
    /\ dialing /\ sock[c] = "none" /\ \A d \in Conn : d < c => sock[d] # "none"
    /\ dialing' = FALSE
    /\ conn' = c
    /\ sock' = [sock EXCEPT ![c] = "open"]
    /\ Read(c, c, [deadline EXCEPT ![c] = IF kind = "ws" THEN WriteWait ELSE Never])
    /\ heart' = IF beats THEN heart \cup {c} ELSE heart
    /\ beat' = [beat EXCEPT ![c] = IF beats THEN HeartBeat ELSE Never]
    /\ UNCHANGED <<config, state, once, peer, pong, writers, lost, stream>>
-----------------------------------------------------------------------------
(***************************************************************************)
(* Send and ping.                                                          *)
(***************************************************************************)
\* The heartbeat loop over ws keeps its connection; the rest use the field.
Target(w) == IF kind = "ws" /\ w \in Conn THEN w ELSE conn

\* tcp's Send makes an error of not being connected and goes on; no caller
\* sends before Connect has returned.
Send(s) ==
    /\ place[s] = "idle" /\ conn # None /\ sends < MaxSend
    /\ kind = "ws" => state = 1
    /\ sends' = sends + 1 /\ everSent' = TRUE
    /\ place' = [place EXCEPT ![s] = "lock"]
    /\ UNCHANGED <<config, fields, links, timers, lock, piece, to, heart, readers, stream>>

\* The writer returns, and a heartbeat loop ends when its ping failed.  Close
\* goes on whether it could write or not.
PatientReturn(w, failed) ==
    /\ place' = [place EXCEPT ![w] = IF w = Closer THEN "close" ELSE "idle"]
    /\ piece' = [piece EXCEPT ![w] = 0]
    /\ to' = [to EXCEPT ![w] = None]
    /\ UNCHANGED <<heart, sends, everSent>>

Return(w, failed) ==
    /\ place' = [place EXCEPT ![w] = IF w = Closer THEN "close" ELSE "idle"]
    /\ piece' = [piece EXCEPT ![w] = 0]
    /\ to' = [to EXCEPT ![w] = None]
    /\ heart' = IF failed THEN heart \ {w} ELSE heart
    /\ UNCHANGED <<sends, everSent>>

\* A deadline is set: over tcp the one for reading.  A closed socket refuses.
SetDeadline(w, rest) ==
    /\ IF sock[Target(w)] = "closed"
       THEN Return(w, TRUE) /\ UNCHANGED deadline
       ELSE /\ place' = [place EXCEPT ![w] = "write"]
            /\ deadline' = IF kind = "tcp" THEN [deadline EXCEPT ![conn] = WriteWait] ELSE deadline
            /\ UNCHANGED <<piece, to, sends, everSent, heart>>
    /\ beat' = rest
    /\ UNCHANGED <<config, fields, links, pong, readers, stream>>

UnheededLock(w) ==
    /\ place[w] = "lock"
    /\ SetDeadline(w, beat)
    /\ lock' = IF place'[w] = "write" THEN w ELSE lock

Lock(w) ==
    /\ place[w] = "lock" /\ lock = None
    /\ SetDeadline(w, beat)
    /\ lock' = IF place'[w] = "write" THEN w ELSE None

\* The ticker of a heartbeat loop: over ws ping waits for the lock first.
Ping(c) ==
    /\ c \in heart /\ place[c] = "idle" /\ beat[c] = 0
    /\ UNCHANGED lock
    /\ IF kind = "tcp" THEN SetDeadline(c, [beat EXCEPT ![c] = HeartBeat])
       ELSE /\ place' = [place EXCEPT ![c] = "lock"]
            /\ beat' = [beat EXCEPT ![c] = HeartBeat]
            /\ UNCHANGED <<config, fields, links, deadline, pong, piece, to, sends, everSent,
                           heart, readers, stream>>

\* WriteFrame takes the connection when it starts.
Into(w) == IF piece[w] = 0 THEN Target(w) ELSE to[w]

Unlock(w) == lock' = IF lock = w THEN None ELSE lock

Starts(w, c) == tail[c] = IF piece[w] = 0 THEN None ELSE w

OverlongWritePiece(w) ==
    LET c == Into(w)
        last == piece[w] = Pieces
    IN  /\ place[w] = "write" /\ sock[c] = "open" /\ peer[c] # "gone"
        /\ garbled' = [garbled EXCEPT ![c] = @ \/ ~Starts(w, c)]
        /\ tail' = [tail EXCEPT ![c] = IF last THEN None ELSE w]
        /\ IF last THEN Return(w, FALSE) /\ Unlock(w)
           ELSE /\ piece' = [piece EXCEPT ![w] = @ + 1]
                /\ to' = [to EXCEPT ![w] = c]
                /\ UNCHANGED <<lock, place, sends, everSent, heart>>
        /\ pong' = IF last /\ w \in Conn /\ peer[c] = "live" /\ ~garbled'[c]
                   THEN [pong EXCEPT ![c] = PongDelay] ELSE pong
        /\ UNCHANGED <<config, fields, links, deadline, beat, readers, cutShort>>

WritePiece(w) ==
    LET c == Into(w)
        last == piece[w] + 1 = Pieces
    IN  /\ place[w] = "write" /\ sock[c] = "open" /\ peer[c] # "gone"
        /\ garbled' = [garbled EXCEPT ![c] = @ \/ ~Starts(w, c)]
        /\ tail' = [tail EXCEPT ![c] = IF last THEN None ELSE w]
        /\ IF last THEN Return(w, FALSE) /\ Unlock(w)
           ELSE /\ piece' = [piece EXCEPT ![w] = @ + 1]
                /\ to' = [to EXCEPT ![w] = c]
                /\ UNCHANGED <<lock, place, sends, everSent, heart>>
        /\ pong' = IF last /\ w \in Conn /\ peer[c] = "live" /\ ~garbled'[c]
                   THEN [pong EXCEPT ![c] = PongDelay] ELSE pong
        /\ UNCHANGED <<config, fields, links, deadline, beat, readers, cutShort>>

\* The connection is gone and nobody reads what was left of the frame, or over
\* ws the write ran into its deadline and the next frame follows the part sent.
WriteFails(w) ==
    LET c == Into(w)
        gone == sock[c] = "closed" \/ peer[c] = "gone"
    IN  /\ place[w] = "write" /\ (gone \/ kind = "ws")
        /\ Return(w, TRUE) /\ Unlock(w)
        /\ tail' \in IF gone THEN {tail} ELSE {tail, [tail EXCEPT ![c] = w]}
        /\ garbled' = [garbled EXCEPT ![c] = @ \/ (tail' # tail /\ ~Starts(w, c))]
        /\ cutShort' = IF gone THEN cutShort ELSE cutShort \cup {c}
        /\ UNCHANGED <<config, fields, links, timers, readers>>
-----------------------------------------------------------------------------
(***************************************************************************)
(* Close runs once in the life of a client, without the lock.              *)
(***************************************************************************)
Close ==
    /\ ~once
    /\ once' = TRUE
    /\ place' = [place EXCEPT ![Closer] = IF conn = None THEN "idle" ELSE "write"]
    /\ UNCHANGED <<config, state, conn, dialing, links, timers, lock, piece, to, sends, everSent,
                   heart, readers, stream>>

\* With the socket go its deadline and whatever was on its way.
CloseConn ==
    /\ place[Closer] = "close"
    /\ sock' = [sock EXCEPT ![conn] = "closed"] /\ peer' = [peer EXCEPT ![conn] = "gone"]
    /\ deadline' = [deadline EXCEPT ![conn] = Never] /\ pong' = [pong EXCEPT ![conn] = Never]
    /\ tail' = [tail EXCEPT ![conn] = None] /\ garbled' = [garbled EXCEPT ![conn] = FALSE]
    /\ cutShort' = cutShort \ {conn} /\ lost' = lost \ {conn}
    /\ place' = [place EXCEPT ![Closer] = "reset"]
    /\ UNCHANGED <<config, fields, beat, lock, piece, to, sends, everSent, heart, reader>>

Reset ==
    /\ place[Closer] = "reset"
    /\ state' = 0
    /\ place' = [place EXCEPT ![Closer] = "idle"]
    /\ UNCHANGED <<config, conn, once, dialing, links, timers, lock, piece, to, sends, everSent,
                   heart, readers, stream>>
-----------------------------------------------------------------------------
(***************************************************************************)
(* What a Read meets.                                                      *)
(***************************************************************************)
Reads(c, d) == reader[c] = d /\ sock[d] = "open"

ReadEnds(c) ==
    /\ reader' = [reader EXCEPT ![c] = None]
    /\ UNCHANGED <<config, fields, links, timers, writers, heart, stream>>

ReadPong(c) ==
    \E d \in Conn :
        /\ Reads(c, d) /\ peer[d] = "live" /\ pong[d] # Never
        /\ pong' = [pong EXCEPT ![d] = Never]
        /\ Read(c, conn, deadline)
        /\ UNCHANGED <<config, fields, links, beat, writers, heart, lost, stream>>

\* Another frame of the peer's; a close frame makes Read fail.
ReadFrame(c) ==
    \E d \in Conn :
        /\ Reads(c, d) /\ peer[d] = "live"
        /\ \/ /\ Read(c, conn, deadline)
              /\ UNCHANGED <<config, fields, links, pong, beat, writers, heart, stream>>
           \/ ReadEnds(c)
        /\ UNCHANGED lost

ReadFails(c) ==
    /\ \E d \in Conn : reader[c] = d /\ (sock[d] = "closed" \/ peer[d] = "gone")
    /\ ReadEnds(c)
    /\ UNCHANGED lost

ReadTimesOut(c) ==
    \E d \in Conn :
        /\ Reads(c, d) /\ deadline[d] = 0
        /\ ReadEnds(c)
        /\ lost' = IF peer[d] = "live" THEN lost \cup {d} ELSE lost
-----------------------------------------------------------------------------
(***************************************************************************)
(* The other side, and time.                                               *)
(***************************************************************************)
\* Of one that fell silent the system may find out that it is gone.
PeerStops(c) ==
    /\ sock[c] = "open"
    /\ \E how \in IF peer[c] = "live" THEN {"silent", "gone"} ELSE {"gone"} :
          peer' = [peer EXCEPT ![c] = how]
    /\ UNCHANGED <<config, fields, sock, timers, writers, heart, readers, stream>>

Less(t) == [c \in Conn |-> IF t[c] \in {0, Never} THEN t[c] ELSE t[c] - 1]

\* Goroutine c has something to read, or to learn, at once.
ReadDue(c) ==
    \E d \in Conn :
        /\ reader[c] = d
        /\ sock[d] = "closed" \/ peer[d] = "gone" \/ deadline[d] = 0
           \/ (peer[d] = "live" /\ pong[d] = 0)

\* A write without a deadline, which nobody takes from the other end: it ends
\* when there is room left for it.
Stuck(w) == kind = "tcp" /\ place[w] = "write" /\ peer[Into(w)] = "silent"

Rests(w) == place[w] = "idle" \/ Stuck(w) \/ (place[w] = "lock" /\ lock # None /\ Stuck(lock))

\* A ticker keeps its tick for a loop that is not waiting for it.
Tick ==
    /\ \A w \in Writer : Rests(w)
    /\ \A c \in heart : beat[c] = 0 => place[c] # "idle"
    /\ \A c \in Conn : ~ReadDue(c)
    /\ deadline' = Less(deadline) /\ pong' = Less(pong) /\ beat' = Less(beat)
    /\ sends' = 0
    /\ UNCHANGED <<config, fields, links, lock, place, piece, to, everSent, heart, readers, stream>>

Dialing == Connect \/ DialFails \/ \E c \in Conn : Connected(c)
Write(w) == Lock(w) \/ WritePiece(w) \/ WriteFails(w)
Heartbeat(c) == Ping(c) \/ Write(c)
Closing == Write(Closer) \/ CloseConn \/ Reset
Answered(c) == ReadPong(c) \/ ReadFails(c) \/ ReadTimesOut(c)
Readloop(c) == Answered(c) \/ ReadFrame(c)

Next ==
    \/ Dialing \/ Close \/ Closing \/ Tick
    \/ \E s \in Sender : Send(s) \/ Write(s)
    \/ \E c \in Conn : Heartbeat(c) \/ Readloop(c) \/ PeerStops(c)

Spec == Init /\ [][Next]_vars

\* The goroutines run, time passes and a live peer answers.  Nobody has to
\* connect, send, close or stop, a peer need send nothing but pongs, and a write
\* that is stuck need not end.
FairSpec ==
    /\ Spec
    /\ WF_vars(Tick) /\ WF_vars(~Stuck(Closer) /\ Closing)
    /\ \A s \in Sender : WF_vars(~Stuck(s) /\ Write(s))
    /\ \A c \in Conn : WF_vars(~Stuck(c) /\ Heartbeat(c)) /\ WF_vars(Answered(c))
-----------------------------------------------------------------------------
TypeOK ==
    /\ kind \in {"tcp", "ws"} /\ beats \in BOOLEAN
    /\ state \in 0 .. 1 /\ conn \in Conn \cup {None}
    /\ once \in BOOLEAN /\ dialing \in BOOLEAN
    /\ sock \in [Conn -> {"none", "open", "closed"}]
    /\ peer \in [Conn -> {"live", "silent", "gone"}]
    /\ deadline \in [Conn -> 0 .. ReadWait \cup {Never}]
    /\ pong \in [Conn -> 0 .. PongDelay \cup {Never}]
    /\ beat \in [Conn -> 0 .. HeartBeat \cup {Never}]
    /\ lock \in Writer \cup {None} /\ heart \subseteq Conn
    /\ place \in [Writer -> {"idle", "lock", "write", "close", "reset"}]
    /\ piece \in [Writer -> 0 .. Pieces - 1]
    /\ to \in [Writer -> Conn \cup {None}]
    /\ reader \in [Conn -> Conn \cup {None}]
    /\ sends \in 0 .. MaxSend /\ everSent \in BOOLEAN
    /\ tail \in [Conn -> Writer \cup {None}]
    /\ garbled \in [Conn -> BOOLEAN] /\ cutShort \subseteq Conn
    /\ lost \subseteq Conn

\* However calls of Connect and Close meet, a client holds one connection.
OneConnection == Cardinality({c \in Conn : sock[c] = "open"}) <= 1

\* The frames of two Sends never mix, and over ws neither do pings: what the
\* peer cannot parse is the work of Close, of a ping over tcp, or of a write
\* that gave up half way.
SendsDoNotMix ==
    \A c \in Conn :
        garbled[c] => place[Closer] # "idle" \/ (kind = "tcp" /\ beats) \/ c \in cutShort

\* With heartbeats, a client gives up a peer that still answers only because a
\* Send over tcp shortened the read deadline, or because its pings were broken.
KeptAlive ==
    \A c \in lost : beats => \/ kind = "tcp" /\ everSent
                             \/ c \in cutShort \/ garbled[c]

\* Somebody waits for a peer that fell silent, though heartbeats are sent.
ReadsSilence == \E c \in Conn : beats /\ reader[c] # None /\ peer[reader[c]] = "silent"

\* With heartbeats, whoever reads from a peer that fell silent ends, over tcp once
\* Sends cease: each puts the read deadline off to WriteWait from then.  So does
\* each ping, and every reconnection leaves one more loop of pings, which is what
\* the last part of the assumption is for.
SilenceNoticed == <>[](kind = "ws" \/ sends = 0) => <>[]~ReadsSilence

\* The same of a client that goes on sending.  Over tcp it does not hold: one that
\* sends oftener than WriteWait reads for ever (tcp/client.go:118).
BusyNoticesSilence == <>[]~ReadsSilence

\* When the connection of a client is closed the goroutine reading it ends, and
\* so does its heartbeat, unless over tcp it found the next connection.
GoroutinesEnd ==
    <>[](\A c \in Conn :
            sock[c] = "closed" => /\ \A d \in Conn : reader[d] # c
                                  /\ c \notin heart \/ (kind = "tcp" /\ conn # c))
=============================================================================
