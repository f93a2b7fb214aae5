---------------------------- MODULE ClientProofs ----------------------------
(***************************************************************************)
(* Theorems about module Client, for any number of connections, senders    *)
(* and sends and any waits that fit into each other.                       *)
(*                                                                         *)
(* The inductive invariant says who may hold what (Held, Closes, Writes,   *)
(* Locked), that a frame under way belongs to the one who holds the lock   *)
(* (Frames), and how the clocks of a connection in good health stand to    *)
(* each other (InTime): a pong is always due before the read deadline.     *)
(***************************************************************************)
EXTENDS Client, FiniteSetTheorems, TLAPS

\* What a connection is before it is made.
Unmade(c) ==
    /\ tail[c] = None /\ ~garbled[c] /\ c \notin cutShort \cup lost \cup heart
    /\ pong[c] = Never /\ peer[c] = "live" /\ reader[c] = None /\ place[c] = "idle"
    /\ conn # c

\* The only open connection is the one the field holds, and only in state 1;
\* a goroutine only ever reads the connection it was started for.
Held ==
    /\ \A c \in Conn : IF sock[c] = "none" THEN Unmade(c) ELSE conn # None
    /\ \A c \in Conn : sock[c] = "open" => c = conn /\ state = 1 /\ ~dialing
    /\ \A c \in Conn : reader[c] \in {None, c}
    /\ dialing => state = 1

\* Close has once to itself, and nothing reconnects before it has reset the state.
Closes ==
    /\ place[Closer] \in {"idle", "write", "close", "reset"}
    /\ place[Closer] # "idle" => once /\ conn # None /\ state = 1 /\ ~dialing
    /\ place[Closer] = "reset" => sock[conn] = "closed"
    /\ conn # None /\ ~once => state = 1 /\ ~dialing

\* Where the writers are, and the connections that hold a part of a frame.
Writes ==
    /\ heart # {} => beats
    /\ \A w \in Writer :
          /\ w # Closer => place[w] \in {"idle", "lock", "write"}
          /\ place[w] # "idle" => conn # None
          /\ piece[w] = 0 <=> to[w] = None
          /\ to[w] # None => place[w] = "write" /\ sock[to[w]] # "none"
    /\ \A c \in Conn :
          /\ place[c] # "idle" => c \in heart
          /\ kind = "tcp" => place[c] # "lock"
          /\ kind = "ws" \/ sock[c] = "open" => to[c] \in {None, c}
    /\ \A s \in Sender : ~everSent => place[s] = "idle"

\* The mutex is held by the one who writes, unless that is Close or a ping of tcp.
Locked ==
    /\ lock # Closer
    /\ \A w \in Writer \ {Closer} :
          lock = w <=> place[w] = "write" /\ (kind = "ws" \/ w \in Sender)

\* A frame under way is the last thing in the stream of its connection.
Whole(c) ==
    /\ tail[c] # None => to[tail[c]] = c
    /\ \A w \in Writer : to[w] = c => tail[c] = w

Frames ==
    /\ \A c \in Conn : garbled[c] => sock[c] = "open"
    /\ ~(kind = "tcp" /\ beats) /\ place[Closer] = "idle" =>
          \A c \in Conn :
              sock[c] = "open" /\ peer[c] # "gone" /\ c \notin cutShort => Whole(c)

\* A connection whose reader has no reason to give it up.
Healthy(c) ==
    /\ beats /\ reader[c] = c /\ sock[c] = "open" /\ peer[c] = "live"
    /\ ~garbled[c] /\ c \notin cutShort
    /\ kind = "tcp" => ~everSent

Pinging(c) == \E d \in Conn : place[d] # "idle" /\ Into(d) = c

\* The read deadline lies behind the next pong, the one on its way or the one
\* the next tick of the heartbeat asks for.
Timely(c) ==
    /\ c \in heart /\ deadline[c] # Never /\ beat[c] # Never
    /\ pong[c] # Never => pong[c] < deadline[c]
    /\ Pinging(c) => PongDelay < deadline[c]
    /\ pong[c] = Never /\ ~Pinging(c) => beat[c] + PongDelay < deadline[c]
    /\ kind = "ws" => /\ pong[c] # Never => pong[c] < beat[c]
                      /\ place[c] # "idle" => beat[c] = HeartBeat

InTime == \A c \in Conn : Healthy(c) => Timely(c)

IInv == TypeOK /\ Held /\ Closes /\ Writes /\ Locked /\ Frames /\ SendsDoNotMix /\ InTime /\ KeptAlive
-----------------------------------------------------------------------------
\* Initially nothing is connected, written or awaited.
LEMMA InitInv == Init => IInv
<1> SUFFICES ASSUME Init PROVE IInv
  OBVIOUS
<1> USE ClientAssumption DEF Init
<1>1. TypeOK
  <2>1. 0 \in 0 .. Pieces - 1 /\ 0 \in 0 .. MaxSend /\ 0 \in 0 .. 1
    OBVIOUS
  <2>2. garbled \in [Conn -> BOOLEAN] /\ kind \in {"tcp", "ws"} /\ beats \in BOOLEAN /\ once \in BOOLEAN /\ dialing \in BOOLEAN
    OBVIOUS
  <2>3. /\ sock \in [Conn -> {"none", "open", "closed"}]
    /\ peer \in [Conn -> {"live", "silent", "gone"}]
    /\ deadline \in [Conn -> 0 .. ReadWait \cup {Never}]
    /\ pong \in [Conn -> 0 .. PongDelay \cup {Never}]
    /\ beat \in [Conn -> 0 .. HeartBeat \cup {Never}]
    OBVIOUS
  <2>4.  /\ place \in [Writer -> {"idle", "lock", "write", "close", "reset"}]
    /\ piece \in [Writer -> 0 .. Pieces - 1]
    /\ to \in [Writer -> Conn \cup {None}]
    /\ reader \in [Conn -> Conn \cup {None}]
    /\ tail \in [Conn -> Writer \cup {None}]
    BY <2>1
  <2> QED  BY <2>1, <2>2, <2>3, <2>4 DEF TypeOK
<1>2. Held /\ Closes /\ Writes /\ Locked
  BY DEF Held, Unmade, Closes, Writes, Locked, Writer
<1>3. Frames /\ SendsDoNotMix /\ InTime /\ KeptAlive
  BY DEF Frames, SendsDoNotMix, InTime, Healthy, KeptAlive
<1> QED  BY <1>1, <1>2, <1>3 DEF IInv

\* The actions, one by one.
LEMMA Actions ==
    ASSUME [Next]_vars
    PROVE  \/ Connect \/ DialFails \/ Close \/ CloseConn \/ Reset \/ Tick \/ UNCHANGED vars
           \/ \E s \in Sender : Send(s)
           \/ \E w \in Writer : Lock(w) \/ WritePiece(w) \/ WriteFails(w)
           \/ \E c \in Conn : Connected(c) \/ Ping(c) \/ PeerStops(c)
           \/ \E c \in Conn : ReadPong(c) \/ ReadFrame(c) \/ ReadFails(c) \/ ReadTimesOut(c)
  BY DEF Next, Dialing, Closing, Write, Heartbeat, Readloop, Answered, Writer

\* Who writes, writes into a connection that was made.
LEMMA Destination ==
    ASSUME IInv, NEW w \in Writer, place[w] # "idle"
    PROVE  Target(w) \in Conn /\ Into(w) \in Conn /\ sock[Target(w)] # "none" /\ sock[Into(w)] # "none"
<1> TypeOK /\ Held /\ Writes
  BY DEF IInv
<1>1. conn \in Conn /\ sock[conn] # "none"
  BY DEF TypeOK, Held, Unmade, Writes
<1>2. w \in Conn => sock[w] # "none"
  BY DEF Held, Unmade, Writes
<1>3. piece[w] # 0 => to[w] \in Conn /\ sock[to[w]] # "none"
  BY DEF TypeOK, Writes
<1> QED  BY <1>1, <1>2, <1>3 DEF Target, Into
-----------------------------------------------------------------------------
\* Every step keeps the types: a holder of the lock and a write's target stay in range.
LEMMA TypeStep == IInv /\ [Next]_vars => TypeOK'
<1> SUFFICES ASSUME IInv, [Next]_vars PROVE TypeOK'
  OBVIOUS
<1> USE ClientAssumption DEF TypeOK, config, fields, links, timers, writers, readers, stream
<1> TypeOK
  BY DEF IInv
<1>1. CASE Connect \/ DialFails \/ Close \/ Reset
  <2>1. place' \in [Writer -> {"idle", "lock", "write", "close", "reset"}]
    BY <1>1 DEF Connect, DialFails, Close, Reset
  <2>2. state' \in 0 .. 1
    BY <1>1 DEF Connect, DialFails, Close, Reset
  <2>4. dialing' \in {TRUE, FALSE, dialing} /\ once' \in {TRUE, once}
    BY <1>1, Zenon DEF Connect, DialFails, Close, Reset
  <2>3. UNCHANGED <<config, conn, links, timers, lock, piece, to, sends, everSent, heart, readers, stream>>
    BY <1>1 DEF Connect, DialFails, Close, Reset
  <2> QED  BY <2>1, <2>2, <2>3, <2>4
<1>2. CASE CloseConn
  BY <1>2 DEF CloseConn, Writer, IInv, Closes
<1>3. CASE Tick
  <2>1. \A m \in Nat : \A t \in [Conn -> 0 .. m \cup {Never}] :
              Less(t) \in [Conn -> 0 .. m \cup {Never}]
    <3> TAKE m \in Nat
    <3> TAKE t \in [Conn -> 0 .. m \cup {Never}]
    <3>1. ASSUME NEW c \in Conn
          PROVE  (IF t[c] \in {0, Never} THEN t[c] ELSE t[c] - 1) \in 0 .. m \cup {Never}
      <4>1. t[c] \in 0 .. m \cup {Never}
        OBVIOUS
      <4> QED  BY <4>1
    <3> QED  BY <3>1 DEF Less
  <2>2. /\ deadline' \in [Conn -> 0 .. ReadWait \cup {Never}]
        /\ pong' \in [Conn -> 0 .. PongDelay \cup {Never}]
        /\ beat' \in [Conn -> 0 .. HeartBeat \cup {Never}]
    BY <1>3, <2>1 DEF Tick
  <2> QED  BY <1>3, <2>2 DEF Tick
<1>4. ASSUME NEW s \in Sender, Send(s) PROVE TypeOK'
  BY <1>4 DEF Send, Writer
<1>5. ASSUME NEW c \in Conn, Connected(c) PROVE TypeOK'
  <2>1. deadline' \in [Conn -> 0 .. ReadWait \cup {Never}]
    BY <1>5 DEF Connected, Read
  <2>2. beat' \in [Conn -> 0 .. HeartBeat \cup {Never}]
    BY <1>5 DEF Connected
  <2> QED  BY <1>5, <2>1, <2>2 DEF Connected, Read
<1>6. ASSUME NEW w \in Writer, Lock(w) PROVE TypeOK'
  BY <1>6 DEF Lock, SetDeadline, Return, IInv, Writes
<1>7. ASSUME NEW c \in Conn, Ping(c) PROVE TypeOK'
  BY <1>7 DEF Ping, SetDeadline, Return, Writer
<1>8. ASSUME NEW w \in Writer, WritePiece(w) PROVE TypeOK'
  <2> DEFINE c == Into(w)
  <2>1. c \in Conn
    BY <1>8, Destination DEF WritePiece
  <2>2. garbled' \in [Conn -> BOOLEAN]
    BY <1>8, <2>1, Zenon DEF WritePiece
  <2>3. tail' \in [Conn -> Writer \cup {None}] /\ pong' \in [Conn -> 0 .. PongDelay \cup {Never}]
    BY <1>8, <2>1 DEF WritePiece
  <2>4. CASE piece[w] + 1 = Pieces
    BY <1>8, <2>2, <2>3, <2>4 DEF WritePiece, Return, Unlock
  <2>5. CASE piece[w] + 1 # Pieces
    <3>1. UNCHANGED <<config, fields, links, deadline, beat, readers, cutShort, lock, place, sends, everSent, heart>>
      BY <1>8, <2>5 DEF WritePiece
    <3>2. piece' \in [Writer -> 0 .. Pieces - 1] /\ to' \in [Writer -> Conn \cup {None}]
      BY <1>8, <2>1, <2>5 DEF WritePiece
    <3> QED  BY <2>2, <2>3, <3>1, <3>2
  <2> QED  BY <2>4, <2>5
<1>9. ASSUME NEW w \in Writer, WriteFails(w) PROVE TypeOK'
  <2> DEFINE c == Into(w)
  <2>1. c \in Conn
    BY <1>9, Destination DEF WriteFails
  <2>2. garbled' \in [Conn -> BOOLEAN]
    BY <1>9, <2>1, Zenon DEF WriteFails
  <2>3. tail' \in [Conn -> Writer \cup {None}] /\ cutShort' \subseteq Conn
    BY <1>9, <2>1 DEF WriteFails
  <2> QED  BY <1>9, <2>2, <2>3 DEF WriteFails, Return, Unlock
<1>10. ASSUME NEW c \in Conn, PeerStops(c) PROVE TypeOK'
  BY <1>10 DEF PeerStops
<1>11. ASSUME NEW c \in Conn, ReadPong(c) \/ ReadFrame(c) \/ ReadFails(c) \/ ReadTimesOut(c)
       PROVE TypeOK'
  BY <1>11 DEF ReadPong, ReadFrame, ReadFails, ReadTimesOut, Reads, ReadEnds, Read
<1>12. CASE UNCHANGED vars
  BY <1>12 DEF vars
<1> QED  BY <1>1, <1>2, <1>3, <1>4, <1>5, <1>6, <1>7, <1>8, <1>9, <1>10, <1>11, <1>12, Actions
-----------------------------------------------------------------------------
\* A step keeps the sockets together: a connection is open only while the client
\* has it, and one never dialled has no reader, timer or deadline (Client.Connect).
LEMMA HeldStep == IInv /\ [Next]_vars => Held'
<1> SUFFICES ASSUME IInv, [Next]_vars PROVE Held'
  OBVIOUS
<1> USE ClientAssumption DEF Held, Unmade, config, fields, links, timers, writers, readers, stream
<1> TypeOK /\ Held /\ Closes /\ Writes
  BY DEF IInv
<1> Writer = Sender \cup Conn \cup {Closer}
  BY DEF Writer
<1>1. CASE Connect \/ DialFails \/ Close
  BY <1>1 DEF Connect, DialFails, Close, TypeOK
<1>2. CASE CloseConn
  BY <1>2 DEF CloseConn, Closes, TypeOK
<1>3. CASE Reset
  BY <1>3 DEF Reset, Closes, TypeOK
<1>4. CASE Tick
  BY <1>4 DEF Tick, Less, TypeOK
<1>5. ASSUME NEW s \in Sender, Send(s) PROVE Held'
  BY <1>5 DEF Send, TypeOK
<1>6. ASSUME NEW c \in Conn, Connected(c) PROVE Held'
  <2>1. \A d \in Conn : sock[d] # "open"
    BY <1>6 DEF Connected
  <2>2. reader' = [reader EXCEPT ![c] = c] /\ heart' \in {heart, heart \cup {c}}
    BY <1>6 DEF Connected, Read
  <2> QED  BY <1>6, <2>1, <2>2 DEF Connected, TypeOK
<1>7. ASSUME NEW w \in Writer, Lock(w) PROVE Held'
  BY <1>7, Destination DEF Lock, SetDeadline, Return, TypeOK
<1>8. ASSUME NEW c \in Conn, Ping(c) PROVE Held'
  BY <1>8 DEF Ping, SetDeadline, Return, TypeOK
<1>9. ASSUME NEW w \in Writer, WritePiece(w) PROVE Held'
  <2> DEFINE c == Into(w)
  <2>1. c \in Conn /\ sock[c] # "none"
    BY <1>9, Destination DEF WritePiece
  <2>2. \A d \in Conn \ {c} : tail'[d] = tail[d] /\ garbled'[d] = garbled[d] /\ pong'[d] = pong[d]
    BY <1>9, <2>1 DEF WritePiece, TypeOK
  <2>3. \A d \in Conn : place[d] = "idle" => place'[d] = "idle"
    BY <1>9 DEF WritePiece, Return, TypeOK
  <2>4. heart' = heart
    BY <1>9 DEF WritePiece, Return
  <2> QED  BY <1>9, <2>1, <2>2, <2>3, <2>4 DEF WritePiece
<1>10. ASSUME NEW w \in Writer, WriteFails(w) PROVE Held'
  <2> DEFINE c == Into(w)
  <2>1. c \in Conn /\ sock[c] # "none"
    BY <1>10, Destination DEF WriteFails
  <2>2. \A d \in Conn \ {c} : tail'[d] = tail[d] /\ garbled'[d] = garbled[d]
    BY <1>10, <2>1 DEF WriteFails, TypeOK
  <2>5. cutShort' \subseteq cutShort \cup {c}
    BY <1>10 DEF WriteFails
  <2>3. \A d \in Conn : place[d] = "idle" => place'[d] = "idle"
    BY <1>10 DEF WriteFails, Return, TypeOK
  <2>4. heart' \subseteq heart
    BY <1>10 DEF WriteFails, Return
  <2> QED  BY <1>10, <2>1, <2>2, <2>3, <2>4, <2>5 DEF WriteFails
<1>11. ASSUME NEW c \in Conn, PeerStops(c) PROVE Held'
  BY <1>11 DEF PeerStops, TypeOK
<1>12. ASSUME NEW c \in Conn, ReadPong(c) \/ ReadFrame(c) \/ ReadFails(c) \/ ReadTimesOut(c)
       PROVE Held'
  BY <1>12 DEF ReadPong, ReadFrame, ReadFails, ReadTimesOut, Reads, ReadEnds, Read, TypeOK
<1>13. CASE UNCHANGED vars
  BY <1>13 DEF vars
<1> QED  BY <1>1, <1>2, <1>3, <1>4, <1>5, <1>6, <1>7, <1>8, <1>9, <1>10, <1>11, <1>12, <1>13, Actions
-----------------------------------------------------------------------------
\* A step keeps Close's two halves in order: its connection is the one it closes.
LEMMA ClosesStep == IInv /\ [Next]_vars => Closes'
<1> SUFFICES ASSUME IInv, [Next]_vars PROVE Closes'
  OBVIOUS
<1> USE ClientAssumption DEF Closes, config, fields, links, timers, writers, readers, stream
<1> TypeOK /\ Held /\ Closes /\ Writes
  BY DEF IInv
<1> Closer \in Writer /\ Sender \subseteq Writer /\ Conn \subseteq Writer
  BY DEF Writer
<1>1. CASE Connect \/ DialFails \/ Close
  BY <1>1 DEF Connect, DialFails, Close, TypeOK
<1>2. CASE CloseConn \/ Reset
  BY <1>2 DEF CloseConn, Reset, TypeOK
<1>3. ASSUME NEW c \in Conn, Connected(c) PROVE Closes'
  BY <1>3 DEF Connected, Held, TypeOK
<1>4. ASSUME NEW w \in Writer,
             \/ w \in Sender /\ Send(w)
             \/ w \in Conn /\ Ping(w)
             \/ Lock(w) \/ WritePiece(w) \/ WriteFails(w)
      PROVE  Closes'
  <2>1. UNCHANGED <<state, conn, once, dialing, sock>>
    BY <1>4 DEF Send, Lock, Ping, SetDeadline, WritePiece, WriteFails
  <2>2. w # Closer => place'[Closer] = place[Closer]
    BY <1>4 DEF Send, Lock, Ping, SetDeadline, WritePiece, WriteFails, Return, TypeOK
  <2>3. w = Closer => place[w] = "write" /\ place'[w] \in {"write", "close"}
    BY <1>4 DEF Send, Lock, Ping, SetDeadline, WritePiece, WriteFails, Return, TypeOK
  <2> QED  BY <2>1, <2>2, <2>3
<1>5. CASE Tick
  BY <1>5 DEF Tick
<1>6. ASSUME NEW c \in Conn, PeerStops(c) PROVE Closes'
  BY <1>6 DEF PeerStops
<1>7. ASSUME NEW c \in Conn, ReadPong(c) \/ ReadFrame(c) \/ ReadFails(c) \/ ReadTimesOut(c)
       PROVE Closes'
  BY <1>7 DEF ReadPong, ReadFrame, ReadFails, ReadTimesOut, ReadEnds
<1>8. CASE UNCHANGED vars
  BY <1>8 DEF vars
<1> HIDE DEF Closes
<1> QED  BY <1>1, <1>2, <1>3, <1>4, <1>5, <1>6, <1>7, <1>8, Actions
-----------------------------------------------------------------------------
\* A step keeps each writer where its place says: only one in a write has a target.
LEMMA WritesStep == IInv /\ [Next]_vars => Writes'
<1> SUFFICES ASSUME IInv, [Next]_vars PROVE Writes'
  OBVIOUS
<1> USE ClientAssumption DEF Writes, config, fields, links, timers, writers, readers, stream
<1> TypeOK /\ Held /\ Closes /\ Writes
  BY DEF IInv
<1> Writer = Sender \cup Conn \cup {Closer}
  BY DEF Writer
<1>1. CASE Connect \/ DialFails \/ Tick
  BY <1>1 DEF Connect, DialFails, Tick
<1>2. CASE Close
  BY <1>2 DEF Close, TypeOK
<1>3. CASE CloseConn \/ Reset
  <2>1. \A w \in Writer : to[w] # None => (sock'[to[w]] # "none" <=> sock[to[w]] # "none")
    BY <1>3 DEF CloseConn, Reset, TypeOK
  <2>2. to[Closer] = None
    BY <1>3 DEF CloseConn, Reset
  <2> QED  BY <1>3, <2>1, <2>2 DEF CloseConn, Reset, TypeOK
<1>4. ASSUME NEW s \in Sender, Send(s) PROVE Writes'
  BY <1>4 DEF Send, TypeOK
<1>5. ASSUME NEW c \in Conn, Connected(c) PROVE Writes'
  <2>1. \A d \in Conn : sock[d] # "none" => sock'[d] # "none"
    BY <1>5 DEF Connected, TypeOK
  <2>2. heart' = IF beats THEN heart \cup {c} ELSE heart
    BY <1>5 DEF Connected
  <2>3. to[c] = None
    BY <1>5 DEF Connected, Held, Unmade
  <2> QED  BY <1>5, <2>1, <2>2, <2>3 DEF Connected, TypeOK
<1>6. ASSUME NEW w \in Writer, Lock(w) PROVE Writes'
  BY <1>6 DEF Lock, SetDeadline, Return, TypeOK
<1>7. ASSUME NEW c \in Conn, Ping(c) PROVE Writes'
  <2>1. conn # None
    BY <1>7 DEF Ping, Held, Unmade
  <2> QED  BY <1>7, <2>1 DEF Ping, SetDeadline, Return, TypeOK
<1>8. ASSUME NEW w \in Writer, WritePiece(w) PROVE Writes'
  <2>1. Into(w) \in Conn /\ sock[Into(w)] # "none" /\ Into(w) # None
    BY <1>8, Destination DEF WritePiece
  <2>2. w \in Conn /\ (kind = "ws" \/ sock[w] = "open") => Into(w) = w
    BY <1>8, <2>1 DEF WritePiece, Into, Target, Held
  <2>3. CASE piece[w] + 1 = Pieces
    BY <1>8, <2>3 DEF WritePiece, Return, TypeOK
  <2>4. CASE piece[w] + 1 # Pieces
    <3>1. /\ piece' = [piece EXCEPT ![w] = @ + 1] /\ to' = [to EXCEPT ![w] = Into(w)]
          /\ UNCHANGED <<place, everSent, heart, kind, beats, conn, sock>> /\ place[w] = "write"
      BY <1>8, <2>4 DEF WritePiece
    <3>2. piece'[w] # 0
      BY <3>1 DEF TypeOK
    <3> QED  BY <2>1, <2>2, <3>1, <3>2 DEF TypeOK
  <2> QED  BY <2>3, <2>4
<1>9. ASSUME NEW w \in Writer, WriteFails(w) PROVE Writes'
  BY <1>9 DEF WriteFails, Return, TypeOK
<1>10. ASSUME NEW c \in Conn, PeerStops(c) PROVE Writes'
  BY <1>10 DEF PeerStops
<1>11. ASSUME NEW c \in Conn, ReadPong(c) \/ ReadFrame(c) \/ ReadFails(c) \/ ReadTimesOut(c)
       PROVE Writes'
  BY <1>11 DEF ReadPong, ReadFrame, ReadFails, ReadTimesOut, ReadEnds
<1>12. CASE UNCHANGED vars
  BY <1>12 DEF vars
<1> HIDE DEF Writes
<1> QED  BY <1>1, <1>2, <1>3, <1>4, <1>5, <1>6, <1>7, <1>8, <1>9, <1>10, <1>11, <1>12, Actions
-----------------------------------------------------------------------------
\* A step keeps the lock: a websocket's or a Send's write is made holding it.
LEMMA LockedStep == IInv /\ [Next]_vars => Locked'
<1> SUFFICES ASSUME IInv, [Next]_vars PROVE Locked'
  OBVIOUS
<1> USE ClientAssumption DEF Locked, config, fields, links, timers, writers, readers, stream
<1> TypeOK /\ Closes /\ Writes /\ Locked
  BY DEF IInv
<1> Writer = Sender \cup Conn \cup {Closer}
  BY DEF Writer
<1>1. CASE Connect \/ DialFails \/ Tick
  BY <1>1 DEF Connect, DialFails, Tick
<1>2. CASE Close \/ CloseConn \/ Reset
  BY <1>2 DEF Close, CloseConn, Reset, TypeOK
<1>3. ASSUME NEW s \in Sender, Send(s) PROVE Locked'
  BY <1>3 DEF Send, TypeOK
<1>4. ASSUME NEW c \in Conn, Connected(c) PROVE Locked'
  BY <1>4 DEF Connected
<1>5. ASSUME NEW w \in Writer, Lock(w) PROVE Locked'
  BY <1>5 DEF Lock, SetDeadline, Return, Writes, Closes, TypeOK
<1>6. ASSUME NEW c \in Conn, Ping(c) PROVE Locked'
  BY <1>6 DEF Ping, SetDeadline, Return, TypeOK
<1>7. ASSUME NEW w \in Writer, WritePiece(w) PROVE Locked'
  BY <1>7 DEF WritePiece, Return, Unlock, TypeOK
<1>8. ASSUME NEW w \in Writer, WriteFails(w) PROVE Locked'
  BY <1>8 DEF WriteFails, Return, Unlock, TypeOK
<1>9. ASSUME NEW c \in Conn, PeerStops(c) PROVE Locked'
  BY <1>9 DEF PeerStops
<1>10. ASSUME NEW c \in Conn, ReadPong(c) \/ ReadFrame(c) \/ ReadFails(c) \/ ReadTimesOut(c)
       PROVE Locked'
  BY <1>10 DEF ReadPong, ReadFrame, ReadFails, ReadTimesOut, ReadEnds
<1>11. CASE UNCHANGED vars
  BY <1>11 DEF vars
<1> HIDE DEF Locked
<1> QED  BY <1>1, <1>2, <1>3, <1>4, <1>5, <1>6, <1>7, <1>8, <1>9, <1>10, <1>11, Actions
-----------------------------------------------------------------------------
\* While nothing but Sends and pings under the lock write, a writer is alone.
Calm == ~(kind = "tcp" /\ beats) /\ place[Closer] = "idle"

\* A writer holds the lock then, is not Close, and every other has no target.
LEMMA Alone ==
    ASSUME IInv, Calm, NEW w \in Writer, place[w] = "write"
    PROVE  lock = w /\ w # Closer /\ \A v \in Writer : v # w => to[v] = None
<1> TypeOK /\ Writes /\ Locked /\ Closer \in Writer /\ Sender \subseteq Writer /\ Conn \subseteq Writer
  BY DEF IInv, Writer
<1>1. ASSUME NEW v \in Writer, place[v] = "write" PROVE lock = v /\ v # Closer
  BY <1>1, ClientAssumption DEF Calm, Writes, Locked, Writer, TypeOK
<1> QED  BY <1>1 DEF Writes

\* A step keeps the frames on the stream whole while nothing but Sends and
\* pings under the lock write, and no two Sends ever mix (Client.Send).
LEMMA FramesStep == IInv /\ [Next]_vars => Frames' /\ SendsDoNotMix'
<1> DEFINE Goal == Frames' /\ SendsDoNotMix'
<1> SUFFICES ASSUME IInv, [Next]_vars PROVE Goal
  OBVIOUS
<1> USE ClientAssumption DEF Frames, SendsDoNotMix, Whole, config, fields, links, timers, writers, readers, stream
<1> TypeOK /\ Held /\ Closes /\ Writes /\ Frames /\ SendsDoNotMix
  BY DEF IInv
<1> Closer \in Writer /\ Sender \subseteq Writer /\ Conn \subseteq Writer
  BY DEF Writer
<1>1. CASE Connect \/ DialFails \/ Tick
  BY <1>1 DEF Connect, DialFails, Tick
<1>2. CASE Close
  <2>1. CASE conn = None
    BY <1>2, <2>1 DEF Close, Held, TypeOK
  <2>2. CASE conn # None
    BY <1>2, <2>2 DEF Close, TypeOK
  <2> QED  BY <2>1, <2>2
<1>3. CASE CloseConn
  BY <1>3 DEF CloseConn, Closes, Held, TypeOK
<1>4. CASE Reset
  <2>1. \A c \in Conn : sock[c] # "open" /\ ~garbled[c]
    BY <1>4 DEF Reset, Closes, Held
  <2> QED  BY <1>4, <2>1 DEF Reset
<1>5. ASSUME NEW s \in Sender, Send(s) PROVE Goal
  BY <1>5 DEF Send, TypeOK
<1>6. ASSUME NEW c \in Conn, Connected(c) PROVE Goal
  <2>1. Unmade(c) /\ \A w \in Writer : to[w] # c
    BY <1>6 DEF Connected, Held, Writes
  <2>2. \A d \in Conn : sock'[d] = IF d = c THEN "open" ELSE sock[d]
    BY <1>6 DEF Connected, TypeOK
  <2> QED  BY <1>6, <2>1, <2>2 DEF Connected, Unmade
<1>7. ASSUME NEW w \in Writer, Lock(w) \/ (w \in Conn /\ Ping(w)) PROVE Goal
  <2>1. to' = to
    BY <1>7 DEF Lock, Ping, SetDeadline, Return, Writes, TypeOK
  <2>2. (place[Closer] = "idle") <=> (place'[Closer] = "idle")
    BY <1>7 DEF Lock, Ping, SetDeadline, Return, Closes, TypeOK
  <2>3. UNCHANGED <<kind, beats, sock, peer, tail, garbled, cutShort>>
    BY <1>7 DEF Lock, Ping, SetDeadline
  <2> QED  BY <2>1, <2>2, <2>3
<1>8. ASSUME NEW w \in Writer, WritePiece(w) PROVE Goal
  <2> DEFINE c == Into(w)
  <2>1. c \in Conn /\ sock[c] = "open" /\ peer[c] # "gone" /\ place[w] = "write"
    BY <1>8, Destination DEF WritePiece
  <2>2. UNCHANGED <<kind, beats, sock, peer, cutShort>>
    BY <1>8 DEF WritePiece
  <2>3. /\ \A d \in Conn \ {c} : garbled'[d] = garbled[d] /\ tail'[d] = tail[d]
        /\ garbled'[c] = (garbled[c] \/ ~Starts(w, c))
        /\ tail'[c] = IF piece[w] + 1 = Pieces THEN None ELSE w
    BY <1>8, <2>1 DEF WritePiece, TypeOK
  <2>4. /\ place'[Closer] # "idle" <=> place[Closer] # "idle"
        /\ \A v \in Writer : v # w => to'[v] = to[v]
        /\ to'[w] = IF piece[w] + 1 = Pieces THEN None ELSE c
    BY <1>8 DEF WritePiece, Return, TypeOK
  <2>5. CASE Calm
    <3>1. \A v \in Writer : v # w => to[v] = None
      BY <2>1, <2>5, Alone
    <3>2. to[w] \in {None, c} /\ (piece[w] = 0 <=> to[w] = None)
      BY DEF Into, Writes
    <3>3. c \notin cutShort => Starts(w, c)
      BY <2>1, <2>5, <3>1, <3>2 DEF Calm, Starts, TypeOK
    <3>4. \A d \in Conn : sock[d] = "open" /\ peer[d] # "gone" /\ d \notin cutShort => Whole(d)'
      <4> SUFFICES ASSUME NEW d \in Conn, sock[d] = "open", peer[d] # "gone", d \notin cutShort
                   PROVE  Whole(d)'
        OBVIOUS
      <4>1. CASE d = c
        BY <2>3, <2>4, <3>1, <4>1
      <4>2. CASE d # c
        <5>1. tail[d] = None
          BY <2>5, <3>1, <3>2, <4>2 DEF Calm, TypeOK
        <5> QED  BY <2>3, <2>4, <3>1, <4>2, <5>1
      <4> QED  BY <4>1, <4>2
    <3>5. SendsDoNotMix'
      BY <2>1, <2>2, <2>3, <2>4, <2>5, <3>3 DEF Calm
    <3> QED  BY <2>1, <2>2, <2>3, <3>4, <3>5 DEF Frames
  <2>6. CASE ~Calm
    BY <2>1, <2>2, <2>3, <2>4, <2>6 DEF Calm, TypeOK
  <2> QED  BY <2>5, <2>6
<1>9. ASSUME NEW w \in Writer, WriteFails(w) PROVE Goal
  <2> DEFINE c == Into(w)
             gone == sock[c] = "closed" \/ peer[c] = "gone"
  <2>1. c \in Conn /\ sock[c] # "none" /\ place[w] = "write"
    BY <1>9, Destination DEF WriteFails
  <2>2. UNCHANGED <<kind, beats, sock, peer>>
    BY <1>9 DEF WriteFails
  <2>3. /\ \A d \in Conn \ {c} : garbled'[d] = garbled[d] /\ tail'[d] = tail[d]
        /\ garbled'[c] => garbled[c] \/ ~gone
        /\ gone => tail' = tail
        /\ cutShort' = IF gone THEN cutShort ELSE cutShort \cup {c}
    BY <1>9, <2>1 DEF WriteFails, TypeOK
  <2>4. /\ place'[Closer] # "idle" <=> place[Closer] # "idle"
        /\ \A v \in Writer : v # w => to'[v] = to[v]
        /\ to'[w] = None
    BY <1>9 DEF WriteFails, Return, TypeOK
  <2>5. CASE Calm
    <3>1. \A v \in Writer : to'[v] = None
      BY <2>1, <2>4, <2>5, Alone
    <3>2. to[w] \in {None, c} /\ \A v \in Writer : v # w => to[v] = None
      BY <2>1, <2>5, Alone DEF Into, Writes
    <3>3. \A d \in Conn : sock[d] = "open" /\ peer[d] # "gone" /\ d \notin cutShort' => Whole(d)'
      <4> SUFFICES ASSUME NEW d \in Conn, sock[d] = "open", peer[d] # "gone", d \notin cutShort'
                   PROVE  Whole(d)'
        OBVIOUS
      <4>1. d # c /\ d \notin cutShort
        BY <2>1, <2>3
      <4>2. tail[d] = None
        BY <2>5, <3>2, <4>1 DEF Calm, TypeOK
      <4> QED  BY <2>3, <3>1, <4>1, <4>2
    <3>4. SendsDoNotMix'
      BY <2>1, <2>2, <2>3, <2>4, <2>5 DEF Calm
    <3>5. \A d \in Conn : garbled'[d] => sock'[d] = "open"
      BY <2>1, <2>2, <2>3 DEF TypeOK
    <3> QED  BY <2>2, <3>3, <3>4, <3>5 DEF Frames
  <2>6. CASE ~Calm
    BY <2>1, <2>2, <2>3, <2>4, <2>6 DEF Calm, TypeOK
  <2> QED  BY <2>5, <2>6
<1>10. ASSUME NEW c \in Conn, PeerStops(c) PROVE Goal
  BY <1>10 DEF PeerStops, TypeOK
<1>11. ASSUME NEW c \in Conn, ReadPong(c) \/ ReadFrame(c) \/ ReadFails(c) \/ ReadTimesOut(c)
       PROVE Goal
  BY <1>11 DEF ReadPong, ReadFrame, ReadFails, ReadTimesOut, ReadEnds
<1>12. CASE UNCHANGED vars
  BY <1>12 DEF vars
<1> HIDE DEF Goal
<1> QED  BY <1>1, <1>2, <1>3, <1>4, <1>5, <1>6, <1>7, <1>8, <1>9, <1>10, <1>11, <1>12, Actions
-----------------------------------------------------------------------------
\* Clocks in order are ahead of zero.
LEMMA Ahead == ASSUME IInv, NEW c \in Conn, Healthy(c) PROVE deadline[c] \in Nat \ {0} /\ c = conn
<1> TypeOK /\ InTime /\ Held
  BY DEF IInv
<1>1. deadline[c] \in Nat /\ (pong[c] = Never \/ pong[c] \in Nat) /\ beat[c] \in Nat
  BY ClientAssumption DEF TypeOK, InTime, Timely
<1> QED  BY <1>1, ClientAssumption DEF InTime, Timely, Held, Healthy

\* Over ws a loop pings its own connection.
LEMMA OwnPing == ASSUME IInv, kind = "ws", NEW c \in Conn, NEW d \in Conn PROVE Into(d) = c <=> d = c
  BY DEF IInv, Writes, Writer, Into, Target

\* A step keeps a healthy peer's pongs ahead of the deadlines set for them.
LEMMA InTimeStep == IInv /\ [Next]_vars => InTime'
<1> SUFFICES ASSUME IInv, [Next]_vars, NEW c \in Conn, Healthy(c)' PROVE Timely(c)'
  BY DEF InTime
<1> USE ClientAssumption DEF config, fields, links, timers, writers, readers, stream
<1> TypeOK /\ Held /\ Closes /\ Writes /\ InTime
  BY DEF IInv
<1> Closer \in Writer /\ Sender \subseteq Writer /\ Conn \subseteq Writer
  BY DEF Writer
<1>t. /\ deadline[c] \in Nat \cup {Never} /\ pong[c] \in 0 .. PongDelay \cup {Never}
      /\ beat[c] \in 0 .. HeartBeat \cup {Never}
      /\ PongDelay < WriteWait /\ WriteWait < HeartBeat /\ HeartBeat + PongDelay < ReadWait
      /\ {HeartBeat, ReadWait, WriteWait, PongDelay} \subseteq Nat
  BY DEF TypeOK
<1>h. Healthy(c) => Timely(c) /\ c = conn
  BY DEF InTime, Healthy, Held
\* What leaves the clocks and the pings of a connection as they are.
<1>same. ASSUME Healthy(c), Pinging(c)' = Pinging(c), c \in heart',
                UNCHANGED <<kind, deadline[c], beat[c], pong[c]>>,
                place'[c] # "idle" => place[c] # "idle"
         PROVE  Timely(c)'
  BY <1>h, <1>same DEF Timely
<1>1. CASE Connect \/ DialFails \/ Close \/ Reset
  <2>1. UNCHANGED <<kind, beats, conn, sock, peer, deadline, beat, pong, heart, piece, to, reader, garbled, cutShort, everSent>>
    BY <1>1 DEF Connect, DialFails, Close, Reset
  <2>2. \A d \in Conn : place'[d] = place[d]
    BY <1>1 DEF Connect, DialFails, Close, Reset, TypeOK
  <2> QED  BY <2>1, <2>2, <1>h, <1>same DEF Healthy, Timely, Pinging, Into, Target
<1>2. CASE CloseConn
  BY <1>2 DEF CloseConn, Closes, Healthy, Held, TypeOK
<1>3. CASE Tick
  <2>1. Healthy(c) /\ UNCHANGED <<kind, conn, place, piece, to, heart>>
    BY <1>3 DEF Tick, Healthy
  <2>2. \A d \in Conn : Into(d) = c => place[d] = "idle"
    BY <1>3, <2>1 DEF Tick, Rests, Stuck, Healthy, Writes
  <2>3. /\ ~Pinging(c) /\ ~Pinging(c)' /\ place[c] = "idle"
    BY <1>h, <2>1, <2>2 DEF Pinging, Into, Target, Healthy, Writes
  <2>5. beat[c] # 0 /\ pong[c] # 0
    BY <1>3, <1>h, <2>1, <2>3 DEF Tick, Timely, ReadDue, Healthy
  <2>4. /\ deadline'[c] = IF deadline[c] \in {0, Never} THEN deadline[c] ELSE deadline[c] - 1
        /\ pong'[c] = IF pong[c] \in {0, Never} THEN pong[c] ELSE pong[c] - 1
        /\ beat'[c] = IF beat[c] \in {0, Never} THEN beat[c] ELSE beat[c] - 1
    BY <1>3 DEF Tick, Less
  <2> QED  BY <1>t, <1>h, <2>1, <2>3, <2>4, <2>5 DEF Timely
<1>4. ASSUME NEW s \in Sender, Send(s) PROVE Timely(c)'
  <2>1. UNCHANGED <<kind, beats, conn, sock, peer, deadline, beat, pong, heart, piece, to, reader, garbled, cutShort>>
    BY <1>4 DEF Send
  <2>2. \A d \in Conn : place'[d] = place[d]
    BY <1>4 DEF Send, TypeOK
  <2>3. everSent'
    BY <1>4 DEF Send, TypeOK
  <2>4. Healthy(c)
    BY <2>1, <2>3 DEF Healthy
  <2> QED  BY <2>1, <2>2, <2>4, <1>same, <1>h DEF Timely, Pinging, Into, Target
<1>5. ASSUME NEW d \in Conn, Connected(d) PROVE Timely(c)'
  <2>1. c = d
    BY <1>5 DEF Connected, Held, Healthy, TypeOK
  <2>2. beats /\ UNCHANGED <<kind, place, pong>>
    BY <1>5 DEF Connected, Healthy
  <2>3. deadline'[c] = ReadWait /\ beat'[c] = HeartBeat /\ c \in heart'
    BY <1>5, <2>1, <2>2 DEF Connected, Read, TypeOK
  <2>4. pong[c] = Never /\ place[c] = "idle"
    BY <1>5, <2>1 DEF Connected, Held, Unmade
  <2> QED  BY <1>t, <2>2, <2>3, <2>4 DEF Timely
<1>6. ASSUME NEW w \in Writer, Lock(w) PROVE Timely(c)'
  <2>1. UNCHANGED <<kind, beats, conn, sock, peer, beat, pong, reader, garbled, cutShort>>
    BY <1>6 DEF Lock, SetDeadline
  <2>2. everSent' = everSent /\ Healthy(c)
    BY <1>6, <2>1 DEF Lock, SetDeadline, Return, Healthy
  <2>3. kind = "ws"
    BY <1>6, <2>2 DEF Lock, Healthy, Closes, Writes, Writer, TypeOK
  <2>4. deadline' = deadline
    BY <1>6, <2>3 DEF Lock, SetDeadline
  <2>5. c \in heart'
    BY <1>6, <1>h, <2>2, <2>3 DEF Lock, SetDeadline, Return, Target, Healthy, Timely
  <2>6. UNCHANGED <<piece, to>> /\ \A d \in Conn : place'[d] # "idle" => place[d] # "idle"
    BY <1>6 DEF Lock, SetDeadline, Return, Writes, TypeOK
  <2>7. place'[c] # "idle" <=> place[c] # "idle"
    BY <1>6, <2>2, <2>3 DEF Lock, SetDeadline, Return, Target, Healthy, TypeOK
  <2>8. Pinging(c)' = Pinging(c)
    BY <2>1, <2>3, <2>6, <2>7, OwnPing DEF Pinging, Into, Target
  <2> QED  BY <1>same, <2>1, <2>2, <2>4, <2>5, <2>6, <2>8
<1>7. ASSUME NEW d \in Conn, Ping(d) PROVE Timely(c)'
  <2>1. UNCHANGED <<kind, beats, conn, sock, peer, pong, reader, garbled, cutShort>>
    BY <1>7 DEF Ping, SetDeadline
  <2>2. everSent' = everSent /\ Healthy(c) /\ d \in heart /\ place[d] = "idle" /\ beat[d] = 0
    BY <1>7, <2>1 DEF Ping, SetDeadline, Return, Healthy
  <2>3. UNCHANGED <<piece, to>> /\ piece[d] = 0
    BY <1>7 DEF Ping, SetDeadline, Return, Writes, TypeOK
  <2>4. beat' = [beat EXCEPT ![d] = HeartBeat] /\ beat'[c] \in {beat[c], HeartBeat}
    BY <1>7 DEF Ping, SetDeadline, TypeOK
  <2>5. CASE kind = "ws"
    <3>1. place' = [place EXCEPT ![d] = "lock"] /\ UNCHANGED <<deadline, heart>>
      BY <1>7, <2>5 DEF Ping
    <3>2. CASE d = c
      <4>1. ~Pinging(c) /\ Pinging(c)' /\ place'[c] # "idle"
        BY <2>1, <2>2, <2>3, <2>5, <3>1, <3>2, OwnPing DEF Pinging, Into, Target, TypeOK
      <4>2. pong[c] = Never /\ PongDelay < deadline[c] /\ beat'[c] = HeartBeat
        BY <1>t, <1>h, <2>2, <2>4, <2>5, <3>2, <4>1 DEF Timely, TypeOK
      <4> QED  BY <1>t, <1>h, <2>1, <2>2, <3>1, <4>1, <4>2 DEF Timely
    <3>3. CASE d # c
      <4>1. beat'[c] = beat[c] /\ place'[c] = place[c] /\ c \in heart'
        BY <1>h, <2>2, <2>4, <3>1, <3>3 DEF TypeOK, Timely
      <4>2. \A e \in Conn : (Into(e) = c)' <=> Into(e) = c
        BY <2>1, <2>3 DEF Into, Target
      <4>3. Pinging(c)' = Pinging(c)
        BY <2>5, <4>1, <4>2, OwnPing DEF Pinging
      <4> QED  BY <1>same, <2>1, <2>2, <3>1, <4>1, <4>3
    <3> QED  BY <3>2, <3>3
  <2>6. CASE kind # "ws"
    <3>1. kind = "tcp" /\ Target(d) = c
      BY <1>h, <2>2, <2>6 DEF Target, TypeOK
    <3>2. /\ place' = [place EXCEPT ![d] = "write"] /\ heart' = heart
          /\ deadline' = [deadline EXCEPT ![c] = WriteWait]
      BY <1>7, <1>h, <2>2, <3>1 DEF Ping, SetDeadline, Healthy
    <3>3. Pinging(c)'
      BY <2>1, <2>3, <3>1, <3>2 DEF Pinging, Into, Target, TypeOK
    <3> QED  BY <1>t, <1>h, <2>1, <2>2, <2>4, <3>1, <3>2, <3>3 DEF Timely, TypeOK
  <2> QED  BY <2>5, <2>6
<1>8. ASSUME NEW w \in Writer, WritePiece(w) PROVE Timely(c)'
  <2>1. /\ UNCHANGED <<kind, beats, conn, sock, peer, deadline, beat, reader, cutShort, everSent, heart>>
        /\ place[w] = "write" /\ Into(w) \in Conn /\ sock[Into(w)] = "open"
    BY <1>8, Destination DEF WritePiece, Return
  <2>2. ~garbled[c] /\ Into(w) = c
    BY <1>8, <2>1 DEF WritePiece, Healthy, Held, TypeOK
  <2>3. Healthy(c) /\ c \in heart /\ c \in heart'
    BY <1>h, <2>1, <2>2 DEF Healthy, Timely
  <2>4. /\ \A v \in Writer \ {w} : place'[v] = place[v] /\ piece'[v] = piece[v] /\ to'[v] = to[v]
    BY <1>8 DEF WritePiece, Return, TypeOK
  <2>5. CASE w \notin Conn
    <3>1. pong' = pong
      BY <1>8, <2>5 DEF WritePiece
    <3>2. Pinging(c)' = Pinging(c) /\ place'[c] = place[c]
      BY <2>1, <2>4, <2>5 DEF Pinging, Into, Target
    <3> QED  BY <1>same, <2>1, <2>3, <3>1, <3>2
  <2>6. CASE w \in Conn /\ piece[w] + 1 # Pieces
    <3>1. /\ pong' = pong /\ place' = place
          /\ piece' = [piece EXCEPT ![w] = @ + 1] /\ to' = [to EXCEPT ![w] = c]
      BY <1>8, <2>2, <2>6 DEF WritePiece
    <3>2. piece'[w] # 0 /\ to'[w] = c
      BY <3>1 DEF TypeOK
    <3>3. \A d \in Conn : (Into(d) = c)' <=> Into(d) = c
      BY <2>1, <2>2, <2>4, <3>2 DEF Into, Target
    <3>4. Pinging(c)' = Pinging(c)
      BY <3>1, <3>3 DEF Pinging
    <3> QED  BY <1>same, <2>1, <2>3, <3>1, <3>4
  <2>7. CASE w \in Conn /\ piece[w] + 1 = Pieces
    <3>1. pong'[c] = PongDelay
      BY <1>8, <2>1, <2>2, <2>7 DEF WritePiece, Healthy, TypeOK
    <3>2. Pinging(c)
      BY <2>1, <2>2, <2>7 DEF Pinging
    <3>3. PongDelay < deadline[c] /\ (kind = "ws" => beat[c] = HeartBeat)
      BY <1>h, <2>1, <2>2, <2>3, <2>7, <3>2, OwnPing DEF Timely
    <3>4. place'[c] # "idle" => place[c] # "idle"
      BY <2>1, <2>4
    <3> QED  BY <1>t, <1>h, <2>1, <2>3, <3>1, <3>3, <3>4 DEF Timely
  <2> QED  BY <2>5, <2>6, <2>7
<1>9. ASSUME NEW w \in Writer, WriteFails(w) PROVE Timely(c)'
  <2>1. UNCHANGED <<kind, beats, conn, sock, peer, deadline, beat, pong, reader, everSent>>
    BY <1>9 DEF WriteFails, Return
  <2>2. c \notin cutShort /\ ~garbled[c] /\ place[w] = "write" /\ Into(w) \in Conn
    BY <1>9, Destination DEF WriteFails, Healthy, TypeOK
  <2>3. Healthy(c)
    BY <2>1, <2>2 DEF Healthy
  <2>4. Into(w) # c
    BY <1>9, <2>3, <2>1 DEF WriteFails, Healthy
  <2>5. w # c
    BY <1>h, <2>3, <2>4 DEF Into, Target, Writes, Healthy
  <2>6. c \in heart'
    BY <1>9, <1>h, <2>3, <2>5 DEF WriteFails, Return, Timely
  <2>7. /\ \A v \in Writer \ {w} : place'[v] = place[v] /\ piece'[v] = piece[v] /\ to'[v] = to[v]
        /\ w \in Conn => place'[w] = "idle"
    BY <1>9 DEF WriteFails, Return, TypeOK
  <2>8. Pinging(c)' = Pinging(c)
    BY <2>1, <2>4, <2>7 DEF Pinging, Into, Target
  <2> QED  BY <1>same, <2>1, <2>3, <2>5, <2>6, <2>7, <2>8
<1>10. ASSUME NEW d \in Conn, PeerStops(d) PROVE Timely(c)'
  <2>1. UNCHANGED <<kind, beats, conn, sock, deadline, beat, pong, heart, place, piece, to, reader, garbled, cutShort, everSent>>
    BY <1>10 DEF PeerStops
  <2>2. peer[c] = "live"
    BY <1>10 DEF PeerStops, Healthy, TypeOK
  <2> QED  BY <2>1, <2>2, <1>same, <1>h DEF Healthy, Timely, Pinging, Into, Target
<1>11. ASSUME NEW d \in Conn, ReadPong(d) \/ ReadFrame(d) \/ ReadFails(d) \/ ReadTimesOut(d)
       PROVE Timely(c)'
  <2>1. UNCHANGED <<kind, beats, conn, sock, peer, beat, heart, place, piece, to, garbled, cutShort, everSent>>
    BY <1>11 DEF ReadPong, ReadFrame, ReadFails, ReadTimesOut, ReadEnds
  <2>2. Pinging(c)' = Pinging(c)
    BY <2>1 DEF Pinging, Into, Target
  <2>3. CASE ReadEnds(d)
    <3>1. Healthy(c) /\ UNCHANGED <<deadline, pong>>
      BY <2>1, <2>3 DEF ReadEnds, Healthy, TypeOK
    <3> QED  BY <1>same, <1>h, <2>1, <2>2, <3>1 DEF Timely
  <2>4. CASE ~ReadEnds(d)
    <3>1. PICK e \in Conn : Reads(d, e) /\ Read(d, conn, deadline) /\ pong'[c] \in {pong[c], Never}
      BY <1>11, <2>4 DEF ReadPong, ReadFrame, ReadFails, ReadTimesOut, TypeOK
    <3>2. e = d /\ d = conn /\ sock[d] = "open"
      BY <3>1 DEF Reads, Held
    <3>3. c = conn /\ reader[c] = c
      BY <2>1, <3>1, <3>2 DEF Reads, Healthy, Held
    <3>4. Healthy(c) /\ deadline'[c] = ReadWait
      BY <2>1, <3>1, <3>3 DEF Healthy, Read, TypeOK
    <3> QED  BY <1>t, <1>h, <2>1, <3>1, <3>4 DEF Timely
  <2> QED  BY <2>3, <2>4
<1>12. CASE UNCHANGED vars
  <2>1. UNCHANGED <<kind, beats, conn, sock, peer, deadline, beat, pong, heart, place, piece, to, reader, garbled, cutShort, everSent>>
    BY <1>12 DEF vars
  <2> QED  BY <2>1, <1>same, <1>h DEF Healthy, Timely, Pinging, Into, Target
<1> QED  BY <1>1, <1>2, <1>3, <1>4, <1>5, <1>6, <1>7, <1>8, <1>9, <1>10, <1>11, <1>12, Actions
-----------------------------------------------------------------------------
\* A step closes no healthy connection for want of an answer: the deadline that
\* would is later than the pong InTime promises (Client.Read).
LEMMA KeptAliveStep == IInv /\ [Next]_vars => KeptAlive'
<1> SUFFICES ASSUME IInv, [Next]_vars PROVE KeptAlive'
  OBVIOUS
<1> USE ClientAssumption DEF KeptAlive, config, fields, links, timers, writers, readers, stream
<1> TypeOK /\ Held /\ Closes /\ KeptAlive /\ Conn \subseteq Writer
  BY DEF IInv, Writer
<1>1. CASE Connect \/ DialFails \/ Close \/ Reset \/ Tick
  <2>1. UNCHANGED <<kind, beats, everSent, lost, cutShort, garbled>>
    BY <1>1 DEF Connect, DialFails, Close, Reset, Tick
  <2> QED  BY <2>1
<1>2. CASE CloseConn
  BY <1>2 DEF CloseConn, TypeOK
<1>3. ASSUME NEW s \in Sender, Send(s) PROVE KeptAlive'
  BY <1>3 DEF Send, TypeOK
<1>4. ASSUME NEW w \in Writer, Lock(w) \/ (w \in Conn /\ Ping(w)) PROVE KeptAlive'
  <2>1. UNCHANGED <<kind, beats, everSent, lost, cutShort, garbled>>
    BY <1>4 DEF Lock, Ping, SetDeadline, Return
  <2> QED  BY <2>1
<1>5. ASSUME NEW w \in Writer, WritePiece(w) PROVE KeptAlive'
  <2>1. \A c \in Conn : garbled[c] => garbled'[c]
    BY <1>5 DEF WritePiece, TypeOK
  <2> QED  BY <1>5, <2>1 DEF WritePiece, Return, TypeOK
<1>6. ASSUME NEW w \in Writer, WriteFails(w) PROVE KeptAlive'
  <2>1. \A c \in Conn : garbled[c] => garbled'[c]
    BY <1>6 DEF WriteFails, TypeOK
  <2> QED  BY <1>6, <2>1 DEF WriteFails, Return, TypeOK
<1>7. ASSUME NEW c \in Conn, Connected(c) \/ PeerStops(c) PROVE KeptAlive'
  <2>1. UNCHANGED <<kind, beats, everSent, lost, cutShort, garbled>>
    BY <1>7 DEF Connected, PeerStops
  <2> QED  BY <2>1
<1>8. ASSUME NEW c \in Conn, ReadPong(c) \/ ReadFrame(c) \/ ReadFails(c) PROVE KeptAlive'
  <2>1. UNCHANGED <<kind, beats, everSent, lost, cutShort, garbled>>
    BY <1>8 DEF ReadPong, ReadFrame, ReadFails, ReadEnds
  <2> QED  BY <2>1
<1>9. ASSUME NEW c \in Conn, ReadTimesOut(c) PROVE KeptAlive'
  <2>1. PICK d \in Conn : /\ Reads(c, d) /\ deadline[d] = 0
                          /\ lost' = IF peer[d] = "live" THEN lost \cup {d} ELSE lost
    BY <1>9 DEF ReadTimesOut
  <2>2. ~Healthy(d)
    BY <2>1, Ahead
  <2>3. c = d /\ UNCHANGED <<kind, beats, everSent, cutShort, garbled>>
    BY <1>9, <2>1 DEF ReadTimesOut, ReadEnds, Reads, Held
  <2>4. peer[d] = "live" /\ beats => (kind = "tcp" /\ everSent) \/ d \in cutShort \/ garbled[d]
    BY <2>1, <2>2, <2>3 DEF Healthy, Reads, TypeOK
  <2> QED  BY <2>1, <2>3, <2>4
<1>10. CASE UNCHANGED vars
  BY <1>10 DEF vars
<1> HIDE DEF KeptAlive
<1> QED  BY <1>1, <1>2, <1>3, <1>4, <1>5, <1>6, <1>7, <1>8, <1>9, <1>10, Actions
-----------------------------------------------------------------------------
\* Every reachable state of a client satisfies the invariant.
THEOREM ClientInvariant == Spec => []IInv
<1>1. IInv /\ [Next]_vars => IInv'
  BY TypeStep, HeldStep, ClosesStep, WritesStep, LockedStep, FramesStep, InTimeStep, KeptAliveStep
     DEF IInv
<1> QED  BY InitInv, <1>1, PTL DEF Spec

\* Every variable of a client keeps its type, its clocks stay within the waits
\* and only connections that exist are named (both client.go).
THEOREM ClientTypes == Spec => []TypeOK
<1>1. IInv => TypeOK
  BY DEF IInv
<1> QED  BY ClientInvariant, <1>1, PTL

\* However Connect and Close meet, a client holds at most one open connection
\* (the compare-and-swap of Connect, once of Close).
THEOREM HoldsOne == Spec => []OneConnection
<1>1. ASSUME IInv PROVE OneConnection
  <2> DEFINE S == {c \in Conn : sock[c] = "open"}
  <2>1. S \subseteq {conn}
    BY <1>1 DEF IInv, Held
  <2>2. IsFiniteSet({conn}) /\ Cardinality({conn}) = 1
    BY FS_Singleton
  <2>3. Cardinality(S) <= Cardinality({conn})
    BY <2>1, <2>2, FS_Subset
  <2> QED  BY <2>2, <2>3 DEF OneConnection
<1> QED  BY ClientInvariant, <1>1, PTL

\* What a peer cannot parse is the work of Close, of a ping over tcp or of a
\* write that gave up half way, never of two Sends (Send, ping, Close).
THEOREM FramesWhole == Spec => []SendsDoNotMix
<1>1. IInv => SendsDoNotMix
  BY DEF IInv
<1> QED  BY ClientInvariant, <1>1, PTL

\* A peer that answers is given up only over tcp after a Send, or when the
\* pings to it were broken (SetReadDeadline in Read, Send and ping).
THEOREM PeerKept == Spec => []KeptAlive
<1>1. IInv => KeptAlive
  BY DEF IInv
<1> QED  BY ClientInvariant, <1>1, PTL

\* A goroutine only ever reads the connection it was started for, whatever the
\* field holds by then (Read takes c.conn anew in each call).
THEOREM ReadsItsOwn == Spec => [](\A c \in Conn : reader[c] \in {None, c})
<1>1. IInv => \A c \in Conn : reader[c] \in {None, c}
  BY DEF IInv, Held
<1> QED  BY ClientInvariant, <1>1, PTL
=============================================================================
