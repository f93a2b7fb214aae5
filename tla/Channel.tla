------------------------------ MODULE Channel ------------------------------
(***************************************************************************)
(* One accepted connection of a server: the ChannelImpl of channel.go, the *)
(* goroutine of tcp/server.go (and websocket/server.go) that owns it, and  *)
(* the goroutines that push into it.                                       *)
(*                                                                         *)
(* Three kinds of process meet here.  The writer runs writeloop.  The      *)
(* reader runs Readloop, answers pings by writing to the connection        *)
(* itself, and when reading ends removes the channel from the registry,    *)
(* reports the disconnection and closes the connection.  A pusher holds    *)
(* the channel either because it found it in the registry (Server.Push) or *)
(* because it is the goroutine Readloop started for a message.             *)
(*                                                                         *)
(* A payload is a number: the n-th call of Push carries n.  A frame is     *)
(* written in Pieces calls of Write (opcode, length and payload over tcp,  *)
(* header and payload over a websocket); each call is atomic, since        *)
(* net.Conn serialises writes, but the calls of two writers interleave.    *)
(***************************************************************************)
EXTENDS Naturals, Sequences

CONSTANTS Pusher,       \* the goroutines that push
          Cap,          \* the capacity of writechan, 5 in the code
          Pieces,       \* the writes of one data frame, 3 over tcp, 2 over ws
          MaxMsg,       \* bound: the calls of Push
          MaxPing       \* bound: the pings the peer sends

ASSUME ChannelAssumption ==
    /\ Cap \in Nat \ {0}
    /\ Pieces \in Nat \ {0, 1}
    /\ MaxMsg \in Nat
    /\ MaxPing \in Nat

VARIABLES
    writechan,          \* the buffered Go channel, oldest payload first
    accepted, written,  \* histories: put into writechan; sent as a whole frame
    wpc, cur, piece,    \* the writer: its place, its payload, writes it made
    left,               \* charlen - i: receives left in the drain loop
    rpc, rpiece, pings, \* the reader: its place, pong writes made, pings read
    registered,         \* whether the server's ChannelMap holds the channel
    conn,               \* this side of the connection: "open" or "closed"
    shut,               \* Shutdown: "no", "listed" this channel, "closed" it
    pc, payload,        \* each pusher: its place and what it pushes
    pushed,             \* how many calls of Push there were
    tail, garbled       \* the byte stream: who owns the frame left unfinished
                        \* at its end, and whether a frame was ever broken

writer  == <<wpc, cur, piece, left>>
reader  == <<rpc, rpiece, pings>>
pushers == <<pc, payload, pushed>>
link    == <<registered, conn, shut>>
stream  == <<tail, garbled>>
history == <<accepted, written>>
vars == <<writechan, history, writer, reader, link, pushers, stream>>

Payload == 1 .. MaxMsg

Init ==
    /\ writechan = <<>> /\ accepted = <<>> /\ written = <<>>
    /\ wpc = "select" /\ cur = 0 /\ piece = 0 /\ left = 0
    /\ rpc = "add" /\ rpiece = 0 /\ pings = 0
    /\ registered = FALSE /\ conn = "open" /\ shut = "no"
    /\ pc = [p \in Pusher |-> "idle"]
    /\ payload = [p \in Pusher |-> 0]
    /\ pushed = 0
    /\ tail = "none" /\ garbled = FALSE
-----------------------------------------------------------------------------
(***************************************************************************)
(* The byte stream.  Emit is one Write of a frame of n pieces by owner w   *)
(* that already made k: the stream stays parsable when a first piece       *)
(* starts where a frame ended and a later one follows its own frame.       *)
(***************************************************************************)
Emit(w, k, n) ==
    /\ garbled' = (garbled \/ tail # IF k = 0 THEN "none" ELSE w)
    /\ tail' = IF k + 1 = n THEN "none" ELSE w

\* A Write that fails: no byte left, or a part of the piece did.
EmitPart(w, k) ==
    \/ UNCHANGED stream
    \/ /\ garbled' = (garbled \/ tail # IF k = 0 THEN "none" ELSE w)
       /\ tail' = w
-----------------------------------------------------------------------------
(***************************************************************************)
(* Pushers.  No statement of the repository fires the `closed` event, so   *)
(* the test Push begins with never finds it fired.                         *)
(***************************************************************************)
HasFired == FALSE

Obtain(p) ==
    /\ pc[p] = "idle"
    /\ pushed < MaxMsg
    /\ pushed' = pushed + 1
    /\ payload' = [payload EXCEPT ![p] = pushed + 1]
    /\ pc' = [pc EXCEPT ![p] = "holds"]
    /\ UNCHANGED <<writechan, history, writer, reader, link, stream>>

\* Server.Push found the channel under its id.
ServerPush(p) == registered /\ Obtain(p)

\* Readloop read a message and started lst.Receive(ch, payload), which pushes.
Receive(p) == rpc = "read" /\ conn = "open" /\ Obtain(p)

\* Push looks at `closed` and goes on to the send.
Push(p) ==
    /\ pc[p] = "holds"
    /\ pc' = [pc EXCEPT ![p] = IF HasFired THEN "idle" ELSE "send"]
    /\ UNCHANGED <<writechan, history, writer, reader, link, payload, pushed, stream>>

\* The send on the buffered channel waits for room.
Enqueue(p) ==
    /\ pc[p] = "send"
    /\ Len(writechan) < Cap
    /\ writechan' = Append(writechan, payload[p])
    /\ accepted' = Append(accepted, payload[p])
    /\ pc' = [pc EXCEPT ![p] = "idle"]
    /\ UNCHANGED <<written, writer, reader, link, payload, pushed, stream>>
-----------------------------------------------------------------------------
(***************************************************************************)
(* The writer.  The select's other branch, <-closed.Done(), never fires.   *)
(***************************************************************************)
Dequeue ==
    /\ writechan # <<>>
    /\ cur' = Head(writechan)
    /\ writechan' = Tail(writechan)
    /\ piece' = 0
    /\ UNCHANGED <<history, reader, link, pushers, stream>>

OnlyOpenTake ==
    wpc = "select" /\ conn = "open" /\ Dequeue /\ wpc' = "first" /\ UNCHANGED left

Take == wpc = "select" /\ Dequeue /\ wpc' = "first" /\ UNCHANGED left

\* One Write of the current frame succeeds; after the last one writeloop
\* either reads the channel's length or goes round the drain loop.
WritePiece ==
    /\ wpc \in {"first", "drain"}
    /\ conn = "open"
    /\ Emit("data", piece, Pieces)
    /\ IF piece + 1 = Pieces
       THEN /\ written' = Append(written, cur)
            /\ wpc' = IF wpc = "first" THEN "len" ELSE "recv"
            /\ piece' = 0
       ELSE piece' = piece + 1 /\ UNCHANGED <<written, wpc>>
    /\ UNCHANGED <<writechan, accepted, cur, left, reader, link, pushers>>

\* The error is dropped and the loop goes on.
IgnoredWriteFail ==
    /\ wpc \in {"first", "drain"}
    /\ EmitPart("data", piece)
    /\ wpc' = "select" /\ piece' = 0 /\ left' = 0
    /\ UNCHANGED <<writechan, history, cur, reader, link, pushers>>

\* A Write fails (the write deadline passed, the peer reset the connection,
\* or this side closed it) and writeloop returns.
WriteFail ==
    /\ wpc \in {"first", "drain"}
    /\ EmitPart("data", piece)
    /\ wpc' = "exited"
    /\ UNCHANGED <<writechan, history, cur, piece, left, reader, link, pushers>>

CapReadLen ==
    /\ wpc = "len" /\ wpc' = "recv"
    /\ left' = Cap
    /\ UNCHANGED <<writechan, history, cur, piece, reader, link, pushers, stream>>

ReadLen ==
    /\ wpc = "len" /\ wpc' = "recv"
    /\ left' = Len(writechan)
    /\ UNCHANGED <<writechan, history, cur, piece, reader, link, pushers, stream>>

NewestDrain ==
    /\ wpc = "recv" /\ left > 0 /\ writechan # <<>>
    /\ cur' = writechan[Len(writechan)]
    /\ writechan' = SubSeq(writechan, 1, Len(writechan) - 1)
    /\ wpc' = "drain" /\ left' = left - 1 /\ piece' = 0
    /\ UNCHANGED <<history, reader, link, pushers, stream>>

\* `payload = <-ch.writechan` inside the drain loop: a plain receive, which
\* would wait if the channel were empty.
Drain == /\ wpc = "recv" /\ left > 0
         /\ Dequeue
         /\ wpc' = "drain" /\ left' = left - 1

\* The loop is over; Flush does nothing for either kind of connection.
Flush == /\ wpc = "recv" /\ left = 0
         /\ wpc' = "select"
         /\ UNCHANGED <<writechan, history, cur, piece, left, reader, link, pushers, stream>>

Writeloop == Take \/ WritePiece \/ WriteFail \/ ReadLen \/ Drain \/ Flush
-----------------------------------------------------------------------------
(***************************************************************************)
(* The goroutine of the connection: Add, Readloop, Remove, Disconnect,     *)
(* Close.                                                                  *)
(***************************************************************************)
Others == <<writechan, history, writer, pushers>>

Add == /\ rpc = "add" /\ rpc' = "read"
       /\ registered' = TRUE
       /\ UNCHANGED <<Others, rpiece, pings, conn, shut, stream>>

ReadPing == /\ rpc = "read" /\ conn = "open"
            /\ pings < MaxPing
            /\ pings' = pings + 1
            /\ rpc' = "pong" /\ rpiece' = 0
            /\ UNCHANGED <<Others, link, stream>>

\* WriteFrame(OpPong, nil) takes no lock.  The payload of a pong is empty,
\* so the write that would carry it puts nothing on the connection.
WritePong == /\ rpc = "pong" /\ conn = "open"
             /\ Emit("pong", rpiece, Pieces - 1)
             /\ IF rpiece + 1 = Pieces - 1
                THEN rpc' = "read" /\ rpiece' = 0
                ELSE rpiece' = rpiece + 1 /\ UNCHANGED rpc
             /\ UNCHANGED <<Others, pings, link>>

\* The error of the pong is dropped.
PongFail == /\ rpc = "pong"
            /\ EmitPart("pong", rpiece)
            /\ rpc' = "read" /\ rpiece' = 0
            /\ UNCHANGED <<Others, pings, link>>

\* ReadFrame fails, or the peer's close frame was read.
ReadEnds == /\ rpc = "read" /\ rpc' = "remove"
            /\ UNCHANGED <<Others, rpiece, pings, link, stream>>

Remove == /\ rpc = "remove" /\ rpc' = "disconnect"
          /\ registered' = FALSE
          /\ UNCHANGED <<Others, rpiece, pings, conn, shut, stream>>

NoCloseDisconnect == /\ rpc = "disconnect" /\ rpc' = "done"
                     /\ UNCHANGED <<Others, rpiece, pings, link, stream>>

\* The StateListener is told, and returns.
Disconnect == /\ rpc = "disconnect" /\ rpc' = "close"
              /\ UNCHANGED <<Others, rpiece, pings, link, stream>>

\* channel.Close() is the embedded Conn's: it closes the socket and nothing
\* else of the channel.
Close == /\ rpc = "close" /\ rpc' = "done"
         /\ conn' = "closed"
         /\ UNCHANGED <<Others, rpiece, pings, registered, shut, stream>>

\* With the connection open a read waits for the peer, for ever if need be:
\* SetReadWait stores a limit that Readloop never applies.
Readloop == \/ Add \/ WritePong \/ PongFail \/ Remove \/ Disconnect \/ Close
            \/ conn = "closed" /\ ReadEnds
-----------------------------------------------------------------------------
(***************************************************************************)
(* Server.Shutdown: All() lists the channel while it is registered; Close  *)
(* comes later, or never when the context ends first.                      *)
(***************************************************************************)
ShutdownList == /\ shut = "no" /\ registered
                /\ shut' = "listed"
                /\ UNCHANGED <<Others, reader, registered, conn, stream>>

ShutdownClose == /\ shut = "listed"
                 /\ shut' = "closed" /\ conn' = "closed"
                 /\ UNCHANGED <<Others, reader, registered, stream>>
-----------------------------------------------------------------------------
Next ==
    \/ \E p \in Pusher : ServerPush(p) \/ Receive(p) \/ Push(p) \/ Enqueue(p)
    \/ Take \/ WritePiece \/ WriteFail \/ ReadLen \/ Drain \/ Flush
    \/ Add \/ ReadPing \/ WritePong \/ PongFail
    \/ ReadEnds \/ Remove \/ Disconnect \/ Close
    \/ ShutdownList \/ ShutdownClose

Spec == Init /\ [][Next]_vars

(***************************************************************************)
(* Goroutines that can run do run.  A write ends, since every frame sets a *)
(* write deadline.  Senders blocked on a Go channel are served in turn, so *)
(* one of them is not passed over for ever: strong fairness of Enqueue.    *)
(* The peer, its pings, callers of Push and Shutdown owe nothing.          *)
(***************************************************************************)
Fairness == /\ WF_vars(Writeloop)
            /\ WF_vars(Readloop)
            /\ \A p \in Pusher : WF_vars(Push(p)) /\ SF_vars(Enqueue(p))

FairSpec == Spec /\ Fairness
-----------------------------------------------------------------------------
(***************************************************************************)
(* Properties.                                                             *)
(***************************************************************************)
QueueType == /\ writechan \in Seq(Payload) /\ Len(writechan) <= Cap
             /\ accepted \in Seq(Payload)
             /\ written \in Seq(Payload)

WriterType == /\ wpc \in {"select", "first", "len", "recv", "drain", "exited"}
              /\ cur \in Payload \cup {0}
              /\ piece \in 0 .. Pieces - 1
              /\ left \in 0 .. Cap

ReaderType == /\ rpc \in {"add", "read", "pong", "remove", "disconnect", "close", "done"}
              /\ rpiece \in 0 .. Pieces - 2
              /\ pings \in 0 .. MaxPing

LinkType == /\ registered \in BOOLEAN
            /\ conn \in {"open", "closed"}
            /\ shut \in {"no", "listed", "closed"}

PusherType == /\ pc \in [Pusher -> {"idle", "holds", "send"}]
              /\ payload \in [Pusher -> Payload \cup {0}]
              /\ pushed \in 0 .. MaxMsg

StreamType == tail \in {"none", "data", "pong"} /\ garbled \in BOOLEAN

\* Every variable keeps its type, and writechan never holds more than Cap.
TypeOK == /\ QueueType /\ WriterType /\ ReaderType
          /\ LinkType /\ PusherType /\ StreamType

\* The payload the writer took out and has not written in full; after an
\* error it is the one that is lost.
InFlight == IF wpc \in {"first", "drain", "exited"} THEN <<cur>> ELSE <<>>

\* Whatever order pushers, writer and failures run in, the accepted payloads
\* are exactly those written, the one in the writer's hand and those in
\* writechan, in this order: none lost, doubled or overtaken (writeloop).
Conservation == accepted = written \o InFlight \o writechan

\* The receives of the drain loop never wait, since the length read before
\* it cannot shrink: a wait there would put off Flush (writeloop).
DrainNeverWaits == wpc \in {"recv", "drain"} => left <= Len(writechan)

\* Unless the reader answers a ping, the peer can parse the stream: the
\* writer never starts a frame behind one that failed half way, because
\* writeloop returns on the first error.
FramingBrokenOnlyByPong == pings = 0 => ~garbled

\* The channel implements the outbox of module Outbox, its progress included.
Abstract == INSTANCE Outbox WITH
    Message <- Payload, Bound <- Cap + 1,
    delivered <- written, open <- (wpc # "exited")
ImplementsOutbox == Abstract!OutboxSpec

\* Once reading has ended or the connection was closed on this side, the
\* channel is taken from the registry and the connection closed, whatever
\* the writer and the pushers are blocked on.
Released == (rpc = "remove" \/ conn = "closed")
            ~> (rpc = "done" /\ conn = "closed" /\ ~registered)

\* A call of Push returns unless the writer is gone.
PushReturnsOrWriterGone ==
    \A p \in Pusher : pc[p] = "send" ~> (pc[p] = "idle" \/ wpc = "exited")

(***************************************************************************)
(* Statements of the repository that the code does not keep.               *)
(***************************************************************************)
\* "reader中前4byte 必须是[]byte 的长度": a reader of the stream finds the
\* length of a frame where it looks for it (endian/helper.go, ReadBytes).
FramesWhole == ~garbled

\* "case <-ch.closed.Done(): // 关闭": closing the channel ends writeloop.
CloseEndsWriteloop == conn = "closed" ~> wpc = "exited"
=============================================================================
