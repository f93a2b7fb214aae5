--------------------------- MODULE ChannelProofs ---------------------------
(***************************************************************************)
(* Theorems about module Channel, for every set of pushers, capacity of    *)
(* writechan, number of writes in a frame, and bounds.                     *)
(*                                                                         *)
(* The inductive invariant IInv adds to the checked properties             *)
(*   - InHand: a pusher past Obtain and a writer past Dequeue hold a real  *)
(*     payload, which the types of `accepted` and `written` rest on;       *)
(*   - Framing: without pings, the unfinished frame at the end of the      *)
(*     stream is the one the writer is in, or the last one it ever wrote.  *)
(***************************************************************************)
EXTENDS Channel, SequenceTheorems, TLAPS

InHand ==
    /\ \A p \in Pusher : pc[p] # "idle" => payload[p] \in Payload
    /\ wpc \in {"first", "drain", "exited"} => cur \in Payload

Framing ==
    pings = 0 =>
        /\ rpc # "pong"
        /\ ~garbled
        /\ wpc \in {"first", "drain"} => tail = IF piece = 0 THEN "none" ELSE "data"
        /\ wpc \in {"select", "len", "recv"} => tail = "none"

IInv == TypeOK /\ InHand /\ Conservation /\ DrainNeverWaits /\ Framing
-----------------------------------------------------------------------------
(***************************************************************************)
(* Sequences.                                                              *)
(***************************************************************************)
\* A queue is its head followed by its tail (the receive of writeloop).
LEMMA HeadThenTail ==
    ASSUME NEW S, NEW s \in Seq(S), s # <<>>
    PROVE  /\ Head(s) \in S /\ Tail(s) \in Seq(S)
           /\ Len(Tail(s)) = Len(s) - 1 /\ Len(s) \in Nat \ {0}
           /\ s = <<Head(s)>> \o Tail(s)
<1>1. Head(s) \in S /\ Tail(s) \in Seq(S) /\ Len(Tail(s)) = Len(s) - 1
  BY HeadTailProperties
<1>2. Len(s) \in Nat \ {0}
  BY EmptySeq
<1>3. SubSeq(s, 1, Len(s)) = <<s[1]>> \o SubSeq(s, 2, Len(s))
  <2>1. 1 \in 1 .. Len(s) /\ Len(s) \in 1 .. Len(s)
    BY <1>2
  <2> QED  BY <2>1, SubSeqRecursiveFirst
<1>4. s = <<s[1]>> \o Tail(s)
  BY <1>3, SubSeqFull, TailIsSubSeq
<1> QED  BY <1>1, <1>2, <1>4

\* A payload handed from the queue to the writer stays in its place.
LEMMA Dequeued ==
    ASSUME NEW S, NEW w \in Seq(S), NEW q \in Seq(S), q # <<>>
    PROVE  (w \o <<>>) \o q = (w \o <<Head(q)>>) \o Tail(q)
<1>1. Head(q) \in S /\ Tail(q) \in Seq(S) /\ q = <<Head(q)>> \o Tail(q)
  BY HeadThenTail
<1>2. <<Head(q)>> \in Seq(S)
  BY <1>1
<1>3. (w \o <<Head(q)>>) \o Tail(q) = w \o (<<Head(q)>> \o Tail(q))
  BY <1>1, <1>2, ConcatAssociative
<1>4. w \o <<>> = w
  BY ConcatEmptySeq
<1> QED  BY <1>1, <1>3, <1>4

\* A payload written in full leaves the writer's hand for the connection.
LEMMA Delivered ==
    ASSUME NEW S, NEW w \in Seq(S), NEW q \in Seq(S), NEW m \in S
    PROVE  (w \o <<m>>) \o q = (Append(w, m) \o <<>>) \o q
<1>1. Append(w, m) = w \o <<m>> /\ Append(w, m) \in Seq(S)
  BY AppendIsConcat, AppendProperties
<1>2. Append(w, m) \o <<>> = Append(w, m)
  BY <1>1, ConcatEmptySeq
<1> QED  BY <1>1, <1>2
-----------------------------------------------------------------------------
(***************************************************************************)
(* The invariant.                                                          *)
(***************************************************************************)
\* No payload was pushed, so nothing can be out of place.
LEMMA InitInv == Init => IInv
<1> SUFFICES ASSUME Init PROVE IInv
  OBVIOUS
<1> USE ChannelAssumption DEF Init
<1>1. TypeOK
  <2>1. QueueType
    BY EmptySeq DEF QueueType
  <2>2. WriterType /\ ReaderType
    BY DEF WriterType, ReaderType
  <2>3. LinkType /\ StreamType
    BY DEF LinkType, StreamType
  <2>4. PusherType
    BY DEF PusherType
  <2> QED  BY <2>1, <2>2, <2>3, <2>4 DEF TypeOK
<1>2. InHand
  BY DEF InHand
<1>3. Conservation
  BY EmptySeq, ConcatEmptySeq DEF Conservation, InFlight
<1>4. DrainNeverWaits
  BY DEF DrainNeverWaits
<1>5. Framing
  BY DEF Framing
<1> QED  BY <1>1, <1>2, <1>3, <1>4, <1>5 DEF IInv

\* Each step leaves every variable in its type; a receive shortens writechan,
\* and only a pusher that found room makes it longer.
LEMMA TypeStep == IInv /\ [Next]_vars => TypeOK'
<1> SUFFICES ASSUME IInv, [Next]_vars PROVE TypeOK'
  OBVIOUS
<1> USE ChannelAssumption
    DEF QueueType, WriterType, ReaderType, LinkType, PusherType, StreamType,
        writer, reader, pushers, link, stream, history, Others
<1> TypeOK /\ InHand /\ DrainNeverWaits
  BY DEF IInv
<1> USE DEF TypeOK, InHand, DrainNeverWaits
<1>1. ASSUME NEW p \in Pusher, ServerPush(p) \/ Receive(p) PROVE TypeOK'
  <2>1. pushed + 1 \in 0 .. MaxMsg /\ pushed + 1 \in Payload
    BY <1>1 DEF ServerPush, Receive, Obtain, Payload
  <2>2. PusherType'
    BY <1>1, <2>1 DEF ServerPush, Receive, Obtain
  <2>3. UNCHANGED <<writechan, history, writer, reader, link, stream>>
    BY <1>1 DEF ServerPush, Receive, Obtain
  <2> QED  BY <2>2, <2>3
<1>2. ASSUME NEW p \in Pusher, Push(p) PROVE TypeOK'
  BY <1>2 DEF Push, HasFired
<1>3. ASSUME NEW p \in Pusher, Enqueue(p) PROVE TypeOK'
  <2>1. payload[p] \in Payload
    BY <1>3 DEF Enqueue
  <2>2. QueueType'
    BY <1>3, <2>1, AppendProperties DEF Enqueue
  <2>3. PusherType'
    BY <1>3 DEF Enqueue
  <2>4. UNCHANGED <<writer, reader, link, stream>>
    BY <1>3 DEF Enqueue
  <2> QED  BY <2>2, <2>3, <2>4
<1>4. CASE Take \/ Drain
  <2>1. writechan # <<>> /\ UNCHANGED <<history, reader, link, pushers, stream>>
    BY <1>4 DEF Take, Drain, Dequeue
  <2>2. writechan' = Tail(writechan) /\ cur' = Head(writechan)
    BY <1>4 DEF Take, Drain, Dequeue
  <2>3. /\ Head(writechan) \in Payload /\ Tail(writechan) \in Seq(Payload)
        /\ Len(Tail(writechan)) = Len(writechan) - 1 /\ Len(writechan) \in Nat
    BY <2>1, HeadThenTail
  <2>4. QueueType' /\ cur' \in Payload
    BY <2>1, <2>2, <2>3
  <2>5. WriterType'
    BY <1>4, <2>4 DEF Take, Drain, Dequeue
  <2> QED  BY <2>1, <2>4, <2>5
<1>5. CASE WritePiece
  <2>1. QueueType'
    <3>1. cur \in Payload /\ Append(written, cur) \in Seq(Payload)
      BY <1>5, AppendProperties DEF WritePiece
    <3> QED  BY <1>5, <3>1 DEF WritePiece
  <2>2. WriterType'
    BY <1>5 DEF WritePiece
  <2>3. StreamType'
    BY <1>5 DEF WritePiece, Emit
  <2>4. UNCHANGED <<reader, link, pushers>>
    BY <1>5 DEF WritePiece
  <2> QED  BY <2>1, <2>2, <2>3, <2>4
<1>6. CASE WriteFail
  BY <1>6 DEF WriteFail, EmitPart
<1>7. CASE ReadLen \/ Flush
  <2>1. Len(writechan) \in 0 .. Cap
    BY LenProperties
  <2> QED  BY <1>7, <2>1 DEF ReadLen, Flush
<1>8. CASE Add \/ ReadEnds \/ Remove \/ Disconnect \/ Close
  <2>1. ReaderType' /\ LinkType'
    BY <1>8 DEF Add, ReadEnds, Remove, Disconnect, Close
  <2>2. UNCHANGED <<Others, stream>>
    BY <1>8 DEF Add, ReadEnds, Remove, Disconnect, Close
  <2> QED  BY <2>1, <2>2
<1>9. CASE ReadPing \/ PongFail
  <2>1. ReaderType'
    BY <1>9 DEF ReadPing, PongFail
  <2>2. StreamType'
    BY <1>9 DEF ReadPing, PongFail, EmitPart
  <2>3. UNCHANGED <<Others, link>>
    BY <1>9 DEF ReadPing, PongFail
  <2> QED  BY <2>1, <2>2, <2>3
<1>10. CASE WritePong
  <2>1. ReaderType'
    BY <1>10 DEF WritePong
  <2>2. StreamType'
    BY <1>10 DEF WritePong, Emit
  <2>3. UNCHANGED <<Others, link>>
    BY <1>10 DEF WritePong
  <2> QED  BY <2>1, <2>2, <2>3
<1>11. CASE ShutdownList \/ ShutdownClose
  <2>1. LinkType'
    BY <1>11 DEF ShutdownList, ShutdownClose
  <2>2. UNCHANGED <<Others, reader, stream>>
    BY <1>11 DEF ShutdownList, ShutdownClose
  <2> QED  BY <2>1, <2>2
<1>12. CASE UNCHANGED vars
  BY <1>12 DEF vars
<1> QED  BY <1>1, <1>2, <1>3, <1>4, <1>5, <1>6, <1>7, <1>8, <1>9, <1>10, <1>11, <1>12 DEF Next

\* A pusher holds the payload it was given, the writer the one it took.
LEMMA InHandStep == IInv /\ [Next]_vars => InHand'
<1> SUFFICES ASSUME IInv, [Next]_vars PROVE InHand'
  OBVIOUS
<1> USE ChannelAssumption
    DEF writer, reader, pushers, link, stream, history, Others, InHand
<1> InHand /\ QueueType /\ PusherType
  BY DEF IInv, TypeOK
<1>1. ASSUME NEW p \in Pusher, ServerPush(p) \/ Receive(p) PROVE InHand'
  <2>1. pushed + 1 \in Payload
    BY <1>1 DEF ServerPush, Receive, Obtain, Payload, PusherType
  <2> QED  BY <1>1, <2>1 DEF ServerPush, Receive, Obtain, PusherType
<1>2. ASSUME NEW p \in Pusher, Push(p) \/ Enqueue(p) PROVE InHand'
  BY <1>2 DEF Push, HasFired, Enqueue, PusherType
<1>3. CASE Take \/ Drain
  <2>1. writechan # <<>> /\ cur' = Head(writechan) /\ UNCHANGED pushers
    BY <1>3 DEF Take, Drain, Dequeue
  <2>2. cur' \in Payload
    BY <2>1, HeadThenTail DEF QueueType
  <2> QED  BY <2>1, <2>2
<1>4. CASE WritePiece \/ WriteFail \/ ReadLen \/ Flush
  BY <1>4 DEF WritePiece, WriteFail, ReadLen, Flush
<1>5. CASE UNCHANGED <<writer, pushers>>
  BY <1>5
<1>6. ASSUME \/ Add \/ ReadPing \/ WritePong \/ PongFail \/ ReadEnds
             \/ Remove \/ Disconnect \/ Close \/ ShutdownList \/ ShutdownClose
      PROVE  UNCHANGED <<writer, pushers>>
  BY <1>6 DEF Add, ReadPing, WritePong, PongFail, ReadEnds, Remove, Disconnect,
              Close, ShutdownList, ShutdownClose
<1>7. UNCHANGED vars => UNCHANGED <<writer, pushers>>
  BY DEF vars
<1> QED  BY <1>1, <1>2, <1>3, <1>4, <1>5, <1>6, <1>7 DEF Next

\* Only a send, a receive and the last write of a frame move a payload, and
\* each moves it to the place that follows.
LEMMA ConservationStep == IInv /\ [Next]_vars => Conservation'
<1> SUFFICES ASSUME IInv, [Next]_vars PROVE Conservation'
  OBVIOUS
<1> USE DEF writer, reader, pushers, link, stream, history, Others
<1> TypeOK /\ InHand /\ Conservation
  BY DEF IInv
<1>1. /\ writechan \in Seq(Payload) /\ written \in Seq(Payload)
      /\ InFlight \in Seq(Payload) /\ <<>> \in Seq(Payload)
      /\ accepted = (written \o InFlight) \o writechan
  BY EmptySeq DEF TypeOK, QueueType, InHand, InFlight, Conservation
<1>2. ASSUME NEW p \in Pusher, Enqueue(p) PROVE Conservation'
  <2>1. payload[p] \in Payload
    BY <1>2 DEF Enqueue, InHand
  <2>2. accepted' = Append(accepted, payload[p])
    BY <1>2 DEF Enqueue
  <2>3. Append((written \o InFlight) \o writechan, payload[p])
        = (written \o InFlight) \o Append(writechan, payload[p])
    <3> DEFINE before == written \o InFlight
    <3>1. before \in Seq(Payload)
      BY <1>1, ConcatProperties
    <3> HIDE DEF before
    <3>2. writechan \in Seq(Payload)
      BY <1>1
    <3>3. Append(before \o writechan, payload[p]) = before \o Append(writechan, payload[p])
      BY <2>1, <3>1, <3>2, SMT
    <3> QED  BY <3>3 DEF before
  <2> QED  BY <1>1, <1>2, <2>2, <2>3 DEF Enqueue, Conservation, InFlight
<1>3. CASE Take \/ Drain
  <2>1. /\ writechan # <<>> /\ writechan' = Tail(writechan)
        /\ InFlight = <<>> /\ InFlight' = <<Head(writechan)>>
        /\ UNCHANGED <<accepted, written>>
    BY <1>3 DEF Take, Drain, Dequeue, InFlight
  <2>2. accepted = (written \o <<Head(writechan)>>) \o Tail(writechan)
    BY <1>1, <2>1, Dequeued
  <2> QED  BY <2>1, <2>2 DEF Conservation
<1>4. CASE WritePiece
  <2>1. UNCHANGED <<accepted, writechan, cur>> /\ InFlight = <<cur>> /\ cur \in Payload
    BY <1>4 DEF WritePiece, InFlight, InHand
  <2>2. CASE piece + 1 = Pieces
    <3>1. written' = Append(written, cur) /\ InFlight' = <<>>
      BY <1>4, <2>2 DEF WritePiece, InFlight
    <3>2. accepted = (Append(written, cur) \o <<>>) \o writechan
      BY <1>1, <2>1, Delivered
    <3> QED  BY <2>1, <3>1, <3>2 DEF Conservation
  <2>3. CASE piece + 1 # Pieces
    BY <1>4, <2>1, <2>3 DEF WritePiece, Conservation, InFlight
  <2> QED  BY <2>2, <2>3
<1>5. CASE WriteFail \/ ReadLen \/ Flush
  BY <1>5 DEF WriteFail, ReadLen, Flush, Conservation, InFlight
<1>6. CASE UNCHANGED <<writechan, history, writer>>
  BY <1>6 DEF Conservation, InFlight
<1>7. ASSUME NEW p \in Pusher, ServerPush(p) \/ Receive(p) \/ Push(p)
      PROVE  UNCHANGED <<writechan, history, writer>>
  BY <1>7 DEF ServerPush, Receive, Obtain, Push
<1>8. ASSUME \/ Add \/ ReadPing \/ WritePong \/ PongFail \/ ReadEnds
             \/ Remove \/ Disconnect \/ Close \/ ShutdownList \/ ShutdownClose
      PROVE  UNCHANGED <<writechan, history, writer>>
  BY <1>8 DEF Add, ReadPing, WritePong, PongFail, ReadEnds, Remove, Disconnect,
              Close, ShutdownList, ShutdownClose
<1>9. UNCHANGED vars => UNCHANGED <<writechan, history, writer>>
  BY DEF vars
<1> QED  BY <1>2, <1>3, <1>4, <1>5, <1>6, <1>7, <1>8, <1>9 DEF Next

\* A receive takes one payload and one turn of the loop; a send adds one.
LEMMA DrainStep == IInv /\ [Next]_vars => DrainNeverWaits'
<1> SUFFICES ASSUME IInv, [Next]_vars PROVE DrainNeverWaits'
  OBVIOUS
<1> USE DEF writer, reader, pushers, link, stream, history, Others
<1> DrainNeverWaits /\ QueueType /\ WriterType
  BY DEF IInv, TypeOK
<1> USE DEF DrainNeverWaits
<1>1. ASSUME NEW p \in Pusher, Enqueue(p) PROVE DrainNeverWaits'
  <2>1. Len(writechan') = Len(writechan) + 1 /\ Len(writechan) \in Nat
    <3>1. payload[p] \in Payload
      BY <1>1 DEF IInv, InHand, Enqueue
    <3>2. ASSUME NEW m \in Payload PROVE Len(Append(writechan, m)) = Len(writechan) + 1
      BY AppendProperties DEF QueueType
    <3> QED  BY <1>1, <3>1, <3>2, LenProperties DEF Enqueue, QueueType
  <2>2. UNCHANGED <<wpc, left>>
    BY <1>1 DEF Enqueue
  <2> QED  BY <2>1, <2>2, ChannelAssumption DEF WriterType
<1>2. CASE Drain
  <2>1. Len(writechan') = Len(writechan) - 1 /\ Len(writechan) \in Nat
    BY <1>2, HeadThenTail DEF Drain, Dequeue, QueueType
  <2>2. wpc = "recv" /\ left' = left - 1
    BY <1>2 DEF Drain
  <2> QED  BY <2>1, <2>2, ChannelAssumption DEF WriterType
<1>3. CASE Take \/ WritePiece \/ WriteFail \/ ReadLen \/ Flush
  <2>1. Len(writechan) \in Nat
    BY LenProperties DEF QueueType
  <2> QED  BY <1>3, <2>1 DEF Take, WritePiece, WriteFail, ReadLen, Flush
<1>4. CASE UNCHANGED <<writechan, writer>>
  BY <1>4
<1>5. ASSUME NEW p \in Pusher, ServerPush(p) \/ Receive(p) \/ Push(p)
      PROVE  UNCHANGED <<writechan, writer>>
  BY <1>5 DEF ServerPush, Receive, Obtain, Push
<1>6. ASSUME \/ Add \/ ReadPing \/ WritePong \/ PongFail \/ ReadEnds
             \/ Remove \/ Disconnect \/ Close \/ ShutdownList \/ ShutdownClose
      PROVE  UNCHANGED <<writechan, writer>>
  BY <1>6 DEF Add, ReadPing, WritePong, PongFail, ReadEnds, Remove, Disconnect,
              Close, ShutdownList, ShutdownClose
<1>7. UNCHANGED vars => UNCHANGED <<writechan, writer>>
  BY DEF vars
<1> QED  BY <1>1, <1>2, <1>3, <1>4, <1>5, <1>6, <1>7 DEF Next

\* Without pings only the writer writes, and it never writes after an error.
LEMMA FramingStep == IInv /\ [Next]_vars => Framing'
<1> SUFFICES ASSUME IInv, [Next]_vars, pings' = 0 PROVE Framing'
  BY DEF Framing
<1> USE ChannelAssumption
    DEF writer, reader, pushers, link, stream, history, Others, Framing
<1>1. Framing /\ WriterType /\ ReaderType
  BY DEF IInv, TypeOK
<1>2. ASSUME NEW p \in Pusher, ServerPush(p) \/ Receive(p) \/ Push(p) \/ Enqueue(p)
      PROVE  UNCHANGED <<writer, reader, stream>>
  BY <1>2 DEF ServerPush, Receive, Obtain, Push, Enqueue
<1>3. CASE Take \/ Drain \/ ReadLen \/ Flush
  BY <1>1, <1>3 DEF Take, Drain, Dequeue, ReadLen, Flush
<1>4. CASE WritePiece
  <2>1. UNCHANGED reader
    BY <1>4 DEF WritePiece
  <2>2. wpc \in {"first", "drain"} /\ ~garbled
        /\ tail = IF piece = 0 THEN "none" ELSE "data"
    BY <1>1, <1>4, <2>1 DEF WritePiece
  <2>3. CASE piece + 1 = Pieces
    <3>1. wpc' \in {"len", "recv"}
      BY <1>4, <2>2, <2>3 DEF WritePiece
    <3>2. ~garbled' /\ tail' = "none"
      BY <1>4, <2>2, <2>3 DEF WritePiece, Emit
    <3> QED  BY <1>1, <2>1, <3>1, <3>2
  <2>4. CASE piece + 1 # Pieces
    <3>1. wpc' \in {"first", "drain"} /\ piece' # 0
      BY <1>1, <1>4, <2>2, <2>4 DEF WritePiece, WriterType
    <3>2. ~garbled' /\ tail' = "data"
      BY <1>4, <2>2, <2>4 DEF WritePiece, Emit
    <3> QED  BY <1>1, <2>1, <3>1, <3>2
  <2> QED  BY <2>3, <2>4
<1>5. CASE WriteFail
  BY <1>1, <1>5 DEF WriteFail, EmitPart, WriterType
<1>6. ASSUME ReadPing PROVE FALSE
  BY <1>1, <1>6 DEF ReadPing, ReaderType
<1>7. CASE WritePong \/ PongFail
  BY <1>1, <1>7 DEF WritePong, PongFail
<1>8. CASE Add \/ ReadEnds \/ Remove \/ Disconnect \/ Close
  BY <1>1, <1>8 DEF Add, ReadEnds, Remove, Disconnect, Close
<1>9. CASE ShutdownList \/ ShutdownClose
  BY <1>1, <1>9 DEF ShutdownList, ShutdownClose
<1>10. CASE UNCHANGED <<writer, reader, stream>>
  BY <1>1, <1>10
<1>11. UNCHANGED vars => UNCHANGED <<writer, reader, stream>>
  BY DEF vars
<1> QED  BY <1>2, <1>3, <1>4, <1>5, <1>6, <1>7, <1>8, <1>9, <1>10, <1>11 DEF Next

\* The inductive invariant holds in every reachable state of the channel.
THEOREM Invariant == Spec => []IInv
<1>1. IInv /\ [Next]_vars => IInv'
  BY TypeStep, InHandStep, ConservationStep, DrainStep, FramingStep DEF IInv
<1> QED  BY InitInv, <1>1, PTL DEF Spec
-----------------------------------------------------------------------------
(***************************************************************************)
(* What follows from the invariant.                                        *)
(***************************************************************************)
\* Every variable keeps its type; writechan stays within its capacity.
THEOREM TypeCorrect == Spec => []TypeOK
<1>1. IInv => TypeOK
  BY DEF IInv
<1> QED  BY Invariant, <1>1, PTL

\* No accepted payload is lost, doubled or overtaken before a write fails, and
\* then only the one in the writer's hand and those behind it are (writeloop).
THEOREM Conserved == Spec => []Conservation
<1>1. IInv => Conservation
  BY DEF IInv
<1> QED  BY Invariant, <1>1, PTL

\* The plain receive in writeloop's drain loop never waits.
THEOREM DrainSafe == Spec => []DrainNeverWaits
<1>1. IInv => DrainNeverWaits
  BY DEF IInv
<1> QED  BY Invariant, <1>1, PTL

\* Without a pong on the connection the peer finds every frame whole.
THEOREM FramingSafe == Spec => []FramingBrokenOnlyByPong
<1>1. IInv => FramingBrokenOnlyByPong
  BY DEF IInv, Framing, FramingBrokenOnlyByPong
<1> QED  BY Invariant, <1>1, PTL
-----------------------------------------------------------------------------
(***************************************************************************)
(* The channel implements the outbox (its progress is left to TLC).        *)
(***************************************************************************)
\* How far acceptance runs ahead of the connection, and what goes out next.
LEMMA Ahead ==
    ASSUME IInv
    PROVE  /\ Len(writechan) \in Nat /\ Len(written) \in Nat
           /\ Len(accepted) = Len(written) + Len(InFlight) + Len(writechan)
           /\ InFlight = <<cur>> => accepted[Len(written) + 1] = cur
<1> /\ writechan \in Seq(Payload) /\ written \in Seq(Payload)
    /\ InFlight \in Seq(Payload)
    /\ accepted = (written \o InFlight) \o writechan
  BY EmptySeq DEF IInv, TypeOK, QueueType, InHand, InFlight, Conservation
<1>1. /\ Len(writechan) \in Nat /\ Len(written) \in Nat /\ Len(InFlight) \in Nat
  BY LenProperties
<1>2. /\ written \o InFlight \in Seq(Payload)
      /\ Len(written \o InFlight) = Len(written) + Len(InFlight)
      /\ \A i \in 1 .. Len(written) + Len(InFlight) :
            (written \o InFlight)[i] = IF i <= Len(written) THEN written[i]
                                       ELSE InFlight[i - Len(written)]
  BY ConcatProperties
<1>3. /\ Len(accepted) = Len(written \o InFlight) + Len(writechan)
      /\ \A i \in 1 .. Len(written \o InFlight) + Len(writechan) :
            accepted[i] = IF i <= Len(written \o InFlight) THEN (written \o InFlight)[i]
                          ELSE writechan[i - Len(written \o InFlight)]
  BY <1>2, ConcatProperties
<1>4. ASSUME InFlight = <<cur>> PROVE accepted[Len(written) + 1] = cur
  <2>1. Len(InFlight) = 1 /\ InFlight[1] = cur
    BY <1>4
  <2>2. accepted[Len(written) + 1] = (written \o InFlight)[Len(written) + 1]
    BY <1>1, <1>2, <1>3, <2>1
  <2> QED  BY <1>1, <1>2, <2>1, <2>2
<1> QED  BY <1>1, <1>2, <1>3, <1>4

\* A send is an Accept, the last write of a frame a Deliver, a failed write a
\* Break, and every other step of the channel leaves the outbox alone.
LEMMA StepRefines == IInv /\ [Next]_vars => [Abstract!OutboxNext]_(Abstract!outboxVars)
<1> SUFFICES ASSUME IInv, [Next]_vars
             PROVE  [Abstract!OutboxNext]_(Abstract!outboxVars)
  OBVIOUS
<1> USE ChannelAssumption
    DEF writer, reader, pushers, link, stream, history, Others
<1>1. ASSUME NEW p \in Pusher, Enqueue(p) PROVE Abstract!OutboxNext
  <2>1. payload[p] \in Payload
    BY <1>1 DEF IInv, InHand, Enqueue
  <2>2. Len(InFlight) <= 1 /\ Len(InFlight) \in Nat
    BY DEF InFlight
  <2>3. Len(accepted) < Len(written) + (Cap + 1)
    BY <1>1, <2>2, Ahead DEF Enqueue
  <2>4. Abstract!Accept(payload[p])
    BY <1>1, <2>3 DEF Abstract!Accept, Enqueue
  <2> QED  BY <2>1, <2>4 DEF Abstract!OutboxNext
<1>2. CASE WritePiece
  <2>1. CASE piece + 1 = Pieces
    <3>1. /\ written' = Append(written, cur) /\ accepted' = accepted
          /\ InFlight = <<cur>> /\ wpc # "exited" /\ wpc' # "exited"
      BY <1>2, <2>1 DEF WritePiece, InFlight
    <3>2. Len(written) < Len(accepted) /\ accepted[Len(written) + 1] = cur
      <4>1. Len(InFlight) = 1
        BY <3>1
      <4> QED  BY <3>1, <4>1, Ahead
    <3>3. Abstract!Deliver
      BY <3>1, <3>2 DEF Abstract!Deliver
    <3> QED  BY <3>3 DEF Abstract!OutboxNext
  <2>2. CASE piece + 1 # Pieces
    BY <1>2, <2>2 DEF WritePiece, Abstract!outboxVars
  <2> QED  BY <2>1, <2>2
<1>3. CASE WriteFail
  <2>1. Abstract!Break
    BY <1>3 DEF WriteFail, Abstract!Break
  <2> QED  BY <2>1 DEF Abstract!OutboxNext
<1>4. CASE Take \/ Drain \/ ReadLen \/ Flush
  <2>1. UNCHANGED <<accepted, written>> /\ wpc # "exited" /\ wpc' # "exited"
    BY <1>4 DEF Take, Drain, Dequeue, ReadLen, Flush
  <2> QED  BY <2>1 DEF Abstract!outboxVars
<1>5. CASE UNCHANGED <<accepted, written, wpc>>
  BY <1>5 DEF Abstract!outboxVars
<1>6. ASSUME NEW p \in Pusher, ServerPush(p) \/ Receive(p) \/ Push(p)
      PROVE  UNCHANGED <<accepted, written, wpc>>
  BY <1>6 DEF ServerPush, Receive, Obtain, Push
<1>7. ASSUME \/ Add \/ ReadPing \/ WritePong \/ PongFail \/ ReadEnds
             \/ Remove \/ Disconnect \/ Close \/ ShutdownList \/ ShutdownClose
      PROVE  UNCHANGED <<accepted, written, wpc>>
  BY <1>7 DEF Add, ReadPing, WritePong, PongFail, ReadEnds, Remove, Disconnect,
              Close, ShutdownList, ShutdownClose
<1>8. UNCHANGED vars => UNCHANGED <<accepted, written, wpc>>
  BY DEF vars
<1> QED  BY <1>1, <1>2, <1>3, <1>4, <1>5, <1>6, <1>7, <1>8 DEF Next

\* Every behaviour of the channel is one of the outbox: pushes, writes and
\* failures in any order keep acceptance order, and no more than Cap + 1
\* accepted payloads wait.
THEOREM Refinement == Spec => Abstract!OutboxSafety
<1>1. Init => Abstract!OutboxInit
  BY DEF Init, Abstract!OutboxInit
<1> QED  BY <1>1, Invariant, StepRefines, PTL DEF Spec, Abstract!OutboxSafety
=============================================================================
