------------------------------- MODULE Server -------------------------------
(***************************************************************************)
(* The connections of a server: tcp/server.go and websocket/server.go,     *)
(* which differ in how a connection is made, and the registry of           *)
(* channels.go.  One connection in detail is module Channel; here a        *)
(* channel is its entry in the registry, its socket, the length of its     *)
(* queue and whether its writer lives.                                     *)
(*                                                                         *)
(* Accept of both servers hides the Acceptor they were given and hands out *)
(* an id that was never used (ksuid), so the branch for an id that exists  *)
(* is never taken.                                                         *)
(***************************************************************************)
EXTENDS Naturals, Sequences

CONSTANTS Conn,         \* the connections peers make
          Id,           \* ids of channels
          None,         \* no connection, no id
          Cap           \* capacity of writechan

ASSUME ServerAssumption == None \notin Conn \cup Id /\ Cap \in Nat \ {0}

VARIABLES
    listener,           \* off, on or failed
    place,              \* the goroutine of each connection
    id,                 \* the id Accept gave it
    open,               \* its socket is open
    registry,           \* ChannelMap: the channel under each id
    writer,             \* its writeloop: none, on or gone
    queued,             \* payloads in writechan
    shutting,           \* Shutdown: no, closing or done
    listed,             \* the channels it has yet to close
    timedOut,           \* its context ran out before it had closed all
    after               \* channels added after it listed them

socket   == <<place, id, open, registry>>
outgoing == <<writer, queued>>
closing  == <<shutting, listed, timedOut>>
serverVars == <<listener, socket, outgoing, closing, after>>

ServerInit ==
    /\ listener = "off"
    /\ place = [c \in Conn |-> "none"]
    /\ id = [c \in Conn |-> None]
    /\ open = [c \in Conn |-> FALSE]
    /\ registry = [i \in Id |-> None]
    /\ writer = [c \in Conn |-> "none"]
    /\ queued = [c \in Conn |-> 0]
    /\ shutting = "no" /\ listed = {} /\ timedOut = FALSE /\ after = {}

\* The process ends, and with it what it kept in memory.
ServerForgets ==
    /\ listener' = "off"
    /\ place' = [c \in Conn |-> "none"]
    /\ id' = [c \in Conn |-> None]
    /\ open' = [c \in Conn |-> FALSE]
    /\ registry' = [i \in Id |-> None]
    /\ writer' = [c \in Conn |-> "none"]
    /\ queued' = [c \in Conn |-> 0]
    /\ shutting' = "no" /\ listed' = {} /\ timedOut' = FALSE /\ after' = {}

Used == {id[c] : c \in Conn} \ {None}

Goto(c, p) == place' = [place EXCEPT ![c] = p]
-----------------------------------------------------------------------------
(***************************************************************************)
(* Start, and the goroutine of a connection.                               *)
(***************************************************************************)
\* The error of Start is logged; the container goes on without a listener.
Listen ==
    /\ listener = "starting"
    /\ listener' \in {"on", "failed"}
    /\ UNCHANGED <<socket, outgoing, closing, after>>

NamedAccept(c) ==
    /\ listener = "on" /\ place[c] = "none"
    /\ \E i \in Id : registry[i] = None /\ id' = [id EXCEPT ![c] = i]
    /\ open' = [open EXCEPT ![c] = TRUE]
    /\ Goto(c, "accepted")
    /\ UNCHANGED <<listener, registry, outgoing, closing, after>>

Accept(c) ==
    /\ listener = "on" /\ place[c] = "none"
    /\ \E i \in Id \ Used : id' = [id EXCEPT ![c] = i]
    /\ open' = [open EXCEPT ![c] = TRUE]
    /\ Goto(c, "accepted")
    /\ UNCHANGED <<listener, registry, outgoing, closing, after>>

\* NewChannel starts the writer, and Add registers the channel.
Add(c) ==
    /\ place[c] = "accepted"
    /\ registry' = [registry EXCEPT ![id[c]] = c]
    /\ writer' = [writer EXCEPT ![c] = "on"]
    /\ after' = IF shutting = "no" THEN after ELSE after \cup {c}
    /\ Goto(c, "reading")
    /\ UNCHANGED <<listener, id, open, queued, closing>>

\* ReadFrame fails, or the peer sends a close frame.  A peer or a network that
\* goes shows in nothing but this and WriteFails.
ReadEnds(c) ==
    /\ place[c] = "reading"
    /\ Goto(c, "ended")
    /\ UNCHANGED <<listener, id, open, registry, outgoing, closing, after>>

Remove(c) ==
    /\ place[c] = "ended"
    /\ registry' = [registry EXCEPT ![id[c]] = None]
    /\ Goto(c, "removed")
    /\ UNCHANGED <<listener, id, open, outgoing, closing, after>>

\* Disconnect of the StateListener, then Close.
Disconnect(c) ==
    /\ place[c] = "removed"
    /\ Goto(c, "closed")
    /\ open' = [open EXCEPT ![c] = FALSE]
    /\ UNCHANGED <<listener, id, registry, outgoing, closing, after>>
-----------------------------------------------------------------------------
(***************************************************************************)
(* The writer of a channel takes a payload and writes it, or fails on it   *)
(* (at the latest at the write deadline) and is gone.                      *)
(***************************************************************************)
Write(c) ==
    /\ writer[c] = "on" /\ queued[c] > 0 /\ open[c]
    /\ queued' = [queued EXCEPT ![c] = @ - 1]
    /\ UNCHANGED <<listener, socket, writer, closing, after>>

OpenWriteFails(c) ==
    /\ writer[c] = "on" /\ queued[c] > 0 /\ open[c]
    /\ queued' = [queued EXCEPT ![c] = @ - 1]
    /\ writer' = [writer EXCEPT ![c] = "gone"]
    /\ UNCHANGED <<listener, socket, closing, after>>

WriteFails(c) ==
    /\ writer[c] = "on" /\ queued[c] > 0
    /\ queued' = [queued EXCEPT ![c] = @ - 1]
    /\ writer' = [writer EXCEPT ![c] = "gone"]
    /\ UNCHANGED <<listener, socket, closing, after>>

\* Server.Push is a lookup and a send to the channel found, which waits while
\* the queue is full.
CanSend(c) == queued[c] < Cap

Enqueue(c) ==
    /\ CanSend(c)
    /\ queued' = [queued EXCEPT ![c] = @ + 1]

Stuck(c) == writer[c] = "gone" /\ ~CanSend(c)
-----------------------------------------------------------------------------
(***************************************************************************)
(* Shutdown.  The listener goes on.                                        *)
(***************************************************************************)
Registered == {registry[i] : i \in Id} \ {None}

ShutdownList ==
    /\ shutting = "no"
    /\ listed' = Registered
    /\ shutting' = "closing"
    /\ UNCHANGED <<listener, socket, outgoing, timedOut, after>>

EarlyShutdownClose(c) ==
    /\ shutting = "closing" /\ c \in listed
    /\ open' = [open EXCEPT ![c] = FALSE]
    /\ listed' = {}
    /\ UNCHANGED <<listener, place, id, registry, outgoing, shutting,
                   timedOut, after>>

\* After each channel the context is asked whether it has run out.
ShutdownClose(c) ==
    /\ shutting = "closing" /\ c \in listed
    /\ open' = [open EXCEPT ![c] = FALSE]
    /\ \/ listed' = listed \ {c} /\ UNCHANGED timedOut
       \/ listed' = {} /\ timedOut' = TRUE
    /\ UNCHANGED <<listener, place, id, registry, outgoing, shutting, after>>

ShutdownEnds ==
    /\ shutting = "closing" /\ listed = {}
    /\ shutting' = "done"
    /\ UNCHANGED <<listener, socket, outgoing, listed, timedOut, after>>
-----------------------------------------------------------------------------
Serve(c) == Add(c) \/ Remove(c) \/ Disconnect(c) \/ (~open[c] /\ ReadEnds(c))

WriteLoop(c) == Write(c) \/ WriteFails(c)

Shutdown == ShutdownList \/ ShutdownEnds \/ \E c \in Conn : ShutdownClose(c)

ServerSteps ==
    \/ Listen
    \/ \E c \in Conn : \/ Accept(c) \/ ReadEnds(c)
                       \/ Serve(c) \/ WriteLoop(c)

ServerTypeOK ==
    /\ listener \in {"off", "starting", "on", "failed"}
    /\ place \in [Conn -> {"none", "accepted", "reading", "ended", "removed",
                           "closed"}]
    /\ id \in [Conn -> Id \cup {None}]
    /\ open \in [Conn -> BOOLEAN]
    /\ registry \in [Id -> Conn \cup {None}]
    /\ writer \in [Conn -> {"none", "on", "gone"}]
    /\ queued \in [Conn -> 0 .. Cap]
    /\ shutting \in {"no", "closing", "done"}
    /\ listed \subseteq Conn
    /\ timedOut \in BOOLEAN
    /\ after \subseteq Conn
=============================================================================
