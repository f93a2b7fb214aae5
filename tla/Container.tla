----------------------------- MODULE Container -----------------------------
(***************************************************************************)
(* The life of a container (container/container.go) around its Server:     *)
(* Init, Start, registration in the naming, the signal and shutdown, and   *)
(* readloop with pushMessage, which hands what the services send to the    *)
(* channels it is for.  How the clients to the services come and go is     *)
(* module ClientPool.                                                      *)
(***************************************************************************)
EXTENDS Server

CONSTANTS Client,       \* the clients to services, one readloop each
          Receivers,    \* the lists of ids a message can be for
          MaxFrame,     \* bound: frames a client reads
          MayEnd        \* bound: whether signals and failures are looked at

Distinct(ids) == \A m, n \in DOMAIN ids : ids[m] = ids[n] => m = n

\* A message names a channel once; pushMessage would serve it twice otherwise.
ASSUME ContainerAssumption ==
    /\ Receivers \subseteq {ids \in Seq(Id) : Distinct(ids)}
    /\ MaxFrame \in Nat /\ MayEnd \in BOOLEAN

VARIABLES
    main,               \* the goroutine of Start
    named,              \* the naming has the service
    deregisterFailed,   \* Deregister returned an error
    reading,            \* each client's readloop
    frames,             \* how many frames it has read
    to,                 \* the ids the message at hand is still for
    channel,            \* the channel the lookup found
    owed,               \* receivers registered since the message was read
    box                 \* payloads accepted by each channel: <<client, frame>>

lifecycle == <<main, named, deregisterFailed>>
pushing   == <<reading, frames, to, channel, owed, box>>
vars == <<serverVars, lifecycle, pushing>>

Init ==
    /\ ServerInit
    /\ main = "down"
    /\ named = FALSE /\ deregisterFailed = FALSE
    /\ reading = [k \in Client |-> "none"]
    /\ frames = [k \in Client |-> 0]
    /\ to = [k \in Client |-> <<>>]
    /\ channel = [k \in Client |-> None]
    /\ owed = [k \in Client |-> {}]
    /\ box = [c \in Conn |-> <<>>]

Forget ==
    /\ ServerForgets
    /\ reading' = [k \in Client |-> "none"]
    /\ frames' = [k \in Client |-> 0]
    /\ to' = [k \in Client |-> <<>>]
    /\ channel' = [k \in Client |-> None]
    /\ owed' = [k \in Client |-> {}]
    /\ box' = [c \in Conn |-> <<>>]
-----------------------------------------------------------------------------
(***************************************************************************)
(* Init, Start and shutdown.                                               *)
(***************************************************************************)
InitContainer ==
    /\ main \in {"down", "exited"}
    /\ main' = "initialized"
    /\ deregisterFailed' = FALSE
    /\ UNCHANGED <<serverVars, named, pushing>>

\* The server and the clients come up on goroutines of their own.
Start ==
    /\ main = "initialized"
    /\ main' = "register"
    /\ listener' = "starting"
    /\ UNCHANGED <<socket, outgoing, closing, after, named, deregisterFailed,
                   pushing>>

\* An error is logged only; without a public address there is nothing to do.
Register ==
    /\ main = "register"
    /\ named' \in BOOLEAN
    /\ main' = "wait"
    /\ UNCHANGED <<serverVars, deregisterFailed, pushing>>

Signal ==
    /\ main = "wait" /\ MayEnd
    /\ main' = "shutdown"
    /\ UNCHANGED <<serverVars, named, deregisterFailed, pushing>>

\* The process ends and its memory goes: a signal that is not waited for, or a
\* failing accept, which leaves a nil connection behind and uses it.
Dies ==
    /\ main \notin {"down", "exited"} /\ MayEnd
    /\ main' = "down"
    /\ Forget
    /\ UNCHANGED <<named, deregisterFailed>>

ShutdownServer ==
    /\ main = "shutdown"
    /\ Shutdown
    /\ UNCHANGED <<lifecycle, pushing>>

\* An error of the server's Shutdown is only logged.
Deregister ==
    /\ main = "shutdown" /\ shutting = "done"
    /\ main' = "deregistered"
    /\ named' = FALSE
    /\ UNCHANGED <<serverVars, deregisterFailed, pushing>>

\* Shutdown returns without unsubscribing; the request may have been served.
DeregisterFails ==
    /\ main = "shutdown" /\ shutting = "done"
    /\ main' = "deregistered"
    /\ named' \in {named, FALSE}
    /\ deregisterFailed' = TRUE
    /\ UNCHANGED <<serverVars, pushing>>

\* Start returns, and the process ends with whatever else still runs.
Exit ==
    /\ main = "deregistered"
    /\ main' = "exited"
    /\ Forget
    /\ UNCHANGED <<named, deregisterFailed>>
-----------------------------------------------------------------------------
(***************************************************************************)
(* readloop and pushMessage.                                               *)
(***************************************************************************)
At(k, p) == reading' = [reading EXCEPT ![k] = p]

\* buildClient starts the goroutine, at any time after Start.
Connected(k) ==
    /\ reading[k] = "none" /\ main \notin {"down", "initialized", "exited"}
    /\ At(k, "read")
    /\ UNCHANGED <<serverVars, lifecycle, frames, to, channel, owed, box>>

ReadFrame(k) ==
    /\ reading[k] = "read" /\ frames[k] < MaxFrame
    /\ frames' = [frames EXCEPT ![k] = @ + 1]

\* A binary frame, one that holds no packet, or a packet for another service
\* or without receivers.
Skip(k) ==
    /\ ReadFrame(k)
    /\ owed' = [owed EXCEPT ![k] = {}]
    /\ UNCHANGED <<serverVars, lifecycle, reading, to, channel, box>>

PushMessage(k, ids) ==
    /\ ReadFrame(k)
    /\ to' = [to EXCEPT ![k] = ids]
    /\ owed' = [owed EXCEPT ![k] = {registry[ids[n]] : n \in DOMAIN ids} \ {None}]
    /\ At(k, "lookup")
    /\ UNCHANGED <<serverVars, lifecycle, channel, box>>

Lookup(k) ==
    /\ reading[k] = "lookup" /\ to[k] # <<>>
    /\ registry[Head(to[k])] # None
    /\ channel' = [channel EXCEPT ![k] = registry[Head(to[k])]]
    /\ At(k, "send")
    /\ UNCHANGED <<serverVars, lifecycle, frames, to, owed, box>>

ReturningLookupFails(k) ==
    /\ reading[k] = "lookup" /\ to[k] # <<>>
    /\ registry[Head(to[k])] = None
    /\ to' = [to EXCEPT ![k] = <<>>]
    /\ UNCHANGED <<serverVars, lifecycle, reading, frames, channel, owed, box>>

\* The error of one receiver does not keep the next from being served.
LookupFails(k) ==
    /\ reading[k] = "lookup" /\ to[k] # <<>>
    /\ registry[Head(to[k])] = None
    /\ to' = [to EXCEPT ![k] = Tail(@)]
    /\ UNCHANGED <<serverVars, lifecycle, reading, frames, channel, owed, box>>

RepeatingSend(k) ==
    /\ reading[k] = "send"
    /\ Enqueue(channel[k])
    /\ box' = [box EXCEPT ![channel[k]] = Append(@, <<k, frames[k]>>)]
    /\ At(k, "lookup")
    /\ UNCHANGED <<listener, socket, writer, closing, after, lifecycle,
                   frames, to, channel, owed>>

Send(k) ==
    /\ reading[k] = "send"
    /\ Enqueue(channel[k])
    /\ box' = [box EXCEPT ![channel[k]] = Append(@, <<k, frames[k]>>)]
    /\ to' = [to EXCEPT ![k] = Tail(@)]
    /\ channel' = [channel EXCEPT ![k] = None]
    /\ At(k, "lookup")
    /\ UNCHANGED <<listener, socket, writer, closing, after, lifecycle,
                   frames, owed>>

Pushed(k) ==
    /\ reading[k] = "lookup" /\ to[k] = <<>>
    /\ At(k, "read")
    /\ UNCHANGED <<serverVars, lifecycle, frames, to, channel, owed, box>>

\* cli.Read fails and the goroutine ends.
ReadFails(k) ==
    /\ reading[k] = "read"
    /\ At(k, "ended")
    /\ UNCHANGED <<serverVars, lifecycle, frames, to, channel, owed, box>>
-----------------------------------------------------------------------------
Main ==
    Start \/ Register \/ ShutdownServer \/ Deregister \/ DeregisterFails \/ Exit

Push(k) == Lookup(k) \/ LookupFails(k) \/ Send(k) \/ Pushed(k)

Readloop(k) ==
    \/ Connected(k) \/ Skip(k) \/ ReadFails(k)
    \/ \E ids \in Receivers : PushMessage(k, ids)
    \/ Push(k)

Next ==
    \/ InitContainer \/ Main \/ Signal \/ Dies
    \/ ServerSteps /\ UNCHANGED <<lifecycle, pushing>>
    \/ \E k \in Client : Readloop(k)

Spec == Init /\ [][Next]_vars

\* What the process runs goes on while it lives.  Go serves those who wait to
\* send to a channel in turn.
FairSpec ==
    /\ Spec
    /\ WF_vars(Main)
    /\ \A c \in Conn : /\ WF_vars(Serve(c) /\ UNCHANGED <<lifecycle, pushing>>)
                       /\ WF_vars(WriteLoop(c) /\ UNCHANGED <<lifecycle, pushing>>)
    /\ \A k \in Client : WF_vars(Push(k)) /\ SF_vars(Send(k))
-----------------------------------------------------------------------------
TypeOK ==
    /\ ServerTypeOK
    /\ main \in {"down", "initialized", "register", "wait", "shutdown",
                 "deregistered", "exited"}
    /\ named \in BOOLEAN /\ deregisterFailed \in BOOLEAN
    /\ reading \in [Client -> {"none", "read", "lookup", "send", "ended"}]
    /\ frames \in [Client -> 0 .. MaxFrame]
    /\ to \in [Client -> Seq(Id)]
    /\ channel \in [Client -> Conn \cup {None}]
    /\ owed \in [Client -> SUBSET Conn]
    /\ box \in [Conn -> Seq(Client \X (1 .. MaxFrame))]

\* A channel is found under its id from Add until its own goroutine removes it:
\* no other connection's Add or Remove touches its entry (channels.go names
\* entries by id, tcp/server.go:90 and 96).
LiveIsRegistered ==
    \A c \in Conn : place[c] \in {"reading", "ended"} => registry[id[c]] = c

\* When Shutdown is through in time, what is still open was added after it had
\* listed the channels (tcp/server.go:117): the listener is never closed.
OpenCameLate ==
    \A c \in Conn :
        (shutting = "done" /\ ~timedOut /\ place[c] = "reading" /\ open[c])
            => c \in after

\* A process that was shut down has left the naming, unless Deregister failed:
\* nothing that goes wrong before (a context that ran out) keeps it there.
ExitLeavesNaming == main = "exited" /\ named => deregisterFailed

\* Whatever was registered when a message was read and still is has accepted it
\* when pushMessage is through, whichever of the others failed (container.go:275).
NobodyForgotten ==
    \A k \in Client :
        reading[k] = "read" =>
            \A c \in owed[k] : \/ place[c] # "reading"
                               \/ \E n \in DOMAIN box[c] : box[c][n] = <<k, frames[k]>>

\* What a service sends to a channel is accepted in the order it was read and
\* once only, however many clients push to it.
InOrderOnce ==
    \A c \in Conn : \A m, n \in DOMAIN box[c] :
        m < n /\ box[c][m][1] = box[c][n][1] => box[c][m][2] < box[c][n][2]

\* A push comes to its end, unless the channel it waits for is full and its
\* writer gone (channel.go:80): that keeps every later receiver waiting too.
PushEndsOrStuck ==
    \A k \in Client :
        (reading[k] = "lookup") ~>
            \/ reading[k] \in {"read", "none"}
            \/ reading[k] = "send" /\ Stuck(channel[k])

\* Shutdown ends the process, whatever its channels and clients do.
ShutdownEndsProcess == (main = "shutdown") ~> (main \in {"down", "exited"})

\* container.go:230 says that a legal message that was read is sent to the
\* channels it is for: a receiver that is well accepts it.
EveryReceiverServed ==
    \A k \in Client, c \in Conn :
        (reading[k] = "lookup" /\ c \in owed[k]) ~>
            \/ place[c] # "reading" \/ ~open[c] \/ writer[c] = "gone"
            \/ \E n \in DOMAIN box[c] : box[c][n] = <<k, frames[k]>>
=============================================================================
