------------------------------ MODULE Gateway ------------------------------
(***************************************************************************)
(* The gateway (services/gateway/serv/handler.go) and the part of the      *)
(* container it sends through: what a client sends is read, stamped with   *)
(* the client's channel, and forwarded to a chat server; what the chat     *)
(* server pushes back is read by the container and handed to the channels  *)
(* it names.  Every message of a client is a goroutine of its own, and so  *)
(* is the sign-out the gateway sends when a client is gone.                *)
(*                                                                         *)
(* Chat servers and clients come and go as the pool of module ClientPool   *)
(* and the registry of module Server have it; the service names under      *)
(* which the gateway knows clients are those it depends on.                *)
(***************************************************************************)
EXTENDS Packet, FiniteSets

CONSTANTS Channel,      \* the channels of the gateway, by id
          Service,      \* the chat servers
          Gate,         \* the gateway's ServiceID
          None,
          Written,      \* what a client may write into the header of each message:
                        \* commands and metas
          MaxMsg,       \* bound: the messages of clients
          MaxChange,    \* bound: the chat servers that come or go
          MaxAnswer     \* bound: the packets chat servers push back

\* Messages are numbered: no channel's id is a number.
ASSUME GatewayAssumption ==
    /\ None \notin Channel \cup Service \cup {Gate}
    /\ MaxMsg \in Nat /\ MaxChange \in Nat /\ MaxAnswer \in Nat
    /\ IsFiniteSet(Channel) /\ Channel \cap 1 .. MaxMsg = {}

VARIABLES
    on,                 \* the channels in the registry
    sent,               \* whose the n-th message was, and its packet if it
                        \* arrived whole
    at, packet, dest,   \* each goroutine: its place, packet and chat server
    pool, changes,      \* the adult clients of service "chat", and how often
                        \* they changed
    inbox,              \* what arrived at each chat server
    taken,              \* what arrived and was answered, by place in the inbox
    link,               \* the frames of each chat server's, not yet read
    answers,            \* how many there were
    out                 \* what was pushed to each channel

handling  == <<at, packet, dest>>
servers   == <<pool, changes>>
answering == <<taken, link, answers>>
vars == <<on, sent, handling, servers, inbox, answering, out>>

Msg == 1 .. MaxMsg

\* The goroutines: of messages, and of the end of a connection.
Task == Msg \cup Channel

\* Init of the container was given SNChat and SNLogin.
Dependencies == {SNChat, SNLogin}

Init ==
    /\ on = Channel /\ sent = <<>>
    /\ at = [t \in Task |-> "none"]
    /\ packet = [t \in Task |-> None]
    /\ dest = [t \in Task |-> None]
    /\ pool = Service /\ changes = 0
    /\ inbox = [s \in Service |-> <<>>]
    /\ taken = {} /\ answers = 0
    /\ link = [s \in Service |-> <<>>]
    /\ out = [c \in Channel |-> <<>>]
-----------------------------------------------------------------------------
(***************************************************************************)
(* A client's packet; or a part of one, when a websocket message came in   *)
(* several frames, each of which Readloop takes for a whole.  The header   *)
(* is the client's own: the number it gave, and metas, which nobody takes  *)
(* out.                                                                    *)
(***************************************************************************)
ClientPackets(n) ==
    {AddMeta(New(h.command, 0, n, "", "", <<1, 2>>), h.meta) : h \in Written[n]}
        \cup {BasicPkt(CodePing)}

ASSUME NoPacket == \A n \in Msg : None \notin ClientPackets(n)

Parts(n) == {Front(Marshal(p)) : p \in ClientPackets(n)}

Readloop(c) ==
    LET n == Len(sent) + 1
        Arrives(p, bytes) ==
            /\ sent' = Append(sent, [from |-> c, pkt |-> p])
            /\ packet' = [packet EXCEPT ![n] = bytes]
    IN  /\ c \in on /\ n \in Msg
        /\ \/ \E p \in ClientPackets(n) : Arrives(p, Marshal(p))
           \/ \E bytes \in Parts(n) : Arrives(None, bytes)
        /\ at' = [at EXCEPT ![n] = "receive"]
        /\ UNCHANGED <<on, dest, servers, inbox, answering, out>>

Goes(t, place, p, s) ==
    /\ at' = [at EXCEPT ![t] = place]
    /\ packet' = [packet EXCEPT ![t] = p]
    /\ dest' = [dest EXCEPT ![t] = s]
    /\ UNCHANGED <<on, sent, servers, taken, link, answers>>

\* The goroutine ends, with or without an error: an error is only logged.
Ends(t) == Goes(t, "done", None, None)

Ag(m) == sent[m].from

ReceiveFails(m) ==
    /\ at[m] = "receive" /\ ~Read(packet[m]).ok
    /\ Ends(m) /\ UNCHANGED <<inbox, out>>

ReceivePing(m) ==
    LET r == Read(packet[m])
    IN  /\ at[m] = "receive" /\ r.ok /\ r.val.kind = "basic"
        /\ out' = IF r.val.code = CodePing
                  THEN [out EXCEPT ![Ag(m)] = Append(@, Marshal(BasicPkt(CodePong)))] ELSE out
        /\ Ends(m) /\ UNCHANGED inbox

\* Forward refuses a packet without a command or a channel, and lookup a
\* service the gateway does not depend on.
Forward(t, service, p) ==
    IF p.header.command = <<>> \/ p.header.channelId = "" \/ service \notin Dependencies
    THEN Ends(t)
    ELSE Goes(t, "select", p, None)

Stamp(m, p) == [p EXCEPT !.header.channelId = Ag(m)]

Receive(m) ==
    LET r == Read(packet[m])
    IN  /\ at[m] = "receive" /\ r.ok /\ r.val.kind = "logic"
        /\ Forward(m, ServiceName(r.val.header), Stamp(m, r.val))
        /\ UNCHANGED <<inbox, out>>

\* The connection ended: a sign-out for its channel.
Disconnect(c) ==
    /\ c \in on /\ at[c] = "none"
    /\ at' = [at EXCEPT ![c] = "select"]
    /\ packet' = [packet EXCEPT ![c] = New(CommandLoginSignOut, 0, MaxMsg + 1, c, "", <<>>)]
    /\ on' = on \ {c}
    /\ UNCHANGED <<sent, dest, servers, inbox, answering, out>>
-----------------------------------------------------------------------------
(***************************************************************************)
(* lookup and Send.  The order of a sync.Map is any, so the hash of the    *)
(* channel picks any of the adult clients.                                 *)
(***************************************************************************)
UncheckedSelect(t) ==
    /\ at[t] = "select"
    /\ \E s \in pool \cup {None} : Goes(t, "get", packet[t], s)
    /\ UNCHANGED <<inbox, out>>

Select(t) ==
    /\ at[t] = "select"
    /\ \/ pool = {} /\ Ends(t)
       \/ \E s \in pool : Goes(t, "get", packet[t], s)
    /\ UNCHANGED <<inbox, out>>

MismarkedGet(t) ==
    /\ at[t] = "get"
    /\ IF dest[t] \in pool
       THEN Goes(t, "send", AddStringMeta(packet[t], MetaDestServer, dest[t]), dest[t])
       ELSE Ends(t)
    /\ UNCHANGED <<inbox, out>>

Get(t) ==
    /\ at[t] = "get"
    /\ IF dest[t] \in pool
       THEN Goes(t, "send", AddStringMeta(packet[t], MetaDestServer, Gate), dest[t])
       ELSE Ends(t)
    /\ UNCHANGED <<inbox, out>>

\* Two clients hold each their own connection: a Send reaches the chat server
\* it was made for, whether the pool still holds the client or not.
Send(t) ==
    /\ at[t] = "send"
    /\ inbox' = [inbox EXCEPT ![dest[t]] = Append(@, Marshal(packet[t]))]
    /\ Ends(t) /\ UNCHANGED out

\* A Send that fails and goes on with another chat server's client.
RetrySendFails(t) ==
    /\ at[t] = "send"
    /\ inbox' \in {inbox, [inbox EXCEPT ![dest[t]] = Append(@, Marshal(packet[t]))]}
    /\ Goes(t, "select", packet[t], None) /\ UNCHANGED out

SendFails(t) == at[t] = "send" /\ Ends(t) /\ UNCHANGED <<inbox, out>>

\* A chat server's client is lost, or becomes adult.
PoolChanges(s) ==
    /\ changes < MaxChange /\ changes' = changes + 1
    /\ pool' \in {pool \ {s}, pool \cup {s}} \ {pool}
    /\ UNCHANGED <<on, sent, handling, inbox, answering, out>>
-----------------------------------------------------------------------------
(***************************************************************************)
(* A chat server pushes to the gateway.  The dispatcher names the          *)
(* receivers and container.Push the gateway, in this order; TestReadPkt    *)
(* has them the other way round behind a meta of its own.  An error is     *)
(* answered by RespErr, which names neither.  The gateway named is the     *)
(* first the packet names, a client's own before the one it came through.  *)
(***************************************************************************)
Pushed(p) ==
    LET q == NewFrom(p.header)
        receivers == Meta(MetaDestChannels, <<p.header.channelId>>)
        server == Meta(MetaDestServer, GetMeta(p, MetaDestServer).val)
    IN  {q, AddMeta(AddMeta(q, <<receivers>>), <<server>>),
         AddMeta(q, <<Meta("test", "test"), server, receivers>>)}

\* The chat server of this repository writes OpBinary only; the protocol of
\* frames knows text too, and readloop expects it.
Answer(s) ==
    /\ answers < MaxAnswer
    /\ \E i \in DOMAIN inbox[s] :
          /\ <<s, i>> \notin taken
          /\ taken' = taken \cup {<<s, i>>}
          /\ \E q \in Pushed(Read(inbox[s][i]).val), op \in {"binary", "text"} :
                link' = [link EXCEPT ![s] = Append(@, [op |-> op, payload |-> Marshal(q)])]
    /\ answers' = answers + 1
    /\ UNCHANGED <<on, sent, handling, servers, inbox, out>>

\* Delivery of a packet by Srv.Push, which knows the channels still there.
PushTo(ids, payload) ==
    [c \in Channel |-> IF c \in on /\ Contains(ids, c) THEN Append(out[c], payload) ELSE out[c]]

\* The packet is for this gateway and has receivers.
ForMe(p) ==
    /\ GetMeta(p, MetaDestServer).ok /\ GetMeta(p, MetaDestServer).val = Gate
    /\ GetMeta(p, MetaDestChannels).ok

Stripped(p) == DelMeta(DelMeta(p, MetaDestServer), MetaDestChannels)

ReadFrame(s) ==
    /\ link[s] # <<>>
    /\ link' = [link EXCEPT ![s] = Tail(@)]
    /\ UNCHANGED <<on, sent, handling, servers, inbox, taken, answers>>

PushMessage(s) ==
    LET r == MustReadLogicPkt(Head(link[s]).payload)
    IN  /\ ReadFrame(s)
        /\ Head(link[s]).op # "binary" /\ r.ok /\ ForMe(r.val)
        /\ out' = PushTo(GetMeta(r.val, MetaDestChannels).val, Marshal(Stripped(r.val)))

Skip(s) ==
    LET r == MustReadLogicPkt(Head(link[s]).payload)
    IN  /\ ReadFrame(s)
        /\ Head(link[s]).op = "binary" \/ ~r.ok \/ ~ForMe(r.val)
        /\ UNCHANGED out
-----------------------------------------------------------------------------
Handle(m) == ReceiveFails(m) \/ ReceivePing(m) \/ Receive(m)
Forwarding(t) == Select(t) \/ Get(t) \/ Send(t) \/ SendFails(t)
Reading(s) == PushMessage(s) \/ Skip(s)

Next ==
    \/ \E c \in Channel : Readloop(c) \/ Disconnect(c)
    \/ \E m \in Msg : Handle(m)
    \/ \E t \in Task : Forwarding(t)
    \/ \E s \in Service : PoolChanges(s) \/ Answer(s) \/ Reading(s)

Spec == Init /\ [][Next]_vars
-----------------------------------------------------------------------------
Places == {"none", "receive", "select", "get", "send", "done"}

TypeOK ==
    /\ on \subseteq Channel /\ Len(sent) <= MaxMsg
    /\ at \in [Task -> Places] /\ dest \in [Task -> Service \cup {None}]
    /\ \A t \in Task : dest[t] # None <=> at[t] \in {"get", "send"}
    /\ \A t \in Task : at[t] \in {"none", "done"} => packet[t] = None
    /\ \A t \in Task : at[t] \in {"select", "get", "send"} =>
          packet[t].kind = "logic" /\ packet[t].header.channelId \in Channel
    /\ pool \subseteq Service /\ changes <= MaxChange
    /\ \A s \in Service : Len(inbox[s]) <= Cardinality(Task)
    /\ answers = Cardinality(taken) /\ answers <= MaxAnswer

Has(p, key) == Cardinality({i \in DOMAIN p.header.meta : p.header.meta[i].key = key})

\* What reaches a chat server can be read, and is what a client sent as a whole
\* packet, or the sign-out of a client that is gone, under the channel it came
\* by; behind the metas a client sent comes the gateway's name and nothing else.
CarriesOrigin ==
    \A s \in Service : \A i \in DOMAIN inbox[s] :
        LET r == MustReadLogicPkt(inbox[s][i])
            h == r.val.header
            n == h.sequence
        IN  /\ r.ok /\ r.rest = <<>>
            /\ \/ /\ n \in DOMAIN sent /\ sent[n].pkt # None /\ h.channelId = sent[n].from
                  /\ h.command = sent[n].pkt.header.command /\ r.val.body = sent[n].pkt.body
                  /\ h.meta = sent[n].pkt.header.meta \o <<Meta(MetaDestServer, Gate)>>
               \/ /\ h.command = CommandLoginSignOut /\ h.channelId \in Channel \ on
                  /\ h.meta = <<Meta(MetaDestServer, Gate)>>

\* No message of a client's is handled by two chat servers, or twice by one.
HandledOnce ==
    \A s1, s2 \in Service : \A i \in DOMAIN inbox[s1], j \in DOMAIN inbox[s2] :
        LET p == Read(inbox[s1][i]).val.header
            q == Read(inbox[s2][j]).val.header
        IN  p.sequence = q.sequence /\ p.channelId = q.channelId => s1 = s2 /\ i = j

\* A client gets pongs, one for each ping at most, and the answers to its own
\* packets, without the metas that led them to it and with the others.
OwnAnswers ==
    \A c \in Channel :
        LET got == [i \in DOMAIN out[c] |-> Read(out[c][i]).val]
            pings == {n \in DOMAIN sent : sent[n] = [from |-> c, pkt |-> BasicPkt(CodePing)]}
        IN  /\ Cardinality({i \in DOMAIN got : got[i].kind = "basic"}) <= Cardinality(pings)
            /\ \A i \in DOMAIN got :
                  got[i].kind = "logic" =>
                      /\ got[i].header.channelId = c
                      /\ got[i].header.sequence \in DOMAIN sent
                      /\ sent[got[i].header.sequence].from = c
                      /\ Has(got[i], MetaDestServer) = 0 /\ Has(got[i], MetaDestChannels) = 0
                      /\ Has(got[i], "test") = Len(got[i].header.meta)
=============================================================================
