# kingim in TLA+

A verification development of kingim, an instant-messaging server in Go. It
models the parts of `src/` in which several goroutines, connections or
processes meet, checks them with TLC on small instances and proves the central
safety properties with TLAPS for every value of the constants.

## 1. The system

A **client** connects over websocket to a **gateway**. The gateway is a
*container*: it runs a *server* towards its clients, keeps *clients* (tcp
connections) to the services it depends on, finds these through a *naming*
(consul), forwards what its users send and pushes to its users what the
services answer. The **chat server** is a container of the same kind (tcp server
towards the gateways) whose handlers do login, talk, group and offline
commands; it keeps sessions in redis and calls the **message service** (http,
mysql, redis) which stores messages and their per-account indexes.

| Component | State it keeps | Operations | Meets | What is hard | What makes it correct |
|---|---|---|---|---|---|
| Channel (`channel.go`, `event.go`, `tcp/connection.go`, `websocket/connection.go`) | `writechan` (5), connection, lock of Readloop, `closed` event | Push, writeloop, Readloop, WriteFrame, Close | server, handlers, peer | three goroutines on one connection; write errors; full buffer; close | order and exactly-once of accepted payloads, whole frames, no goroutine or push stuck, release on the end of a connection |
| Server (`tcp/server.go`, `websocket/server.go`, `channels.go`) | channel map, `once` of Shutdown | Start/Accept, Push, Shutdown | channels, handlers | accept against shutdown; hidden Acceptor | one channel per id, every channel removed and closed, Shutdown reaches all |
| Container (`container/*.go`) | state, `srvclients`, client maps, service states young/adult | Init, Start, connectToService, buildClient, readloop, pushMessage, Forward/lookup, shutdown | naming, tcp client, server | two builders, timers, failing connections, lookups at once | one live client per service, none lost, only adults used, every loop ends |
| tcp/websocket client (`tcp/client.go`, `websocket/client.go`) | state 0/1, connection, `once` | Connect, Send, ping, Read, Close | dialer, container | ping against Send; reconnecting | whole frames; Close closes |
| Naming (`naming/consul/naming.go`) | watches, wait index | Register, Deregister, Find, Subscribe, Unsubscribe, watch | consul, container | blocking load against Unsubscribe | no callback after Unsubscribe was seen; no busy loop |
| Sequence (`wire/seq.go`) | a 32-bit counter | Next | packets, channel ids | wrap-around with several callers | highest value kept back, no value twice in a lap |
| Gateway handler (`services/gateway/serv`) | none | Receive, Disconnect (and Accept, never called) | container | one goroutine per message; chat servers that come and go | what arrives carries its origin, behind what the client wrote, and is handled once; a client gets its own answers |
| Chat server handler, context, router (`services/server/serv`, `context.go`, `router.go`) | pooled contexts | Receive, Serve, Resp, Dispatch | sessions, container | reuse of contexts; several gateways | each request answered once; each receiver pushed to |
| Login and session storage (`login_handler.go`, `storage/redis_impl.go`) | two redis keys per session | DoSysLogin, DoSysLogout, Add, Delete, Get* | redis, Dispatch | concurrent logins; half-done Add; late logout | location names the newest live session; at most one per account |
| Talk, group, offline handlers and their http clients (`services/server/handler`, `services/server/service`) | none | DoUserTalk, DoGroupTalk, DoCreate, ... | message service, Dispatch | errors in the middle | stored before pushed, sender acknowledged |
| Message service (`services/service`) | message index, content, group tables; read position | insert, ack, offline index and content, groups | mysql, redis | late insert or ack | every message is synchronised exactly once |
| Packets (`wire/pkt`, `wire/endian`) | meta list | AddStringMeta, DelMeta, GetMeta, Marshal | all | mutation while ranging | what was added is found, what was deleted is not |
| Report (`report/report.go`) | counters, result channel | Add, Finalize | benchmarks | Finalize against collector | every result counted |

Logging, configuration, tokens, generated code, mocks and the examples hold no
protocol of their own and are not modelled; `PROJECT.json` lists each.
`examples/unittest` and `naming/consul/naming_test.go` are read as statements of
what the services promise.

## 2. The modules

| Module | Models | Proofs | Instance |
|---|---|---|---|
| `Outbox` | what a channel promises to those who push (abstract) | | |
| `Channel` | one accepted connection: writer, reader, pushers; implements `Outbox` | `ChannelProofs` | `MCChannel` |
| `Server` | the connections of a server, their registry, Shutdown; a channel is its queue's length and its writer's life | in `ContainerProofs` | `MCContainer` |
| `Container` | extends `Server`: Init, Start, readloop and pushMessage of each client, shutdown | `ContainerProofs` | `MCContainer` |
| `ClientPool` | the clients a container builds for a dependency | `DependencyProofs` | `MCClientPool` |
| `Client` | a tcp or websocket client over time | `ClientProofs` | `MCClient` |
| `Naming` | a name's watches over consul | `DependencyProofs` | `MCNaming` |
| `Packet` | packets: making, marking, bytes and back (operators, no state) | in `GatewayProofs` | `MCGateway` |
| `Gateway` | extends `Packet`: the gateway's handler, Forward, lookup and pushMessage | `GatewayProofs` | `MCGateway` |
| `Session` | sign-in and sign-out over redis | `SessionProofs` | `MCSession` |
| `Talk` | the talk, group and synchronisation handlers over the message service | `TalkProofs` | `MCTalk` |
| `MessageStore` | the message service: storing, acknowledging, offline synchronisation | `MessageStoreProofs` | `MCMessageStore` |
| `Sequence` | `wire/seq.go` | in `GatewayProofs` | `MCSequence` |

`Sequence` and `Naming` carry their name in their definitions (`SeqNext`,
`NamingNext`, `FairNaming`), since a proof module extends them beside another:
`GatewayProofs` has the packets and the numbers they are given, `DependencyProofs`
the naming and the clients built from what it finds.

`Container` composes `Server` with the clients that push to it; `Gateway`
composes clients, the handler, the container's forwarding and the chat servers at
the other end. A module takes its neighbours in the form their own modules give
them: `Server`'s queue is what `Outbox` promises, `Gateway`'s pool changes as
`ClientPool`'s does, `Talk`'s accounts move as `Session` lets them.

Definitions whose name says what is wrong with them (`UncheckedDial`,
`StoreSwap`, `RetriedReplied`, ...) stand before the action they alter. They are
plausible mistakes in that action: putting one in its place breaks the property
`PROJECT.json` pairs it with, which shows that the property depends on the code.

### Channel

*State.* `writechan` is the buffered Go channel; `wpc`, `cur`, `piece`, `left`
are writeloop's place, its `payload`, the writes it made of the frame, and
`charlen - i`; `rpc`, `rpiece`, `pings` are those of the goroutine that runs
Readloop; `registered` is the entry in the server's channel map; `conn` is this
side of the socket; `pc`, `payload` are the pushers' place and argument. `tail`
and `garbled` abstract the bytes on the connection to what a parser needs: who
owns the frame left unfinished at the end, and whether a byte ever stood where
it does not belong. `accepted` and `written` are histories.

*Actions.* Pushers: `ServerPush` (found in the registry), `Receive` (the goroutine
`go lst.Receive(ch, payload)`), `Push`, `Enqueue`. Writer: `Take`, `WritePiece`,
`WriteFail`, `ReadLen`, `Drain`, `Flush`. Connection goroutine: `Add`, `ReadPing`,
`WritePong`, `PongFail`, `ReadEnds`, `Remove`, `Disconnect`, `Close`. Shutdown:
`ShutdownList`, `ShutdownClose`. A frame takes `Pieces` calls of Write (3 over tcp,
2 over websocket, one less for a pong, whose payload is empty); a call is
atomic since `net.Conn` serialises writes. A failing write may leave a part of
its piece on the wire. Nothing fires the `closed` event, so `HasFired` is FALSE.

*Left out.* Payload contents; listeners are assumed to return from `Disconnect`.

### Server and Container

*State.* `place` is the goroutine of each connection from Accept to Close, `id`
and `registry` the ChannelMap, `open` its socket, `queued` and `writer` its
outgoing side; `shutting`, `listed`, `timedOut` are Shutdown. `main` is the
goroutine of Start, `named` whether consul lists the process; `reading`, `frames`,
`to`, `channel` are readloop and pushMessage of each client. Histories: `after` (added
after Shutdown listed the channels), `owed` and `box` (who was there when a packet
was read; what each channel accepted).

*Actions.* `Accept`, `Add`, `ReadEnds`, `Remove`, `Disconnect`; `Write`, `WriteFails`;
`ShutdownList`, `ShutdownClose`, `ShutdownEnds`; `InitContainer`, `Start`, `Register`,
`Signal`, `ShutdownServer`, `Deregister` or `DeregisterFails`, `Exit`; `ReadFrame` with
`Skip` or `PushMessage`; `Lookup` or `LookupFails`, `Send`, `ReadFails`. `Dies` ends the
process at any point, as the nil connection of a failing Accept does
(tcp/server.go:67-76), and it starts again with nothing in memory.

Both servers define an `Accept` of their own, which hides the Acceptor the services
set and hands out fresh ids (ksuid). So the `Accept` of the gateway and of the chat
server never runs: nothing checks a token, the handshake frame is read as a
message and dropped, and the branch for an id in use is never taken.

The receivers a packet names are taken to be distinct, as they are when no location
is handed to Dispatch twice (context.go:94-104); `InOrderOnce` relies on it.

### ClientPool

*State.* `pool` is the `ClientMap` of one dependency; an entry is named by the
batch it came from (0 for Find, 1, 2, ... for the calls of the Subscribe
callback) and its service id, because each entry of a batch has a Meta map of
its own. `bpc`, `todo`, `service` are the loop over a batch and its loop variable;
`timers` counts the ten-second timers of a batch, which are interchangeable
since their closures capture the same loop variable; `meta` is `service_state`;
`lock` is the container's mutex; `cli` is the life of a client and its reading
goroutine.

*Actions.* `Begin`, `SkipKnown`, `Watched`, `Found`, `End`, `TimerFires`
(connectToService); `AlreadyBuilt`, `Dial`, `DialFails`, `Connected`, `AddClient`
(buildClient); `ReadFails`, `RemoveClient` (the goroutine around readloop). A timer
fires at any time after it was started.

*Left out.* The other dependencies of the container, which only delay the lock;
what is sent on a client (`Gateway`). A dialer that returns neither connection nor
error is taken for one that fails.

### Client

*State.* `kind` chooses between the two files, which differ in three places (the
module's head names them). `state`, `conn`, `once` are the fields; `sock`, `peer` the
two ends of each connection; `deadline`, `pong`, `beat` count ticks; `lock`, `place`,
`piece`, `to` are the writers (senders, heartbeats, Close); `reader` the goroutines in
Read; `tail`, `garbled`, `cutShort` the byte stream as in `Channel`.

*Actions.* `Connect`, `DialFails`, `Connected`; `Send`, `SetDeadline`, `Lock`, `Ping`,
`WritePiece`, `WriteFails`, `Unlock`; `Close`, `CloseConn`, `Reset`; `Reads` and its ends
(`ReadPong`, `ReadFrame`, `ReadFails`, `ReadTimesOut`); `PeerStops` and `Tick` (the peer,
time). A tick passes when nobody has anything left to do: what the program does is
quick beside waits of seconds. The exception is `Stuck`: over tcp neither Send nor
ping sets a deadline for its write (client.go:118 and 166 set the one for reads), so
a write to a peer that fell silent may take any time, holding the lock, and need
not end; `WritePiece` lets it end as long as there is room, fairness does not ask
for it, and the Closer may be stuck in the same way. `sends` counts the calls of
Send between two ticks, which `MaxSend` bounds: a client may go on sending for ever.

### Naming

*State.* `catalog` is the history of consul's answers, an index each, `cached` the one
its caches serve; `up` whether it answers; `watchs`, `place`, `waitIndex`, `answer`, `quit`
are the watches of a name; `called` and `late` what the subscriber saw.

*Actions.* `Register`, `Deregister`, `Check`, `Outage` change consul; `Find`, `Subscribe`,
`Unsubscribe` are the callers'; `Load`, `LoadFails`, `Stop`, `LearnIndex`, `GoOn`,
`Callback` are doWatch, one step per place where it can be overtaken.

*Left out.* An index that starts again from nothing, as after the loss of consul's
data: in an outage consul is away and comes back as it was.

### Packet and Gateway

`Packet` has the code's own readers and writers as operators on sequences of bytes:
numbers in two or four bytes (`Uint16`, `Uint32`, and `Value16`, `Value32` back), byte strings under their length, the two magics, a
header (opaque to everything but protobuf, whose coding is external) and a body.
A basic packet has a field `length` of its own, which nobody derives from the body:
Encode writes the body only when that field is positive.
`DelTurn` is one turn of DelMeta's loop (`DelLoop`), which deletes from the list it
ranges over.

`Gateway` sends real bytes through them. `Readloop` receives a packet of a client
or a part of one; `ReceiveFails`, `ReceivePing`, `Receive` are the handler;
`Forward`, `Select`, `Get`, `Send`, `SendFails` the container; `Disconnect` the sign-out;
`PoolChanges` the pool; `Answer` a chat server, in each form an answer has in the
code and its tests; `PushMessage` and `Skip` readloop at the gateway. Each message
and each disconnect is a goroutine of its own. `Written` is what clients put into
their headers, commands and metas: nobody takes a client's metas out
(handler.go:101-104), the gateway appends its own, and GetMeta returns the first. So
a client that writes a "dest.server" of its own has the answers to its packet
addressed there; what `CarriesOrigin` promises is that the gateway's mark stands
behind the client's metas, once.

What this showed of the present system: chat servers answer in binary frames
only, which readloop skips (container.go:243), and `container.Push` (line 282) looks
for a channel under the gateway's service id, which no channel has; so no answer
reaches a gateway at all. `Answer` therefore takes text frames too, which the
frame protocol has, to check the other half. A sign-in is forwarded to the service
named by its command, "login", which the gateway does not depend on, so it is
refused; only the sign-out of Disconnect is sent. The order of messages of a
client is not kept: each has its goroutine, and lookup hashes into a list whose
order is that of a `sync.Map`.

### Session

*State.* `loc` and `sn` are the two keys of redis; `pc`, `kind`, `acct`, `chan`, `old`,
`answer` a packet in its handler. Histories: `kicked`, `contended` (sign-ins of an
account that overlapped), `disturbed`, `torn` (what a failure, an expiry or a sign-out
may have touched).

*Actions.* `ReceiveSignIn`, `ReceiveBadBody`, `ReceiveOther` and `Refuse`,
`ServeSignOut`; `Located`,
`NotLocated`, `LocateFails`; `Dispatch`; `SetLocation`, `SetSession` and their failures
(Add); `DelLocation`, `DelSession` and theirs (Delete); `ExpireLocation`,
`ExpireSession`; `Crash`. A packet that cannot be read is dropped without an answer
(handler.go:54-57) and is left out. A notice to go counts as sent (`kicked`) even
when its push failed, since DoSysLogin ignores the error (login_handler.go:32).
Receive refuses every packet but a sign-in, on each of its
branches (handler.go:72), and only the login handlers are registered
(server.go), so a sign-out is modelled as Serve would take it. Location keys are
taken without their device.

### Talk

*State.* `loc` is the location of each account; `pc`, `command`, `chan`, `dest`,
`tries`, `inserted`, `found` a request in its handler; histories `copies` (how often
the service carried it out), `unheard` (with its reply lost), `pushed`, `told`, `answers`,
`where` (where its receiver was meanwhile), `undone` (a step behind the insertion
failed).

*Actions.* `Serve`, `ReadBody`, `BadBody`; `Located`, `NotLocated`, `LocateFails`;
`Replied`, `Refused`, `TimesOut` (an attempt of a call: resty repeats what failed
without a reply, up to `Attempts` in all, four in the code); `GetLocations`,
`NobodyOnline`, `GetLocationsFails`; `Dispatch`, `DispatchFails`; `Resp`, `Panic`; `Move`
and `Crash`. `Routes` are the commands whose method and route the service serves. In
the code MessageHttp uses GET where services/service/server.go routes POST, so
its calls are refused; the instance serves all routes, to reach what follows.

### Sequence

One action per atomic operation: `Add`, `Swap`, `SwapFails`. `lap` and `issued`
record what was returned in which round of the counter.

### MessageStore

*State.* `content`, `index` and `members` are the tables; `ack` is the read position
in redis; `sent` holds requests between the chat server, which took their time of
sending, and the service; `pc`, `req`, `start`, `page` are a request for indexes in
its handler; `cursor` is the message a device pages on from. Histories: `got` and
`handed` are what a device (since its cold start) and an account were handed,
`late` the rows stored when a row sent no earlier had been read, `relook` whether
the service missed the message it was asked to go on from.

*Actions.* `Talk` (chat server); `InsertUser`, `InsertGroup`, `InsertFails`;
`GroupCreate`, `GroupJoin`; `MessageAck`, `AckExpires`; the index handler in three
steps, `GetSentTime` or `GetSentTimeFails`, `Find`, `Answer` or `SyncFails`, begun by
`Sync`. Of external code it is assumed that a mysql transaction is atomic, that
rows of equal time come in any order, that gorm refuses to create no rows and to
delete without a key, and that redis either refuses a life of 15 nanoseconds or
soon forgets the value.

*Left out.* Bodies, and the handlers that only read (contents, members, group).
A device goes on from the last message of its last page, or starts cold, and
acknowledges messages it was handed; acknowledging a pushed message that was not
synchronised is left out. The chat server calls these routes with
another method than they are registered for (`services/server/service/message.go`),
so they are modelled as their own interface, not as reached through it.

## 3. The runs

| Run | Instance | Shows |
|---|---|---|
| `channel` | 2 pushers, buffer 2, 4 pushes, 1 ping, 2 writes a frame | order and exactly-once, the drain loop never waits, only a pong breaks a frame; implements `Outbox` with progress; an ended connection is released; a push hangs only when the writer is gone |
| `pool` | 2 services, Find and 1 callback | never two clients of a service, live ones found, Remove hits its own; loops end; a client that was lost leaves |
| `sequence` | 3 callers, 5 values, 3 laps | highest value kept back, no value twice in a lap |
| `store_safety` | 2 accounts, 1 group, 1 device, 2 messages, pages of 1, a day of 2 ticks | only late, expired, simultaneous messages are passed over, if no pushed message is acknowledged; paging on repeats nothing |
| `session` | 1 account, 2 channels, 3 packets, failures, expiry, crash | the newest sign-in is located, with its session, but for named causes; every packet that can be read is answered |
| `naming` | 1 instance, 2 watches, 3 indexes, outages | one late callback at most, nothing goes backwards but by it; watches end; subscribers catch up |
| `container_push` | 2 connections, 1 client, queue of 1, 3 packets | nobody is forgotten, order and once, a push ends or is stuck on a dead writer |
| `container_life` | 3 connections, Shutdown, restarts | a live connection is registered; what Shutdown leaves open came late |
| `talk` | 2 accounts, 3 channels of 2 gateways, 1 request, 4 attempts | stored before told or pushed; an error bounds what was stored by the replies lost and the later step that failed; a push goes to all found at one gateway and to nobody else |
| `client` | both kinds, 2 connections, 2 senders, 2 sends between two ticks | one connection; frames of Send never mix; heartbeats keep a connection and notice silence, over tcp once Sends cease; goroutines end |
| `gateway` | 2 clients, 2 chat servers, 2 messages with or without a "dest.server" of their own, 1 change of the pool, 1 answer | origin carried, handled once, own answers only |
| `session_first` | 1 account, 1 channel, 1 packet | **violated**: the first sign-in of an account is refused |

Type invariants are proved (section 4); the runs of `PROJECT.json` check only those
of `Client` and `Gateway` again. Further configurations can be run by hand, `tlc -config X.cfg M`.
Two that pass: `MCTalkAnswers.cfg` (every request answered, once, and carried out
once for each reply) and `MCContainerShutdown.cfg` (a shutdown leaves the naming and
ends). Those that end in a counterexample, with `MCClientPoolLast.cfg`, which passes,
beside the first:

| Configuration | What it shows of the code |
|---|---|
| `MCClientPoolYoung.cfg` | of the new services of one callback only the last becomes adult (container.go:144, Go 1.16 loop variable), the others are never used |
| `MCClientPoolGhost.cfg` | a connection lost before clients.Add (container.go:198, 206) leaves a closed client that blocks rebuilding |
| `MCChannelFrames.cfg` | a pong and a data frame mix their bytes (channel.go:126) |
| `MCChannelExit.cfg` | the writer of an idle closed connection waits for ever (channel.go:68; nothing fires `closed`) |
| `MCMessageStoreLate.cfg` | a message stored after a later one was synchronised is never handed out (message_handler.go:178) |
| `MCContainerStuck.cfg` | one full queue with a dead writer keeps every later receiver waiting (container.go:274) |
| `MCClientBusy.cfg` | over tcp a client that sends oftener than WriteWait never notices that its peer fell silent: each Send puts the read deadline off (tcp/client.go:118; `BusyNoticesSilence`) |
| `MCTalkOffline.cfg` | a talk to a receiver that is not online is refused, not stored (chat_handler.go:39 against line 43 and offline_test.go:24) |

The finding listed: `GetLocation` answers redis.Nil for a missing key and
ErrSessionNil for every other error (redis_impl.go:74-78), while DoSysLogin takes
everything but ErrSessionNil for a failure (login_handler.go:27).

What the passing properties have to except says more:

* `PushReturnsOrWriterGone`: after a write error the writer is gone (channel.go:52),
  pushes fill the buffer and the next one hangs; `PushEndsOrStuck` has the same.
* `NothingTwice` excepts `relook`: the rows of a group's message carry an id
  (message_handler.go:95) that no content row has (line 120), against model.go:16.
* `AckExpires` is always possible: the read position is kept for
  OfflineMessageExpiresIn, 15 nanoseconds (message_handler.go:160).
* `OpenCameLate`: the listener is never closed.
* `KeptAlive`: Send and ping over tcp set the read deadline instead of the write
  deadline (client.go:118, 166), which gives up live peers after a Send. It also puts
  off noticing a silent one: `SilenceNoticed` supposes that Sends over tcp cease, and
  `ClientAssumption` that the loops of pings left by reconnections are few (from six
  connections on they never let the deadline come). Close runs
  once, so after a reconnection it does nothing. A websocket dialer that leaves its
  own deadline set ends a client without heartbeats.
* `NewestIsLocated`: overlapping sign-ins do not see each other
  (login_handler.go:26), and a late sign-out deletes its successor's location.
* `RefusedIsNotStored`: a reply that was lost makes the next attempt store again, and
  a group message of which the later steps fail, as when nobody is online
  (chat_handler.go:118), is stored although its sender is told SystemException.
* `AnsweredOnce`: without a destination a talk is refused and then served
  (chat_handler.go:28, 83 lack a return). `EveryRequestAnswered` of `Talk`: DoCreate
  never answers success.
* DoGroupTalk loses the error of InsertGroup (chat_handler.go:96, 107), panics on the
  nil response, and gives Dispatch no receivers; Dispatch itself returns in the
  first turn of its loop (context.go:111), so one gateway's receivers get the packet.

### Bounds

`Cap` = 2 stands for 5: full, partly filled and empty all occur, and a drain
loop of two turns with pushes in between. With `MaxMsg` = 4 a frame can be in
flight, two payloads queued and a pusher blocked; two writes a frame put a pong
between them. Two services in a batch are the fewest for which the loop variable
differs from the entry, and Find with one callback builds each service twice. Five
values and three callers let one caller sleep a whole lap. Two messages in pages
of one give a page cut between equal times and a message stored behind the
position. Three packets of two channels are a sign-in, its successor and a late
sign-out. Three indexes let an instance come, go and come back between two loads;
two watches are a subscription and the one after it. A queue of one is full after
one push; three packets fill queue, writer and the push that waits; two or three
connections are one that is reached, one that fails and one that comes late. Four
attempts are the code's own; three channels on two gateways separate "another
channel" from "another gateway". Waits of the client keep the order of the code's
(WriteWait 10 s, heartbeat 55 s, ReadWait 3 min in server.go:10). The gateway's
two messages and two sign-outs meet in any order at two servers; the metas of its
clients are none or a "dest.server", the one meta the way of a packet depends on. Deadlock is not
checked where the bounded environment comes to rest.

### Fairness

Goroutines that can run do: weak fairness of writers, readers, loops and
handlers. A write ends because a deadline is set for it, by a server's WriteFrame
and by the websocket client; the tcp client sets none, so of its writes to a silent
peer nothing is asked. A dial, a redis call and an http call have timeouts; a sleep ends; consul ends each wait. Strong fairness is
asked of a send on a Go channel, because Go serves blocked senders in turn, and of
taking a mutex, which Go hands to a starved waiter. Nothing is asked of peers,
callers, signals, expiry or the naming: in `Naming` the promise of progress is made
only for behaviours in which consul in the end stays up, and in `Client` a live peer
answers pings. Premises inside a property do the rest: `SilenceNoticed` speaks of
behaviours in which Sends over tcp cease, as `WatchEnds` and `CatchesUp` do of consul.

## 4. The proofs

Every theorem is `Spec => []Inv` (or an action property) from a named inductive
invariant, for all constants that satisfy the module's assumptions. Each safety
property of a passing run, invariant or action property, is such a theorem. The
assumptions say no more than that the constants are of their kind and that model
values differ from what they stand beside; three say something of the system: the order of the client's waits (`ClientAssumption`, from server.go:10 and
the dialers, and few enough reconnections, see `KeptAlive` above), finitely many
channels whose ids are not message numbers (`GatewayAssumption`: ksuids), and more
than two values of the counter.

* **Channel.** `IInv` adds to the checked invariants that a pusher and the writer
  hold real payloads (`InHand`) and that without pings the unfinished frame is
  the writer's (`Framing`). A send appends on both sides of `Conservation`, a receive
  moves the queue's head into the hand, the last write moves the hand to
  `written`. `Refinement` maps a send to `Accept`, a last write to `Deliver`, a
  failed write to `Break`, and everything else to a stutter.
* **ClientPool** (in `DependencyProofs`). `Mutex` and `Reserved` say that between
  its check and clients.Add a builder is alone and the id free; `Owned` that a client which
  still owes its Remove is in the pool or being added. Hence `OneClientPerService`,
  `LiveClientInPool`, `RemovesOnlyItself`, although Remove names only an id and takes
  no lock.
* **Sequence** (in `GatewayProofs`). What was returned lies behind the counter in
  the order of laps and values (`Behind`), so a new value was not returned in its lap.
* **MessageStore.** `ContentTimes`: a content row has the time of the index rows
  with its id, so a handler starts from the time of a row the account was handed,
  or from a day ago (`StartBehind`). A page in flight leaves out only what lies
  before that start, was stored after it was read, or ties with it (`PageGap`).
  `Follows` and `PageLater` order a device's pages, whence `NothingTwice`.
* **Session.** `Overlaps` and `StoresAlone` say that a sign-in whose history names
  no other has redis to itself from its read to its writes; `Succession` that the
  next sign-in of the account found its location, so it kicked that channel
  (`AllAtHome`). `LeavingIsTorn`: a sign-out is in the history before it deletes,
  for `LocatedHasSession`. `LocationsStored` and `OldStored` trace a location to the
  sign-in that stored it, `KicksTraced` and `Replaced` a kick to the successor that
  stores its own, for `KickedIsReplaced`.
* **Naming** (in `DependencyProofs`). `OneOpen`: one watch at most has not been told
  to quit; `OpenIsNewest` and `CalledCached` order what watches hold against what the subscriber saw;
  `LateIsLast`: after one late callback a watch can only stop.
* **Container** (with `Server`). `IdsUnique` and `EntriesLive` make the registry
  exactly the living connections; `ToClose` that Shutdown owes a close to each one it
  listed; `StillOwed` and `AtHand` follow pushMessage through its receivers, for
  `NobodyForgotten`; `Accepted` bounds what was sent by what was read, for
  `InOrderOnce`; `LeavesNaming` for the end of the process.
* **Talk.** `Counted` and `HasCopy` tie a request's place to the copies the service
  made; `Unanswered` says that what is being served was told nothing final;
  `Whereabouts` and `FoundThere` tie the location found to where the receiver was, and
  `Reaching` leads it through Dispatch; `Pushing` and `OneGateway` that what was pushed
  are the receivers at one gateway. Together they are `PushReaches`.
* **Client.** `Held`: an open connection is the one the client's field holds, and no
  other is being dialled, hence `OneConnection`. `Closes` keeps the halves of Close in
  order; `Writes` and `Locked` say who may be within a write, and holding what.
  `Frames`: a frame under way is the last thing in its stream (`Whole`) as long as
  no ping over tcp and no Close writes without the lock, hence `SendsDoNotMix`.
  `KeptAlive` is not inductive without the clocks: `InTime` says of every healthy
  connection that its read deadline lies behind the pong on its way, or behind the
  pong of the ping being written, or behind the one the next tick of the heartbeat
  asks for (`Timely`), so that the deadline is never what ends it.
* **Packets** (in `GatewayProofs`). `LogicRoundTrip`, `BasicRoundTrip`: what Marshal
  writes, Read returns, and leaves what follows it. `CutOffLogic`, `CutOffBasic`: a
  packet whose end is missing is refused, wherever it was cut. Of a basic packet
  whose length was never set the body is lost, and the theorem says so. All hold for any
  bytes shorter than what the length fields can say. `DelMetaOnly`: the loop that
  deletes from the list it ranges over takes out the meta with a key that occurs
  once, and leaves the others in order. Its proof is an induction over the turns of
  the loop, done by the least turn at which the claim would fail. Of what protobuf
  does with a header the proofs use `ProtoMarshal`'s definition: what
  it writes is read as the same header, and its length fits into four bytes.
* **Gateway.** A packet passes from its goroutine to an inbox, to a link and to a
  channel, and so does the invariant. `Tasks`, `Bounds`, `Sequences`, `Messages` give each part its form.
  `OnTheWay`: what a goroutine holds is its packet, stamped and, from `Get` on,
  marked behind its client's metas, whatever these are; `Arrived`: an inbox holds what finished goroutines had marked; `Apart`: no
  two places of the inboxes hold the same packet, whence `HandledOnce`; `Linked`: a
  frame of a chat server is an answer to something that arrived, in one of the forms
  `Pushed` lists; `Delivered`: what a channel was sent is a pong or such an answer to
  a packet of that channel, without the two metas; `Ponged` counts pongs against the
  pings that were handled. The bytes are compared through the round trips: number
  and channel tell whose packet it is, and equal bytes are equal packets.

Only model-checked: liveness under fairness, which is beyond the prover
(`Released`, `PushReturnsOrWriterGone` and the fair half of `ImplementsOutbox`;
`EveryBatchEnds`, `LostClientLeaves`; `EveryRequestAnswered`; `WatchEnds`, `CatchesUp`;
`PushEndsOrStuck`; `SilenceNoticed`, `GoroutinesEnd`). The library's induction rules
take an operator, which the provers here cannot instantiate; where a claim about a
recursive function was needed (`DelOnly`), the least counterexample does the same.

## 5. Not modelled

* `Accept` of the gateway's and the chat server's handlers, the tokens it checks and
  the handshakes: never reached (see Server).
* The load report: counters of the load generators, not of the system. Finalize
  reads them before its collector has drained the channel, and Add after it panics.
* Join, Quit and Detail of the clients of the message service: no caller.
* The router service, logging, configuration, generated code, mocks, examples: no
  state that the rest depends on.
* `srvclients` as a Go map: written by one goroutine per dependency while lookup
  reads it, a race the runtime answers by ending the process.
* In `wire/pkt`: DelMeta with a key twice in the list, which removes one too many or
  too few; the packets that reach pushMessage never have it, since NewFrom leaves a
  client's metas behind. TestReadPkt reads what Encode wrote
  without the magic that Read expects, and is not modelled as a promise.
