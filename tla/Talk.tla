-------------------------------- MODULE Talk --------------------------------
(***************************************************************************)
(* The chat, group and offline handlers of the chat server                 *)
(* (services/server/handler) over the contexts that answer and dispatch    *)
(* (context.go), the locations in redis and the clients that call the      *)
(* message service (services/server/service), which try again when no      *)
(* reply comes.  What the service does with a call is module MessageStore; *)
(* how locations come and go is module Session.                            *)
(*                                                                         *)
(* server.go routes only the login commands, and MessageHttp asks with GET *)
(* for paths the service serves with POST: Routes says which calls the     *)
(* service at the other end serves, and this is what the handlers do once  *)
(* they are reached.                                                       *)
(***************************************************************************)
EXTENDS Naturals

CONSTANTS Account, Channel, Group, Gateway,
          Members,      \* the accounts of each group
          Gate,         \* the gateway of each channel
          Routes,       \* the calls the message service serves
          Request,      \* the packets served, each once
          Attempts,     \* SetRetryCount(3) tries four times
          Nil           \* no destination, no location

Commands == {"user", "group", "create", "ack", "index", "content"}

ASSUME TalkAssumption ==
    /\ Members \in [Group -> SUBSET Account]
    /\ Gate \in [Channel -> Gateway]
    /\ Routes \subseteq Commands \cup {"members"}
    /\ Attempts \in Nat \ {0}
    /\ Nil \notin Account \cup Channel \cup Group

VARIABLES
    loc,                \* the channel each account is located at
    pc, command, chan, dest, \* each request: its place and what it asks
    tries,              \* attempts of the call that were not answered
    inserted,           \* resp of InsertGroup is not nil
    found,              \* the channels its lookup found
    copies,             \* how often the service carried it out
    unheard,            \* how many of its replies were lost
    pushed,             \* <<request, channel>>: handed to a gateway
    answers, told,      \* how often it was answered, and with which statuses
    where,              \* the locations its dest has had while it was served
    undone              \* requests of which a step behind the insertion failed

answered == <<answers, told>>
request  == <<command, chan, dest>>
calling  == <<tries, inserted, copies, unheard>>
observed == <<where, undone>>
vars == <<loc, pc, request, calling, found, pushed, answered, observed>>

Status == {"Success", "NoDestination", "InvalidPacketBody", "SystemException"}

Init ==
    /\ loc = [a \in Account |-> Nil]
    /\ pc = [r \in Request |-> "new"]
    /\ command = [r \in Request |-> "none"]
    /\ chan = [r \in Request |-> Nil]
    /\ dest = [r \in Request |-> Nil]
    /\ tries = [r \in Request |-> 0]
    /\ inserted = [r \in Request |-> FALSE]
    /\ found = [r \in Request |-> {}]
    /\ copies = [r \in Request |-> 0]
    /\ unheard = [r \in Request |-> 0]
    /\ pushed = {}
    /\ answers = [r \in Request |-> 0]
    /\ told = [r \in Request |-> {}]
    /\ where = [r \in Request |-> {}]
    /\ undone = {}

Goto(r, place) == pc' = [pc EXCEPT ![r] = place]

\* Resp and RespWithError; a push that fails is only logged.
Respond(r, status) ==
    /\ answers' = [answers EXCEPT ![r] = @ + 1]
    /\ told' = [told EXCEPT ![r] = @ \cup {status}]

Ends(r, status) == Goto(r, "done") /\ Respond(r, status)

Serving == {r \in Request : pc[r] \notin {"new", "done", "lost"}}
-----------------------------------------------------------------------------
(***************************************************************************)
(* A packet is served, and its body read.                                  *)
(***************************************************************************)
Destinations(what) ==
    CASE what = "user" -> Account \cup {Nil}
      [] what = "group" -> Group \cup {Nil}
      [] what = "create" -> Group
      [] OTHER -> {Nil}

\* Without a destination it is refused, and served all the same.
Serve(r, what, c, d) ==
    /\ pc[r] = "new"
    /\ d \in Destinations(what)
    /\ command' = [command EXCEPT ![r] = what]
    /\ chan' = [chan EXCEPT ![r] = c]
    /\ dest' = [dest EXCEPT ![r] = d]
    /\ where' = [where EXCEPT ![r] = IF d \in Account THEN {loc[d]} ELSE {}]
    /\ Goto(r, "body")
    /\ IF d = Nil /\ what = "user" THEN Respond(r, "NoDestination")
       ELSE IF d = Nil /\ what = "group" THEN Respond(r, "SystemException")
       ELSE UNCHANGED answered
    /\ UNCHANGED <<loc, calling, found, pushed, undone>>

ReadBody(r) ==
    /\ pc[r] = "body"
    /\ Goto(r, IF command[r] = "user" THEN "GetLocation" ELSE "call")
    /\ UNCHANGED <<loc, request, calling, found, pushed, answered, observed>>

\* It cannot be read, or asks for the content of no message.
BadBody(r) ==
    /\ pc[r] = "body"
    /\ Ends(r, "InvalidPacketBody")
    /\ UNCHANGED <<loc, request, calling, found, pushed, observed>>
-----------------------------------------------------------------------------
(***************************************************************************)
(* GetLocation of the receiver, before the message is stored.              *)
(***************************************************************************)
Location(r) == IF dest[r] = Nil THEN Nil ELSE loc[dest[r]]

Located(r) ==
    /\ pc[r] = "GetLocation"
    /\ Location(r) # Nil
    /\ found' = [found EXCEPT ![r] = {Location(r)}]
    /\ Goto(r, "call")
    /\ UNCHANGED <<loc, request, calling, pushed, answered, observed>>

\* redis.Nil is not ErrSessionNil: a receiver that is not online is an error.
NotLocated(r) ==
    /\ pc[r] = "GetLocation"
    /\ Location(r) = Nil
    /\ Ends(r, "InvalidPacketBody")
    /\ UNCHANGED <<loc, request, calling, found, pushed, observed>>

\* Any other error is taken for a receiver that is not online.
LocateFails(r) ==
    /\ pc[r] = "GetLocation"
    /\ Goto(r, "call")
    /\ UNCHANGED <<loc, request, calling, found, pushed, answered, observed>>
-----------------------------------------------------------------------------
(***************************************************************************)
(* A call of the message service: InsertUser, InsertGroup, Create, SetAck, *)
(* GetMessageIndex or GetMessageContent at "call", Members at "Members".   *)
(***************************************************************************)
Route(r) == IF pc[r] = "Members" THEN "members" ELSE command[r]

Writes(r) == pc[r] = "call" /\ command[r] \in {"user", "group", "create"}

CarriedOut(r) == copies' = [copies EXCEPT ![r] = IF Writes(r) THEN @ + 1 ELSE @]

Afterwards(r) ==
    CASE Route(r) = "user" -> "Dispatch"
      [] Route(r) = "group" -> "Members"
      [] Route(r) \in {"create", "members"} -> "GetLocations"
      [] OTHER -> "Resp"

RetriedReplied(r) ==
    /\ pc[r] \in {"call", "Members"} /\ Route(r) \in Routes
    /\ CarriedOut(r)
    /\ IF tries[r] + 1 < Attempts
       THEN tries' = [tries EXCEPT ![r] = @ + 1] /\ UNCHANGED <<pc, inserted>>
       ELSE /\ inserted' = [inserted EXCEPT ![r] = TRUE]
            /\ tries' = [tries EXCEPT ![r] = 0]
            /\ Goto(r, Afterwards(r))
    /\ UNCHANGED <<loc, request, unheard, found, pushed, answered, observed>>

Replied(r) ==
    /\ pc[r] \in {"call", "Members"} /\ Route(r) \in Routes
    /\ CarriedOut(r)
    /\ inserted' = [inserted EXCEPT ![r] = @ \/ pc[r] = "call"]
    /\ tries' = [tries EXCEPT ![r] = 0]
    /\ Goto(r, Afterwards(r))
    /\ UNCHANGED <<loc, request, unheard, found, pushed, answered, observed>>

\* DoGroupTalk overwrites the error of InsertGroup with that of Members.
CallFails(r) ==
    /\ tries' = [tries EXCEPT ![r] = 0]
    /\ IF Route(r) = "group"
       THEN Goto(r, "Members") /\ UNCHANGED answered
       ELSE Ends(r, "SystemException")

\* A status that is not 200 is not tried again.
Refused(r) ==
    /\ pc[r] \in {"call", "Members"}
    /\ CallFails(r)
    /\ undone' = IF Route(r) = "members" THEN undone \cup {r} ELSE undone
    /\ UNCHANGED <<loc, request, inserted, copies, unheard, found, pushed, where>>

\* No reply within five seconds, whether or not the service was reached.
TimesOut(r) ==
    /\ pc[r] \in {"call", "Members"}
    /\ \/ UNCHANGED <<copies, unheard>>
       \/ /\ Route(r) \in Routes
          /\ CarriedOut(r)
          /\ unheard' = [unheard EXCEPT ![r] = IF Writes(r) THEN @ + 1 ELSE @]
    /\ IF tries[r] + 1 < Attempts
       THEN tries' = [tries EXCEPT ![r] = @ + 1] /\ UNCHANGED <<pc, answered, undone>>
       ELSE /\ CallFails(r)
            /\ undone' = IF Route(r) = "members" THEN undone \cup {r} ELSE undone
    /\ UNCHANGED <<loc, request, inserted, found, pushed, where>>
-----------------------------------------------------------------------------
(***************************************************************************)
(* GetLocations, Dispatch and the answer.                                  *)
(***************************************************************************)
Online(r) ==
    IF dest[r] = Nil THEN {} ELSE {loc[a] : a \in Members[dest[r]]} \ {Nil}

\* No member online is an error to DoGroupTalk and nothing left to do to
\* DoCreate, which answers nothing.  Dispatch is given no receivers for a group.
GetLocations(r) ==
    /\ pc[r] = "GetLocations"
    /\ Online(r) # {}
    /\ found' = [found EXCEPT ![r] = Online(r)]
    /\ Goto(r, IF command[r] = "create" THEN "Dispatch" ELSE "Resp")
    /\ UNCHANGED <<loc, request, calling, pushed, answered, observed>>

NobodyOnline(r) ==
    /\ pc[r] = "GetLocations"
    /\ Online(r) = {}
    /\ IF command[r] = "create" THEN Goto(r, "done") /\ UNCHANGED answered
       ELSE Ends(r, "SystemException")
    /\ undone' = undone \cup {r}
    /\ UNCHANGED <<loc, request, calling, found, pushed, where>>

GetLocationsFails(r) ==
    /\ pc[r] = "GetLocations"
    /\ Ends(r, "SystemException")
    /\ undone' = undone \cup {r}
    /\ UNCHANGED <<loc, request, calling, found, pushed, where>>

Receivers(r) == found[r] \ {chan[r]}

Dispatched(r) ==
    IF command[r] = "create" THEN Goto(r, "done") ELSE Goto(r, "Resp")

ForgetfulDispatch(r) ==
    /\ pc[r] = "Dispatch"
    /\ Dispatched(r)
    /\ UNCHANGED <<loc, request, calling, found, pushed, answered, observed>>

\* The loop over the gateways returns from its first turn.
Dispatch(r) ==
    /\ pc[r] = "Dispatch"
    /\ IF Receivers(r) = {} THEN UNCHANGED pushed
       ELSE \E g \in {Gate[c] : c \in Receivers(r)} :
                pushed' = pushed \cup {<<r, c>> : c \in {d \in Receivers(r) : Gate[d] = g}}
    /\ Dispatched(r)
    /\ UNCHANGED <<loc, request, calling, found, answered, observed>>

\* The gateway has no channel here.
DispatchFails(r) ==
    /\ pc[r] = "Dispatch" /\ Receivers(r) # {}
    /\ Ends(r, "SystemException")
    /\ undone' = undone \cup {r}
    /\ UNCHANGED <<loc, request, calling, found, pushed, where>>

UncheckedResp(r) ==
    /\ pc[r] = "Resp"
    /\ Ends(r, "Success")
    /\ UNCHANGED <<loc, request, calling, found, pushed, observed>>

Resp(r) ==
    /\ pc[r] = "Resp"
    /\ command[r] = "group" => inserted[r]
    /\ Ends(r, "Success")
    /\ UNCHANGED <<loc, request, calling, found, pushed, observed>>

Dies == pc' = [r \in Request |-> IF r \in Serving THEN "lost" ELSE pc[r]]

\* resp.MessageId of a group message that was not inserted: nil.
Panic(r) ==
    /\ pc[r] = "Resp" /\ command[r] = "group" /\ ~inserted[r]
    /\ Dies
    /\ UNCHANGED <<loc, request, calling, found, pushed, answered, observed>>
-----------------------------------------------------------------------------
\* Accounts sign in and out, and locations expire.
Move(a, c) ==
    /\ loc' = [loc EXCEPT ![a] = c]
    /\ where' = [r \in Request |->
                    IF r \in Serving /\ dest[r] = a THEN where[r] \cup {c} ELSE where[r]]
    /\ UNCHANGED <<pc, request, calling, found, pushed, answered, undone>>

Crash ==
    /\ Serving # {}
    /\ Dies
    /\ UNCHANGED <<loc, request, calling, found, pushed, answered, observed>>

Handle(r) ==
    \/ ReadBody(r) \/ BadBody(r)
    \/ Located(r) \/ NotLocated(r) \/ LocateFails(r)
    \/ Replied(r) \/ Refused(r) \/ TimesOut(r)
    \/ GetLocations(r) \/ NobodyOnline(r) \/ GetLocationsFails(r)
    \/ Dispatch(r) \/ DispatchFails(r)
    \/ Resp(r) \/ Panic(r)

Next ==
    \/ \E r \in Request :
        \/ \E what \in Commands, c \in Channel, d \in Account \cup Group \cup {Nil} :
                Serve(r, what, c, d)
        \/ Handle(r)
    \/ \E a \in Account, c \in Channel \cup {Nil} : Move(a, c)
    \/ Crash

Spec == Init /\ [][Next]_vars

\* A handler goes on: its calls of redis and of the service time out.
FairSpec == Spec /\ \A r \in Request : WF_vars(Handle(r))
-----------------------------------------------------------------------------
Places == {"new", "body", "GetLocation", "call", "Members", "GetLocations",
           "Dispatch", "Resp", "done", "lost"}

TypeOK ==
    /\ loc \in [Account -> Channel \cup {Nil}]
    /\ pc \in [Request -> Places]
    /\ command \in [Request -> Commands \cup {"none"}]
    /\ chan \in [Request -> Channel \cup {Nil}]
    /\ dest \in [Request -> Account \cup Group \cup {Nil}]
    /\ tries \in [Request -> 0 .. Attempts - 1]
    /\ inserted \in [Request -> BOOLEAN]
    /\ found \in [Request -> SUBSET Channel]
    /\ copies \in [Request -> 0 .. Attempts]
    /\ unheard \in [Request -> 0 .. Attempts]
    /\ pushed \subseteq Request \X Channel
    /\ answers \in [Request -> 0 .. 2]
    /\ told \in [Request -> SUBSET Status]
    /\ where \in [Request -> SUBSET (Channel \cup {Nil})]
    /\ undone \subseteq Request

Stores(r) == command[r] \in {"user", "group", "create"}

\* What a sender is told was done, and what a receiver is pushed, the service
\* has stored: it is there to be synchronised (chat_handler.go:46 and 71), even
\* for DoGroupTalk, which loses the error of InsertGroup.
StoredFirst ==
    \A r \in Request : Stores(r) =>
        (("Success" \in told[r] \/ \E c \in Channel : <<r, c>> \in pushed)
            => copies[r] > 0)

\* The service carries a request out twice only after a reply of its was lost
\* (message.go:29: the clients try again what is not idempotent).
TwiceOnlyUnheard == \A r \in Request : copies[r] <= unheard[r] + 1

\* A sender that is told of an error and sends again doubles its message only if
\* replies were lost, or a step behind the insertion failed, and then by one more:
\* nobody of a group online is such a step (chat_handler.go:118).
RefusedIsNotStored ==
    \A r \in Request :
        (Stores(r) /\ dest[r] # Nil /\ "SystemException" \in told[r])
            => copies[r] <= unheard[r] + (IF r \in undone THEN 1 ELSE 0)

\* One answer to a request, and a second one only when it has no destination
\* (chat_handler.go:28 and 87 lack a return).
AnsweredOnce ==
    \A r \in Request :
        answers[r] <= IF dest[r] = Nil /\ command[r] \in {"user", "group"}
                           THEN 2 ELSE 1

PushedTo(r) == {c \in Channel : <<r, c>> \in pushed}

\* What is pushed goes to the receivers found at one gateway, all of them, and to
\* no others of DoCreate's (context.go:111 returns in the loop over the gateways);
\* a talk goes only where its receiver was while it was served.  DoCreate ends in
\* silence only when some gateway was pushed to, or no receiver was found.  A
\* receiver that was found and stays has a talk pushed when its sender is told
\* Success; one that moves between GetLocation and InsertUser may have
\* synchronised before the message was stored and is pushed nothing
\* (chat_handler.go:39 and 48).
PushReaches ==
    \A r \in Request :
        /\ \/ PushedTo(r) = {}
           \/ \E g \in Gateway : PushedTo(r) = {c \in Receivers(r) : Gate[c] = g}
        /\ command[r] = "user" => PushedTo(r) \subseteq where[r]
        /\ (command[r] = "create" /\ pc[r] = "done" /\ answers[r] = 0 /\ Receivers(r) # {})
                => PushedTo(r) # {}
        /\ \A c \in Channel :
              (command[r] = "user" /\ found[r] # {} /\ where[r] = {c} /\ c # chan[r]
                    /\ "Success" \in told[r])
                => <<r, c>> \in pushed

\* Every request is answered, or dies with the process; only DoCreate ends
\* without an answer (group_handler.go:50).
EveryRequestAnswered ==
    \A r \in Request :
        (pc[r] = "body") ~>
            \/ answers[r] > 0 \/ pc[r] = "lost"
            \/ pc[r] = "done" /\ command[r] = "create"

\* chat_handler.go:45 stores the message for a receiver that is offline, as
\* offline_test.go:24 counts on: it is stored unless the sender is told that the
\* system failed.
OfflineIsStored ==
    \A r \in Request :
        (pc[r] = "GetLocation" /\ dest[r] # Nil) ~>
            copies[r] > 0 \/ "SystemException" \in told[r] \/ pc[r] = "lost"
=============================================================================
