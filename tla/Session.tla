------------------------------ MODULE Session ------------------------------
(***************************************************************************)
(* Signing in and out at the chat server: what Receive serves              *)
(* (services/server/serv/handler.go), the router and its contexts          *)
(* (router.go, context.go), the login handlers                             *)
(* (services/server/handler/login_handler.go) and the two keys redis holds *)
(* for a session (storage/redis_impl.go).                                  *)
(*                                                                         *)
(* Every packet has a goroutine of its own, so requests overlap freely.    *)
(* Each call of redis is a step: it may fail, and when a write fails it    *)
(* may have been carried out all the same.  The process may die between    *)
(* any two steps; redis lives on.                                          *)
(*                                                                         *)
(* A lookup that finds no key returns redis.Nil as it is, and any other    *)
(* error as ErrSessionNil, the error that callers take for "none".         *)
(*                                                                         *)
(* A sign-in is as the gateway's Accept writes it: the session in its body *)
(* names the account, and the channel and gateway of the packet.           *)
(***************************************************************************)
EXTENDS Naturals, FiniteSets

CONSTANTS Account, Channel,
          Request,      \* the packets received, each once
          Nil           \* no value under a key

ASSUME SessionAssumption == Nil \notin Account \cup Channel

VARIABLES
    loc,                \* login:loc: the channel each account is located at
    sn,                 \* login:sn: the account in the session of each channel
    pc, kind, acct, chan, \* each request: its place and what it asks
    old,                \* the location its handler found
    answer,             \* the status it was answered with
    kicked,             \* <<account, channel>>: a KickoutNotify was dispatched to
    contended,          \* sign-ins that overlapped with another of the account
    disturbed,          \* sign-ins whose account's location was deleted, expired
                        \* or not looked up because redis failed
    torn                \* channels whose session key was lost: its write failed,
                        \* its writer died, it expired or a sign-out began

redis    == <<loc, sn>>
asked    == <<kind, acct, chan>>
observed == <<contended, disturbed, torn>>
vars == <<redis, pc, asked, old, answer, kicked, observed>>

Status == {"Success", "SystemException", "SessionNotFound", "NotImplemented"}

Init ==
    /\ loc = [a \in Account |-> Nil]
    /\ sn = [c \in Channel |-> Nil]
    /\ pc = [r \in Request |-> "new"]
    /\ kind = [r \in Request |-> "none"]
    /\ acct = [r \in Request |-> Nil]
    /\ chan = [r \in Request |-> Nil]
    /\ old = [r \in Request |-> Nil]
    /\ answer = [r \in Request |-> Nil]
    /\ kicked = {}
    /\ contended = {} /\ disturbed = {} /\ torn = {}

Goto(r, place) == pc' = [pc EXCEPT ![r] = place]

\* Resp and RespWithError; a push that fails is only logged.
Resp(r, status) ==
    /\ Goto(r, "done")
    /\ answer' = [answer EXCEPT ![r] = status]

Ask(r, what, a, c) ==
    /\ pc[r] = "new"
    /\ kind' = [kind EXCEPT ![r] = what]
    /\ acct' = [acct EXCEPT ![r] = a]
    /\ chan' = [chan EXCEPT ![r] = c]

Busy(a) == {q \in Request : kind[q] = "signin" /\ acct[q] = a
                                /\ pc[q] \notin {"done", "lost"}}

SignIns(a) == {q \in Request : kind[q] = "signin" /\ acct[q] = a}
-----------------------------------------------------------------------------
(***************************************************************************)
(* Receive and the router.                                                 *)
(***************************************************************************)
\* A sign-in goes to the router with a session made up from the packet.
ReceiveSignIn(r, a, c) ==
    /\ Ask(r, "signin", a, c)
    /\ Goto(r, "GetLocation")
    /\ contended' = IF Busy(a) = {} THEN contended
                    ELSE contended \cup Busy(a) \cup {r}
    /\ UNCHANGED <<redis, old, answer, kicked, disturbed, torn>>

\* The body of a sign-in cannot be read.
ReceiveBadBody(r, a, c) ==
    /\ Ask(r, "bad", a, c)
    /\ Resp(r, "NotImplemented")
    /\ UNCHANGED <<redis, old, kicked, observed>>

\* Anything else has its session looked up, and is refused whether or not the
\* channel has one; only the status tells a failing redis from one that answers.
ReceiveOther(r, c) ==
    /\ Ask(r, "other", Nil, c)
    /\ Goto(r, "GetSession")
    /\ UNCHANGED <<redis, old, answer, kicked, observed>>

SilentRefuse(r) ==
    /\ pc[r] = "GetSession"
    /\ Goto(r, "done")
    /\ UNCHANGED <<redis, asked, old, answer, kicked, observed>>

Refuse(r) ==
    /\ pc[r] = "GetSession"
    /\ \E status \in {"SystemException", "SessionNotFound"} : Resp(r, status)
    /\ UNCHANGED <<redis, asked, old, kicked, observed>>

\* Receive lets no sign-out through.  This is Serve, given one with the
\* session stored for its channel.
ServeSignOut(r, c) ==
    /\ sn[c] # Nil
    /\ Ask(r, "signout", sn[c], c)
    /\ Goto(r, "DelLocation")
    /\ torn' = torn \cup {c}
    /\ UNCHANGED <<redis, old, answer, kicked, contended, disturbed>>
-----------------------------------------------------------------------------
(***************************************************************************)
(* DoSysLogin.                                                             *)
(***************************************************************************)
SilentLocated(r) ==
    /\ pc[r] = "GetLocation"
    /\ loc[acct[r]] # Nil
    /\ old' = [old EXCEPT ![r] = loc[acct[r]]]
    /\ Goto(r, "SetLocation")
    /\ UNCHANGED <<redis, asked, answer, kicked, observed>>

Located(r) ==
    /\ pc[r] = "GetLocation"
    /\ loc[acct[r]] # Nil
    /\ old' = [old EXCEPT ![r] = loc[acct[r]]]
    /\ Goto(r, "Dispatch")
    /\ UNCHANGED <<redis, asked, answer, kicked, observed>>

\* redis.Nil is not ErrSessionNil.
NotLocated(r) ==
    /\ pc[r] = "GetLocation"
    /\ loc[acct[r]] = Nil
    /\ Resp(r, "SystemException")
    /\ UNCHANGED <<redis, asked, old, kicked, observed>>

\* Any other error is taken for an account that is not signed in.
LocateFails(r) ==
    /\ pc[r] = "GetLocation"
    /\ Goto(r, "SetLocation")
    /\ disturbed' = disturbed \cup (SignIns(acct[r]) \ {r})
    /\ UNCHANGED <<redis, asked, old, answer, kicked, contended, torn>>

\* The notice to the old channel; none if that is the channel that signs in.
Dispatch(r) ==
    /\ pc[r] = "Dispatch"
    /\ kicked' = kicked \cup ({<<acct[r], old[r]>>} \ {<<acct[r], chan[r]>>})
    /\ Goto(r, "SetLocation")
    /\ UNCHANGED <<redis, asked, old, answer, observed>>

SetLocation(r) ==
    /\ pc[r] = "SetLocation"
    /\ loc' = [loc EXCEPT ![acct[r]] = chan[r]]
    /\ Goto(r, "SetSession")
    /\ UNCHANGED <<sn, asked, old, answer, kicked, observed>>

SetLocationFails(r) ==
    /\ pc[r] = "SetLocation"
    /\ loc' \in {loc, [loc EXCEPT ![acct[r]] = chan[r]]}
    /\ torn' = torn \cup {chan[r]}
    /\ Resp(r, "SystemException")
    /\ UNCHANGED <<sn, asked, old, kicked, contended, disturbed>>

UnstoredSetSession(r) ==
    /\ pc[r] = "SetSession"
    /\ Resp(r, "Success")
    /\ UNCHANGED <<redis, asked, old, kicked, observed>>

SetSession(r) ==
    /\ pc[r] = "SetSession"
    /\ sn' = [sn EXCEPT ![chan[r]] = acct[r]]
    /\ Resp(r, "Success")
    /\ UNCHANGED <<loc, asked, old, kicked, observed>>

SetSessionFails(r) ==
    /\ pc[r] = "SetSession"
    /\ sn' \in {sn, [sn EXCEPT ![chan[r]] = acct[r]]}
    /\ torn' = torn \cup {chan[r]}
    /\ Resp(r, "SystemException")
    /\ UNCHANGED <<loc, asked, old, kicked, contended, disturbed>>
-----------------------------------------------------------------------------
(***************************************************************************)
(* DoSysLogout.  The location goes whatever channel it names.              *)
(***************************************************************************)
DelLocation(r) ==
    /\ pc[r] = "DelLocation"
    /\ loc' = [loc EXCEPT ![acct[r]] = Nil]
    /\ disturbed' = disturbed \cup SignIns(acct[r])
    /\ Goto(r, "DelSession")
    /\ UNCHANGED <<sn, asked, old, answer, kicked, contended, torn>>

DelSession(r) ==
    /\ pc[r] = "DelSession"
    /\ sn' = [sn EXCEPT ![chan[r]] = Nil]
    /\ Resp(r, "Success")
    /\ UNCHANGED <<loc, asked, old, kicked, observed>>

DelLocationFails(r) ==
    /\ pc[r] = "DelLocation"
    /\ loc' \in {loc, [loc EXCEPT ![acct[r]] = Nil]}
    /\ disturbed' = disturbed \cup SignIns(acct[r])
    /\ Resp(r, "SystemException")
    /\ UNCHANGED <<sn, asked, old, kicked, contended, torn>>

DelSessionFails(r) ==
    /\ pc[r] = "DelSession"
    /\ sn' \in {sn, [sn EXCEPT ![chan[r]] = Nil]}
    /\ Resp(r, "SystemException")
    /\ UNCHANGED <<loc, asked, old, kicked, observed>>
-----------------------------------------------------------------------------
(***************************************************************************)
(* Keys expire; the process may die with what it is doing.                 *)
(***************************************************************************)
ExpireLocation(a) ==
    /\ loc[a] # Nil
    /\ loc' = [loc EXCEPT ![a] = Nil]
    /\ disturbed' = disturbed \cup SignIns(a)
    /\ UNCHANGED <<sn, pc, asked, old, answer, kicked, contended, torn>>

ExpireSession(c) ==
    /\ sn[c] # Nil
    /\ sn' = [sn EXCEPT ![c] = Nil]
    /\ torn' = torn \cup {c}
    /\ UNCHANGED <<loc, pc, asked, old, answer, kicked, contended, disturbed>>

Serving == {r \in Request : pc[r] \notin {"new", "done", "lost"}}

Crash ==
    /\ Serving # {}
    /\ pc' = [r \in Request |-> IF r \in Serving THEN "lost" ELSE pc[r]]
    /\ torn' = torn \cup {chan[r] : r \in {q \in Serving : pc[q] # "GetSession"}}
    /\ UNCHANGED <<redis, asked, old, answer, kicked, contended, disturbed>>
-----------------------------------------------------------------------------
Receive(r) ==
    \/ \E a \in Account, c \in Channel :
            ReceiveSignIn(r, a, c) \/ ReceiveBadBody(r, a, c)
    \/ \E c \in Channel : ReceiveOther(r, c) \/ ServeSignOut(r, c)
    \/ Refuse(r)

DoSysLogin(r) ==
    \/ Located(r) \/ NotLocated(r) \/ LocateFails(r) \/ Dispatch(r)
    \/ SetLocation(r) \/ SetLocationFails(r)
    \/ SetSession(r) \/ SetSessionFails(r)

DoSysLogout(r) ==
    \/ DelLocation(r) \/ DelLocationFails(r)
    \/ DelSession(r) \/ DelSessionFails(r)

Next ==
    \/ \E r \in Request : Receive(r) \/ DoSysLogin(r) \/ DoSysLogout(r)
    \/ \E a \in Account : ExpireLocation(a)
    \/ \E c \in Channel : ExpireSession(c)
    \/ Crash

Spec == Init /\ [][Next]_vars

\* A handler that was given a packet goes on: calls of redis time out.
FairSpec ==
    /\ Spec
    /\ \A r \in Request :
        WF_vars(Refuse(r)) /\ WF_vars(DoSysLogin(r)) /\ WF_vars(DoSysLogout(r))
-----------------------------------------------------------------------------
TypeOK ==
    /\ loc \in [Account -> Channel \cup {Nil}]
    /\ sn \in [Channel -> Account \cup {Nil}]
    /\ pc \in [Request -> {"new", "GetLocation", "Dispatch", "SetLocation",
                           "SetSession", "DelLocation", "DelSession",
                           "GetSession", "done", "lost"}]
    /\ kind \in [Request -> {"none", "signin", "bad", "other", "signout"}]
    /\ acct \in [Request -> Account \cup {Nil}]
    /\ chan \in [Request -> Channel \cup {Nil}]
    /\ old \in [Request -> Channel \cup {Nil}]
    /\ answer \in [Request -> Status \cup {Nil}]
    /\ kicked \subseteq Account \X Channel
    /\ contended \subseteq Request
    /\ disturbed \subseteq Request
    /\ torn \subseteq Channel

SignedIn(r) == kind[r] = "signin" /\ pc[r] = "done" /\ answer[r] = "Success"

\* A channel that signed in either is still where its account is located or was
\* told to go.  What can leave two channels signed in side by side is only that
\* their sign-ins overlapped (login_handler.go:26 reads what line 36 writes),
\* or that the location was lost to an expiry, a sign-out or a failing redis.
\* Told to go is not gone: a notice whose push failed counts as well, since its
\* error is ignored (login_handler.go:32).
NewestIsLocated ==
    \A r \in Request :
        SignedIn(r) /\ r \notin contended \cup disturbed
            => \/ loc[acct[r]] = chan[r]
               \/ <<acct[r], chan[r]>> \in kicked

\* A located channel has the session that lets its requests pass (handler.go:72
\* looks it up), while Add is between its two writes excepted; unless the write
\* failed, its writer died, the key expired or a sign-out of the channel began.
LocatedHasSession ==
    \A a \in Account :
        \/ loc[a] \in torn \cup {Nil}
        \/ sn[loc[a]] # Nil
        \/ \E r \in Request : pc[r] = "SetSession" /\ chan[r] = loc[a]

\* A channel that was told to go (login_handler.go:32) is not left located unless
\* its successor has yet to store its own location, died before it did or could
\* not; a channel that signs in again is located again.
KickedIsReplaced ==
    \A a \in Account : <<a, loc[a]>> \in kicked =>
        \/ \E r \in SignIns(a) :
                /\ old[r] = loc[a] /\ chan[r] # loc[a]
                /\ pc[r] \in {"SetLocation", "lost"} \/ answer[r] = "SystemException"
        \/ \E q, r \in SignIns(a) : q # r /\ chan[q] = loc[a] /\ chan[r] = loc[a]

\* Every packet that can be read is answered, whatever of redis fails, unless the
\* process dies.  One that cannot be read is dropped without an answer
\* (serv/handler.go:54-57) and is not modelled.
EveryRequestAnswered ==
    \A r \in Request : (pc[r] # "new") ~> (answer[r] # Nil \/ pc[r] = "lost")

\* login_handler.go:25 asks whether the account is signed in already, so that an
\* account that is not can sign in: while redis does not fail and no key expires,
\* a sign-in that was received is not refused.
SignInSucceeds ==
    \A r \in Request :
        kind[r] = "signin" /\ disturbed = {} /\ torn = {}
            => answer[r] # "SystemException"
=============================================================================
