----------------------------- MODULE TalkProofs -----------------------------
(***************************************************************************)
(* Theorems about Talk, for all accounts, channels, groups and gateways,   *)
(* whatever calls the service serves and however often they are tried.     *)
(***************************************************************************)
EXTENDS Talk, TLAPS

Ended(r) == pc[r] \in {"done", "lost"}

\* A request has a command from Serve on, and a destination that suits it.
Asked ==
    \A r \in Request :
        /\ command[r] = "none" <=> pc[r] = "new"
        /\ command[r] = "user" => dest[r] \in Account \cup {Nil}
        /\ command[r] \in {"group", "create"} => dest[r] \in Group \cup {Nil}
        /\ pc[r] \in {"new", "body", "GetLocation"} =>
                /\ copies[r] = 0 /\ unheard[r] = 0 /\ tries[r] = 0
                /\ ~inserted[r] /\ found[r] = {}
        /\ pc[r] = "GetLocation" => command[r] = "user"
        /\ pc[r] = "Members" => command[r] = "group"
        /\ pc[r] = "GetLocations" => command[r] \in {"group", "create"}
        /\ pc[r] = "Dispatch" => command[r] \in {"user", "create"}

\* As many copies as lost replies, until one is heard.
Counted ==
    \A r \in Request :
        /\ unheard[r] <= copies[r] /\ copies[r] <= unheard[r] + 1
        /\ pc[r] = "call" => copies[r] = unheard[r] /\ unheard[r] <= tries[r]
        /\ pc[r] \notin {"call", "Members"} => tries[r] = 0 \/ pc[r] = "lost"

\* Behind the insertion there is a copy, but for a group.
HasCopy ==
    \A r \in Request :
        /\ inserted[r] /\ Stores(r) => copies[r] > 0
        /\ pc[r] \in {"Dispatch", "Resp"} /\ command[r] = "user" => copies[r] > 0
        /\ pc[r] \in {"GetLocations", "Dispatch", "Resp"} /\ command[r] = "create"
                => copies[r] > 0

PushedStored == \A r \in Request, c \in Channel : <<r, c>> \in pushed => copies[r] > 0

SuccessStored ==
    \A r \in Request : Stores(r) /\ "Success" \in told[r] => copies[r] > 0

\* The first answer is given with the request, the last with its end.
Early(r) == dest[r] = Nil /\ command[r] \in {"user", "group"}

Unanswered ==
    \A r \in Request :
        /\ answers[r] = 0 => told[r] = {}
        /\ pc[r] = "new" => answers[r] = 0
        /\ ~Ended(r) => /\ answers[r] <= IF Early(r) THEN 1 ELSE 0
                        /\ "Success" \notin told[r]

\* What the lookup found is a location the receiver had, and was pushed to.
Whereabouts ==
    \A r \in Request :
        command[r] = "user" /\ ~Ended(r) /\ dest[r] # Nil => loc[dest[r]] \in where[r]

Found(r, c) == c \in where[r] /\ found[r] = {c}

Reached(r) ==
    \E c \in Channel : Found(r, c) /\ (c = chan[r] \/ <<r, c>> \in pushed)

FoundThere ==
    \A r \in Request :
        (command[r] = "user" /\ pc[r] \in {"call", "Dispatch"} /\ found[r] # {})
            => \E c \in Channel : Found(r, c)

Reaching ==
    \A r \in Request :
        (command[r] = "user" /\ (pc[r] = "Resp" \/ "Success" \in told[r]) /\ found[r] # {})
            => Reached(r)

\* What was pushed to one gateway, when, and where it was found.
OneGateway(r) ==
    \/ PushedTo(r) = {}
    \/ \E g \in Gateway : PushedTo(r) = {c \in Receivers(r) : Gate[c] = g}

Pushing ==
    \A r \in Request :
        /\ PushedTo(r) # {} => pc[r] \in {"Resp", "done", "lost"}
        /\ pc[r] = "GetLocations" => found[r] = {}
        /\ pc[r] = "call" /\ command[r] # "user" => found[r] = {}
        /\ pc[r] = "Members" => found[r] = {}
        /\ command[r] = "user" => found[r] \subseteq where[r]
        /\ OneGateway(r)
        /\ (command[r] = "create" /\ pc[r] = "done" /\ answers[r] = 0 /\ Receivers(r) # {})
                => PushedTo(r) # {}

Storing == Asked /\ Counted /\ HasCopy /\ PushedStored /\ SuccessStored

Answering == Unanswered /\ RefusedIsNotStored /\ AnsweredOnce

Locating == Whereabouts /\ FoundThere

IInv == TypeOK /\ Storing /\ Answering /\ Locating /\ Reaching /\ Pushing
-----------------------------------------------------------------------------
\* Types are kept; tries bound the copies and the lost replies.
LEMMA TypeOKStep == ASSUME TypeOK, Storing, Answering, [Next]_vars PROVE TypeOK'
<1> USE TalkAssumption DEF TypeOK, answered, request, calling, observed, Places,
        Status, Commands, Storing, Asked, Counted, Answering, Unanswered, Ended,
        Early
<1>1. ASSUME NEW r \in Request, NEW what \in Commands, NEW c \in Channel \cup {Nil}, NEW d \in Account \cup Group \cup {Nil}, Serve(r, what, c, d)
      PROVE TypeOK'
      BY <1>1 DEF Serve, Goto, Respond, Destinations
<1>2. ASSUME NEW r \in Request, ReadBody(r) PROVE TypeOK'
      BY <1>2 DEF ReadBody, Goto
<1>3. ASSUME NEW r \in Request, BadBody(r) PROVE TypeOK'
      BY <1>3 DEF BadBody, Ends, Goto, Respond
<1>4. ASSUME NEW r \in Request, Located(r) PROVE TypeOK'
      BY <1>4 DEF Located, Goto, Location
<1>5. ASSUME NEW r \in Request, NotLocated(r) PROVE TypeOK'
      BY <1>5 DEF NotLocated, Ends, Goto, Respond
<1>6. ASSUME NEW r \in Request, LocateFails(r) PROVE TypeOK'
      BY <1>6 DEF LocateFails, Goto
<1>7. ASSUME NEW r \in Request, Replied(r) PROVE TypeOK'
      BY <1>7 DEF Replied, CarriedOut, Writes, Goto, Afterwards, Route
<1>8. ASSUME NEW r \in Request, Refused(r) PROVE TypeOK'
      BY <1>8 DEF Refused, CallFails, Ends, Goto, Respond, Route
<1>9. ASSUME NEW r \in Request, TimesOut(r) PROVE TypeOK'
      <2>1. /\ copies' \in [Request -> 0 .. Attempts]
            /\ unheard' \in [Request -> 0 .. Attempts]
            BY <1>9 DEF TimesOut, CarriedOut, Writes
      <2>2. tries' \in [Request -> 0 .. Attempts - 1]
            BY <1>9 DEF TimesOut, CallFails
      <2>3. pc' \in [Request -> Places] /\ undone' \subseteq Request
            BY <1>9 DEF TimesOut, CallFails, Ends, Goto
      <2>4. answers' \in [Request -> 0 .. 2] /\ told' \in [Request -> SUBSET Status]
            BY <1>9 DEF TimesOut, CallFails, Ends, Respond
      <2> QED BY <1>9, <2>1, <2>2, <2>3, <2>4 DEF TimesOut
<1>10. ASSUME NEW r \in Request, GetLocations(r) PROVE TypeOK'
      <2>1. Online(r) \subseteq Channel
            BY <1>10 DEF GetLocations, Online
      <2> QED BY <1>10, <2>1 DEF GetLocations, Goto
<1>11. ASSUME NEW r \in Request, NobodyOnline(r) PROVE TypeOK'
      BY <1>11 DEF NobodyOnline, Ends, Goto, Respond
<1>12. ASSUME NEW r \in Request, GetLocationsFails(r) PROVE TypeOK'
      BY <1>12 DEF GetLocationsFails, Ends, Goto, Respond
<1>13. ASSUME NEW r \in Request, Dispatch(r) PROVE TypeOK'
      <2>1. pushed' \subseteq Request \X Channel
            BY <1>13 DEF Dispatch, Receivers
      <2> QED BY <1>13, <2>1 DEF Dispatch, Dispatched, Goto
<1>14. ASSUME NEW r \in Request, DispatchFails(r) PROVE TypeOK'
      BY <1>14 DEF DispatchFails, Ends, Goto, Respond
<1>15. ASSUME NEW r \in Request, Resp(r) PROVE TypeOK'
      BY <1>15 DEF Resp, Ends, Goto, Respond
<1>16. ASSUME NEW r \in Request, Panic(r) PROVE TypeOK'
      BY <1>16 DEF Panic, Dies, Serving
<1>17. ASSUME NEW a \in Account, NEW c \in Channel \cup {Nil}, Move(a, c) PROVE TypeOK'
      BY <1>17 DEF Move, Serving
<1>18. ASSUME Crash PROVE TypeOK'
      BY <1>18 DEF Crash, Dies, Serving
<1>19. CASE UNCHANGED vars
      BY <1>19 DEF vars
<1> HIDE DEF TypeOK, Storing, Asked, Counted, Answering, Unanswered, Ended, Early
<1> QED BY <1>1, <1>2, <1>3, <1>4, <1>5, <1>6, <1>7, <1>8, <1>9, <1>10, <1>11,
           <1>12, <1>13, <1>14, <1>15, <1>16, <1>17, <1>18, <1>19 DEF Next, Handle

\* A copy comes with a reply or with one that is lost, and steps go on behind it.
LEMMA StoringStep == ASSUME TypeOK, Storing, Answering, [Next]_vars PROVE Storing'
<1> USE TalkAssumption DEF TypeOK, answered, request, calling, observed, Places,
        Status, Commands, Storing, Asked, Counted, HasCopy, PushedStored,
        SuccessStored, Stores, Answering, Unanswered, Ended
<1>1. ASSUME NEW r \in Request, NEW what \in Commands, NEW c \in Channel \cup {Nil}, NEW d \in Account \cup Group \cup {Nil}, Serve(r, what, c, d)
      PROVE Storing'
      BY <1>1 DEF Serve, Goto, Respond, Destinations
<1>2. ASSUME NEW r \in Request, ReadBody(r) PROVE Storing'
      BY <1>2 DEF ReadBody, Goto
<1>3. ASSUME NEW r \in Request, BadBody(r) PROVE Storing'
      BY <1>3 DEF BadBody, Ends, Goto, Respond
<1>4. ASSUME NEW r \in Request, Located(r) PROVE Storing'
      BY <1>4 DEF Located, Goto, Location
<1>5. ASSUME NEW r \in Request, NotLocated(r) PROVE Storing'
      BY <1>5 DEF NotLocated, Ends, Goto, Respond
<1>6. ASSUME NEW r \in Request, LocateFails(r) PROVE Storing'
      BY <1>6 DEF LocateFails, Goto
<1>7. ASSUME NEW r \in Request, Replied(r) PROVE Storing'
      BY <1>7 DEF Replied, CarriedOut, Writes, Goto, Afterwards, Route
<1>8. ASSUME NEW r \in Request, Refused(r) PROVE Storing'
      BY <1>8 DEF Refused, CallFails, Ends, Goto, Respond, Route
<1>9. ASSUME NEW r \in Request, TimesOut(r) PROVE Storing'
      BY <1>9 DEF TimesOut, CarriedOut, Writes, CallFails, Ends, Goto, Respond, Route
<1>10. ASSUME NEW r \in Request, GetLocations(r) PROVE Storing'
      BY <1>10 DEF GetLocations, Online, Goto
<1>11. ASSUME NEW r \in Request, NobodyOnline(r) PROVE Storing'
      BY <1>11 DEF NobodyOnline, Ends, Goto, Respond
<1>12. ASSUME NEW r \in Request, GetLocationsFails(r) PROVE Storing'
      BY <1>12 DEF GetLocationsFails, Ends, Goto, Respond
<1>13. ASSUME NEW r \in Request, Dispatch(r) PROVE Storing'
      BY <1>13 DEF Dispatch, Dispatched, Goto
<1>14. ASSUME NEW r \in Request, DispatchFails(r) PROVE Storing'
      BY <1>14 DEF DispatchFails, Ends, Goto, Respond
<1>15. ASSUME NEW r \in Request, Resp(r) PROVE Storing'
      BY <1>15 DEF Resp, Ends, Goto, Respond
<1>16. ASSUME NEW r \in Request, Panic(r) PROVE Storing'
      BY <1>16 DEF Panic, Dies, Serving
<1>17. ASSUME NEW a \in Account, NEW c \in Channel \cup {Nil}, Move(a, c) PROVE Storing'
      BY <1>17 DEF Move, Serving
<1>18. ASSUME Crash PROVE Storing'
      BY <1>18 DEF Crash, Dies, Serving
<1>19. CASE UNCHANGED vars
      BY <1>19 DEF vars
<1> HIDE DEF TypeOK, Storing, Asked, Counted, HasCopy, PushedStored, SuccessStored, Stores, Answering, Unanswered, Ended
<1> QED BY <1>1, <1>2, <1>3, <1>4, <1>5, <1>6, <1>7, <1>8, <1>9, <1>10, <1>11,
           <1>12, <1>13, <1>14, <1>15, <1>16, <1>17, <1>18, <1>19 DEF Next, Handle

\* An answer ends the request, but for the one given without a destination.
LEMMA AnsweringStep == ASSUME TypeOK, Storing, Answering, [Next]_vars PROVE Answering'
<1> USE TalkAssumption DEF TypeOK, answered, request, calling, observed, Places,
        Status, Commands, Storing, Asked, Counted, Stores, Answering, Unanswered,
        Ended, Early, RefusedIsNotStored, AnsweredOnce
<1>1. ASSUME NEW r \in Request, NEW what \in Commands, NEW c \in Channel \cup {Nil}, NEW d \in Account \cup Group \cup {Nil}, Serve(r, what, c, d)
      PROVE Answering'
      BY <1>1 DEF Serve, Goto, Respond, Destinations
<1>2. ASSUME NEW r \in Request, ReadBody(r) PROVE Answering'
      BY <1>2 DEF ReadBody, Goto
<1>3. ASSUME NEW r \in Request, BadBody(r) PROVE Answering'
      BY <1>3 DEF BadBody, Ends, Goto, Respond
<1>4. ASSUME NEW r \in Request, Located(r) PROVE Answering'
      BY <1>4 DEF Located, Goto, Location
<1>5. ASSUME NEW r \in Request, NotLocated(r) PROVE Answering'
      BY <1>5 DEF NotLocated, Ends, Goto, Respond
<1>6. ASSUME NEW r \in Request, LocateFails(r) PROVE Answering'
      BY <1>6 DEF LocateFails, Goto
<1>7. ASSUME NEW r \in Request, Replied(r) PROVE Answering'
      BY <1>7 DEF Replied, CarriedOut, Writes, Goto, Afterwards, Route
<1>8. ASSUME NEW r \in Request, Refused(r) PROVE Answering'
      BY <1>8 DEF Refused, CallFails, Ends, Goto, Respond, Route
<1>9. ASSUME NEW r \in Request, TimesOut(r) PROVE Answering'
      BY <1>9 DEF TimesOut, CarriedOut, Writes, CallFails, Ends, Goto, Respond, Route
<1>10. ASSUME NEW r \in Request, GetLocations(r) PROVE Answering'
      BY <1>10 DEF GetLocations, Online, Goto
<1>11. ASSUME NEW r \in Request, NobodyOnline(r) PROVE Answering'
      BY <1>11 DEF NobodyOnline, Ends, Goto, Respond
<1>12. ASSUME NEW r \in Request, GetLocationsFails(r) PROVE Answering'
      BY <1>12 DEF GetLocationsFails, Ends, Goto, Respond
<1>13. ASSUME NEW r \in Request, Dispatch(r) PROVE Answering'
      BY <1>13 DEF Dispatch, Dispatched, Goto
<1>14. ASSUME NEW r \in Request, DispatchFails(r) PROVE Answering'
      BY <1>14 DEF DispatchFails, Ends, Goto, Respond
<1>15. ASSUME NEW r \in Request, Resp(r) PROVE Answering'
      BY <1>15 DEF Resp, Ends, Goto, Respond
<1>16. ASSUME NEW r \in Request, Panic(r) PROVE Answering'
      BY <1>16 DEF Panic, Dies, Serving
<1>17. ASSUME NEW a \in Account, NEW c \in Channel \cup {Nil}, Move(a, c)
       PROVE Answering'
      BY <1>17 DEF Move, Serving
<1>18. ASSUME Crash PROVE Answering'
      BY <1>18 DEF Crash, Dies, Serving
<1>19. CASE UNCHANGED vars
      BY <1>19 DEF vars
<1> HIDE DEF TypeOK, Storing, Asked, Counted, Stores, Answering, Unanswered, Ended, Early, RefusedIsNotStored, AnsweredOnce
<1> QED BY <1>1, <1>2, <1>3, <1>4, <1>5, <1>6, <1>7, <1>8, <1>9, <1>10, <1>11,
           <1>12, <1>13, <1>14, <1>15, <1>16, <1>17, <1>18, <1>19 DEF Next, Handle

\* The receiver's location is among those it has had, also when it moves.
LEMMA LocatingStep == ASSUME TypeOK, Storing, Locating, [Next]_vars PROVE Locating'
<1> USE TalkAssumption DEF TypeOK, answered, request, calling, observed, Places,
        Status, Commands, Storing, Asked, Locating, Whereabouts, FoundThere, Found,
        Ended
<1>1. ASSUME NEW r \in Request, NEW what \in Commands, NEW c \in Channel \cup {Nil}, NEW d \in Account \cup Group \cup {Nil}, Serve(r, what, c, d)
      PROVE Locating'
      BY <1>1 DEF Serve, Goto, Respond, Destinations
<1>2. ASSUME NEW r \in Request, ReadBody(r) PROVE Locating'
      BY <1>2 DEF ReadBody, Goto
<1>3. ASSUME NEW r \in Request, BadBody(r) PROVE Locating'
      BY <1>3 DEF BadBody, Ends, Goto, Respond
<1>4. ASSUME NEW r \in Request, Located(r) PROVE Locating'
      BY <1>4 DEF Located, Goto, Location
<1>5. ASSUME NEW r \in Request, NotLocated(r) PROVE Locating'
      BY <1>5 DEF NotLocated, Ends, Goto, Respond
<1>6. ASSUME NEW r \in Request, LocateFails(r) PROVE Locating'
      BY <1>6 DEF LocateFails, Goto
<1>7. ASSUME NEW r \in Request, Replied(r) PROVE Locating'
      BY <1>7 DEF Replied, CarriedOut, Writes, Goto, Afterwards, Route
<1>8. ASSUME NEW r \in Request, Refused(r) PROVE Locating'
      BY <1>8 DEF Refused, CallFails, Ends, Goto, Respond, Route
<1>9. ASSUME NEW r \in Request, TimesOut(r) PROVE Locating'
      BY <1>9 DEF TimesOut, CarriedOut, Writes, CallFails, Ends, Goto, Respond, Route
<1>10. ASSUME NEW r \in Request, GetLocations(r) PROVE Locating'
      BY <1>10 DEF GetLocations, Online, Goto
<1>11. ASSUME NEW r \in Request, NobodyOnline(r) PROVE Locating'
      BY <1>11 DEF NobodyOnline, Ends, Goto, Respond
<1>12. ASSUME NEW r \in Request, GetLocationsFails(r) PROVE Locating'
      BY <1>12 DEF GetLocationsFails, Ends, Goto, Respond
<1>13. ASSUME NEW r \in Request, Dispatch(r) PROVE Locating'
      BY <1>13 DEF Dispatch, Dispatched, Goto
<1>14. ASSUME NEW r \in Request, DispatchFails(r) PROVE Locating'
      BY <1>14 DEF DispatchFails, Ends, Goto, Respond
<1>15. ASSUME NEW r \in Request, Resp(r) PROVE Locating'
      BY <1>15 DEF Resp, Ends, Goto, Respond
<1>16. ASSUME NEW r \in Request, Panic(r) PROVE Locating'
      BY <1>16 DEF Panic, Dies, Serving
<1>17. ASSUME NEW a \in Account, NEW c \in Channel \cup {Nil}, Move(a, c)
       PROVE Locating'
      BY <1>17 DEF Move, Serving
<1>18. ASSUME Crash PROVE Locating'
      BY <1>18 DEF Crash, Dies, Serving
<1>19. CASE UNCHANGED vars
      BY <1>19 DEF vars
<1> HIDE DEF TypeOK, Storing, Asked, Locating, Whereabouts, FoundThere, Found, Ended
<1> QED BY <1>1, <1>2, <1>3, <1>4, <1>5, <1>6, <1>7, <1>8, <1>9, <1>10, <1>11,
           <1>12, <1>13, <1>14, <1>15, <1>16, <1>17, <1>18, <1>19 DEF Next, Handle

Due(r) == command[r] = "user" /\ (pc[r] = "Resp" \/ "Success" \in told[r]) /\ found[r] # {}

\* A step that keeps what is due where it was.
Steady ==
    /\ pushed \subseteq pushed'
    /\ \A r \in Request : Due(r)' =>
            /\ Due(r)
            /\ found'[r] = found[r] /\ chan'[r] = chan[r] /\ where[r] \subseteq where'[r]

\* Steady steps keep what was reached.
LEMMA SteadyReaches == ASSUME Steady, Reaching PROVE Reaching'
<1> SUFFICES ASSUME NEW r \in Request, Due(r)' PROVE Reached(r)'
      BY DEF Reaching, Due
<1>1. PICK c \in Channel : Found(r, c) /\ (c = chan[r] \/ <<r, c>> \in pushed)
      BY DEF Steady, Reaching, Due, Reached
<1>2. Found(r, c)' /\ (c = chan'[r] \/ <<r, c>> \in pushed')
      BY <1>1 DEF Steady, Found
<1> QED BY <1>2 DEF Reached

\* What is due comes from the lookup by way of Dispatch, and stays.
LEMMA ReachingStep ==
    ASSUME TypeOK, Asked, Unanswered, FoundThere, Reaching, [Next]_vars
    PROVE  Reaching'
<1> USE TalkAssumption DEF TypeOK, answered, request, calling, observed, Asked,
        Unanswered,
                           Ended, Due, Steady
<1>1. ASSUME NEW r \in Request, NEW what \in Commands, NEW c \in Channel \cup {Nil}, NEW d \in Account \cup Group \cup {Nil}, Serve(r, what, c, d)
      PROVE Steady
      BY <1>1 DEF Serve, Goto, Respond, Destinations
<1>2. ASSUME NEW r \in Request, ReadBody(r) PROVE Steady
      BY <1>2 DEF ReadBody, Goto
<1>3. ASSUME NEW r \in Request, BadBody(r) PROVE Steady
      BY <1>3 DEF BadBody, Ends, Goto, Respond
<1>4. ASSUME NEW r \in Request, Located(r) PROVE Steady
      BY <1>4 DEF Located, Goto, Location
<1>5. ASSUME NEW r \in Request, NotLocated(r) PROVE Steady
      BY <1>5 DEF NotLocated, Ends, Goto, Respond
<1>6. ASSUME NEW r \in Request, LocateFails(r) PROVE Steady
      BY <1>6 DEF LocateFails, Goto
<1>7. ASSUME NEW r \in Request, Replied(r) PROVE Steady
      BY <1>7 DEF Replied, CarriedOut, Writes, Goto, Afterwards, Route
<1>8. ASSUME NEW r \in Request, Refused(r) PROVE Steady
      BY <1>8 DEF Refused, CallFails, Ends, Goto, Respond, Route
<1>9. ASSUME NEW r \in Request, TimesOut(r) PROVE Steady
      BY <1>9 DEF TimesOut, CarriedOut, Writes, CallFails, Ends, Goto, Respond, Route
<1>10. ASSUME NEW r \in Request, GetLocations(r) PROVE Steady
      BY <1>10 DEF GetLocations, Online, Goto
<1>11. ASSUME NEW r \in Request, NobodyOnline(r) PROVE Steady
      BY <1>11 DEF NobodyOnline, Ends, Goto, Respond
<1>12. ASSUME NEW r \in Request, GetLocationsFails(r) PROVE Steady
      BY <1>12 DEF GetLocationsFails, Ends, Goto, Respond
<1>13. ASSUME NEW r \in Request, Dispatch(r) PROVE Reaching'
      <2>1. CASE command[r] # "user"
            <3>1. Steady
                  BY <1>13, <2>1 DEF Dispatch, Dispatched, Goto
            <3> QED BY <3>1, SteadyReaches
      <2>2. CASE command[r] = "user"
            <3>1. UNCHANGED <<command, told, found, chan, where>> /\ pc' = [pc EXCEPT ![r] = "Resp"]
                  BY <1>13, <2>2 DEF Dispatch, Dispatched, Goto
            <3>2. pushed \subseteq pushed'
                  BY <1>13 DEF Dispatch
            <3>3. ASSUME found[r] # {} PROVE Reached(r)'
                  <4>1. PICK c \in Channel : Found(r, c)
                        BY <1>13, <2>2, <3>3 DEF Dispatch, FoundThere
                  <4>2. CASE c = chan[r]
                        BY <3>1, <4>1, <4>2 DEF Found, Reached
                  <4>3. CASE c # chan[r]
                        <5>1. Receivers(r) = {c}
                              BY <4>1, <4>3 DEF Receivers, Found
                        <5>2. <<r, c>> \in pushed'
                              BY <1>13, <5>1 DEF Dispatch
                        <5> QED BY <3>1, <4>1, <5>2 DEF Found, Reached
                  <4> QED BY <4>2, <4>3
            <3>4. ASSUME NEW q \in Request \ {r}, Due(q)' PROVE Reached(q)'
                  <4>1. PICK c \in Channel : Found(q, c) /\ (c = chan[q] \/ <<q, c>> \in pushed)
                        BY <3>1, <3>4 DEF Reaching, Reached
                  <4> QED BY <3>1, <3>2, <4>1 DEF Found, Reached
            <3> QED BY <3>1, <3>3, <3>4 DEF Reaching
      <2> QED BY <2>1, <2>2
<1>14. ASSUME NEW r \in Request, DispatchFails(r) PROVE Steady
      BY <1>14 DEF DispatchFails, Ends, Goto, Respond
<1>15. ASSUME NEW r \in Request, Resp(r) PROVE Steady
      BY <1>15 DEF Resp, Ends, Goto, Respond
<1>16. ASSUME NEW r \in Request, Panic(r) PROVE Steady
      BY <1>16 DEF Panic, Dies, Serving
<1>17. ASSUME NEW a \in Account, NEW c \in Channel \cup {Nil}, Move(a, c) PROVE Steady
      BY <1>17 DEF Move, Serving
<1>18. ASSUME Crash PROVE Steady
      BY <1>18 DEF Crash, Dies, Serving
<1>19. ASSUME UNCHANGED vars PROVE Steady
      BY <1>19 DEF vars
<1> HIDE DEF TypeOK, Asked, Unanswered, Due, Steady
<1> QED BY <1>1, <1>2, <1>3, <1>4, <1>5, <1>6, <1>7, <1>8, <1>9, <1>10, <1>11,
           <1>12, <1>13, <1>14, <1>15, <1>16, <1>17, <1>18, <1>19,
          SteadyReaches DEF Next, Handle

-----------------------------------------------------------------------------
\* What is pushed stays as its receivers and its sender do.
LEMMA SamePushes ==
    ASSUME NEW r \in Request, pushed' = pushed, found'[r] = found[r], chan'[r] = chan[r]
    PROVE  PushedTo(r)' = PushedTo(r) /\ Receivers(r)' = Receivers(r) /\ OneGateway(r)' = OneGateway(r)
<1>1. PushedTo(r)' = PushedTo(r) /\ Receivers(r)' = Receivers(r)
      BY DEF PushedTo, Receivers
<1> QED BY <1>1 DEF OneGateway

\* Pushes come from Dispatch alone, behind the lookup that found their receivers.
LEMMA PushingStep ==
    ASSUME TypeOK, Asked, Unanswered, Whereabouts, Pushing, [Next]_vars
    PROVE  Pushing'
<1> USE TalkAssumption DEF TypeOK, answered, request, calling, observed, Places,
        Commands, Asked, Unanswered, Ended, Early
<1> DEFINE P(q) ==
        /\ PushedTo(q) # {} => pc[q] \in {"Resp", "done", "lost"}
        /\ pc[q] = "GetLocations" => found[q] = {}
        /\ pc[q] = "call" /\ command[q] # "user" => found[q] = {}
        /\ pc[q] = "Members" => found[q] = {}
        /\ command[q] = "user" => found[q] \subseteq where[q]
        /\ OneGateway(q)
        /\ (command[q] = "create" /\ pc[q] = "done" /\ answers[q] = 0 /\ Receivers(q) # {})
                => PushedTo(q) # {}
<1> SUFFICES ASSUME NEW q \in Request PROVE P(q)'
      BY DEF Pushing
<1>0. P(q) BY DEF Pushing
<1>a. ASSUME pushed' = pushed, found'[q] = found[q], chan'[q] = chan[q]
      PROVE  /\ PushedTo(q)' = PushedTo(q) /\ Receivers(q)' = Receivers(q)
             /\ OneGateway(q)' = OneGateway(q)
      BY <1>a, SamePushes
\* Without pushes the receivers may change.
<1>b. ASSUME PushedTo(q) = {}, pushed' = pushed
      PROVE  PushedTo(q)' = {} /\ OneGateway(q)'
      <2>1. PushedTo(q)' = {} BY <1>b DEF PushedTo
      <2> QED BY <2>1 DEF OneGateway
<1> HIDE DEF Pushing
<1>1. ASSUME NEW r \in Request, NEW what \in Commands, NEW c \in Channel \cup {Nil}, NEW d \in Account \cup Group \cup {Nil}, Serve(r, what, c, d)
      PROVE P(q)'
      <2>1. CASE q = r
            <3>1. /\ pc[q] = "new" /\ pc'[q] = "body" /\ found' = found /\ pushed' = pushed
                  /\ PushedTo(q) = {} /\ found[q] = {}
                  BY <1>0, <1>1, <2>1 DEF Serve, Goto
            <3> QED BY <1>b, <3>1
      <2>2. CASE q # r
            <3>1. /\ pc'[q] = pc[q] /\ command'[q] = command[q] /\ found' = found
                  /\ chan'[q] = chan[q] /\ where'[q] = where[q] /\ pushed' = pushed
                  /\ answers'[q] = answers[q]
                  BY <1>1, <2>2 DEF Serve, Goto, Respond
            <3> QED BY <1>0, <1>a, <3>1
      <2> QED BY <2>1, <2>2
<1>2. ASSUME NEW r \in Request, ReadBody(r) PROVE P(q)'
      <2>1. pushed' = pushed /\ found' = found /\ chan' = chan
            BY <1>2 DEF ReadBody
      <2> QED BY <1>0, <1>a, <1>2, <2>1 DEF ReadBody, Goto
<1>3. ASSUME NEW r \in Request, BadBody(r) PROVE P(q)'
      <2>1. pushed' = pushed /\ found' = found /\ chan' = chan
            BY <1>3 DEF BadBody
      <2> QED BY <1>0, <1>a, <1>3, <2>1 DEF BadBody, Ends, Goto, Respond
<1>4. ASSUME NEW r \in Request, Located(r) PROVE P(q)'
      <2>1. CASE q = r
            <3>1. /\ PushedTo(q) = {} /\ pushed' = pushed /\ where' = where /\ command' = command
                  BY <1>0, <1>4, <2>1 DEF Located
            <3>2. /\ pc'[q] \in {"call", "Dispatch", "Resp"}
                  /\ pc'[q] = "call" => command'[q] = "user"
                  /\ command'[q] = "user" => found'[q] \subseteq where'[q]
                  BY <1>0, <1>4, <2>1 DEF Located, Goto, Location, Whereabouts
            <3> QED BY <1>b, <3>1, <3>2
      <2>2. CASE q # r
            <3>1. /\ pc'[q] = pc[q] /\ found'[q] = found[q] /\ command' = command
                  /\ chan' = chan /\ where' = where /\ pushed' = pushed /\ answers' = answers
                  BY <1>4, <2>2 DEF Located, Goto, Location
            <3> QED BY <1>0, <1>a, <3>1
      <2> QED BY <2>1, <2>2
<1>5. ASSUME NEW r \in Request, NotLocated(r) PROVE P(q)'
      <2>1. pushed' = pushed /\ found' = found /\ chan' = chan
            BY <1>5 DEF NotLocated
      <2> QED BY <1>0, <1>a, <1>5, <2>1 DEF NotLocated, Ends, Goto, Respond
<1>6. ASSUME NEW r \in Request, LocateFails(r) PROVE P(q)'
      <2>1. pushed' = pushed /\ found' = found /\ chan' = chan
            BY <1>6 DEF LocateFails
      <2> QED BY <1>0, <1>a, <1>6, <2>1 DEF LocateFails, Goto
<1>7. ASSUME NEW r \in Request, Replied(r) PROVE P(q)'
      <2>1. pushed' = pushed /\ found' = found /\ chan' = chan
            BY <1>7 DEF Replied
      <2> QED BY <1>0, <1>a, <1>7, <2>1 DEF Replied, CarriedOut, Writes, Goto, Afterwards, Route
<1>8. ASSUME NEW r \in Request, Refused(r) PROVE P(q)'
      <2>1. pushed' = pushed /\ found' = found /\ chan' = chan
            BY <1>8 DEF Refused
      <2> QED BY <1>0, <1>a, <1>8, <2>1 DEF Refused, CallFails, Ends, Goto, Respond, Route
<1>9. ASSUME NEW r \in Request, TimesOut(r) PROVE P(q)'
      <2>1. pushed' = pushed /\ found' = found /\ chan' = chan
            BY <1>9 DEF TimesOut
      <2> QED BY <1>0, <1>a, <1>9, <2>1 DEF TimesOut, CarriedOut, Writes, CallFails, Ends, Goto, Respond, Route
<1>10. ASSUME NEW r \in Request, GetLocations(r) PROVE P(q)'
      <2>1. CASE q = r
            <3>1. /\ PushedTo(q) = {} /\ pushed' = pushed /\ where' = where /\ command' = command
                  BY <1>0, <1>10, <2>1 DEF GetLocations
            <3>2. /\ pc'[q] \in {"call", "Dispatch", "Resp"}
                  /\ pc'[q] = "call" => command'[q] = "user"
                  /\ command'[q] = "user" => found'[q] \subseteq where'[q]
                  BY <1>0, <1>10, <2>1 DEF GetLocations, Online, Goto
            <3> QED BY <1>b, <3>1, <3>2
      <2>2. CASE q # r
            <3>1. /\ pc'[q] = pc[q] /\ found'[q] = found[q] /\ command' = command
                  /\ chan' = chan /\ where' = where /\ pushed' = pushed /\ answers' = answers
                  BY <1>10, <2>2 DEF GetLocations, Online, Goto
            <3> QED BY <1>0, <1>a, <3>1
      <2> QED BY <2>1, <2>2
<1>11. ASSUME NEW r \in Request, NobodyOnline(r) PROVE P(q)'
      <2>1. pushed' = pushed /\ found' = found /\ chan' = chan
            BY <1>11 DEF NobodyOnline
      <2>2. pc[r] = "GetLocations" BY <1>11 DEF NobodyOnline
      <2>3. q = r => Receivers(q) = {} BY <1>0, <2>2 DEF Receivers
      <2> QED BY <1>0, <1>a, <1>11, <2>1, <2>3 DEF NobodyOnline, Ends, Goto, Respond
<1>12. ASSUME NEW r \in Request, GetLocationsFails(r) PROVE P(q)'
      <2>1. pushed' = pushed /\ found' = found /\ chan' = chan
            BY <1>12 DEF GetLocationsFails
      <2> QED BY <1>0, <1>a, <1>12, <2>1 DEF GetLocationsFails, Ends, Goto, Respond
<1>13. ASSUME NEW r \in Request, Dispatch(r) PROVE P(q)'
      <2>0. /\ found' = found /\ chan' = chan /\ command' = command /\ where' = where
            /\ answers' = answers
            BY <1>13 DEF Dispatch
      <2>1. CASE q = r
            <3>1. /\ pc[q] = "Dispatch" /\ pc'[q] \in {"Resp", "done"} /\ PushedTo(q) = {}
                  BY <1>0, <1>13, <2>1 DEF Dispatch, Dispatched, Goto
            <3>2. Receivers(q)' = Receivers(q)
                  BY <2>0 DEF Receivers
            <3>3. CASE Receivers(r) = {}
                  <4>1. pushed' = pushed BY <1>13, <3>3 DEF Dispatch
                  <4> QED BY <1>0, <1>b, <2>0, <2>1, <3>1, <3>2, <3>3, <4>1
            <3>4. CASE Receivers(r) # {}
                  <4>1. PICK c \in Receivers(r) :
                          pushed' = pushed \cup {<<r, d>> : d \in {e \in Receivers(r) : Gate[e] = Gate[c]}}
                        BY <1>13, <3>4 DEF Dispatch
                  <4>2. Receivers(r) \subseteq Channel BY DEF Receivers
                  <4>3. PushedTo(q)' = {e \in Receivers(q) : Gate[e] = Gate[c]}
                        BY <2>1, <3>1, <4>1, <4>2 DEF PushedTo
                  <4>4. PushedTo(q)' # {} BY <2>1, <4>1, <4>3
                  <4>5. Gate[c] \in Gateway BY <4>1, <4>2
                  <4>6. OneGateway(q)' BY <3>2, <4>3, <4>5 DEF OneGateway
                  <4> QED BY <1>0, <2>0, <3>1, <4>4, <4>6
            <3> QED BY <3>3, <3>4
      <2>2. CASE q # r
            <3>1. pc'[q] = pc[q]
                  BY <1>13, <2>2 DEF Dispatch, Dispatched, Goto
            <3>2. PushedTo(q)' = PushedTo(q)
                  BY <1>13, <2>2 DEF Dispatch, PushedTo
            <3>3. Receivers(q)' = Receivers(q)
                  BY <2>0 DEF Receivers
            <3>4. OneGateway(q)' = OneGateway(q)
                  BY <3>2, <3>3 DEF OneGateway
            <3> QED BY <1>0, <2>0, <3>1, <3>2, <3>3, <3>4
      <2> QED BY <2>1, <2>2
<1>14. ASSUME NEW r \in Request, DispatchFails(r) PROVE P(q)'
      <2>1. pushed' = pushed /\ found' = found /\ chan' = chan
            BY <1>14 DEF DispatchFails
      <2> QED BY <1>0, <1>a, <1>14, <2>1 DEF DispatchFails, Ends, Goto, Respond
<1>15. ASSUME NEW r \in Request, Resp(r) PROVE P(q)'
      <2>1. pushed' = pushed /\ found' = found /\ chan' = chan
            BY <1>15 DEF Resp
      <2> QED BY <1>0, <1>a, <1>15, <2>1 DEF Resp, Ends, Goto, Respond
<1>16. ASSUME NEW r \in Request, Panic(r) PROVE P(q)'
      <2>1. pushed' = pushed /\ found' = found /\ chan' = chan
            BY <1>16 DEF Panic
      <2> QED BY <1>0, <1>a, <1>16, <2>1 DEF Panic, Dies, Serving
<1>17. ASSUME NEW a \in Account, NEW c \in Channel \cup {Nil}, Move(a, c) PROVE P(q)'
      <2>1. pushed' = pushed /\ found' = found /\ chan' = chan
            BY <1>17 DEF Move
      <2> QED BY <1>0, <1>a, <1>17, <2>1 DEF Move, Serving
<1>18. ASSUME Crash PROVE P(q)'
      <2>1. pushed' = pushed /\ found' = found /\ chan' = chan
            BY <1>18 DEF Crash
      <2> QED BY <1>0, <1>a, <1>18, <2>1 DEF Crash, Dies, Serving
<1>19. ASSUME UNCHANGED vars PROVE P(q)'
      <2>1. pushed' = pushed /\ found' = found /\ chan' = chan
            BY <1>19 DEF vars
      <2> QED BY <1>0, <1>a, <1>19, <2>1 DEF vars
<1> HIDE DEF TypeOK, Asked, Unanswered, P
<1> QED BY <1>1, <1>2, <1>3, <1>4, <1>5, <1>6, <1>7, <1>8, <1>9, <1>10, <1>11,
           <1>12, <1>13, <1>14, <1>15, <1>16, <1>17, <1>18, <1>19 DEF Next, Handle

-----------------------------------------------------------------------------
LEMMA Initially == Init => IInv
<1> SUFFICES ASSUME Init PROVE IInv
    OBVIOUS
<1> USE TalkAssumption DEF Init
<1>1. TypeOK
      BY DEF TypeOK, Places, Commands, Status
<1>2. Storing /\ Answering
      BY DEF Storing, Asked, Counted, HasCopy, PushedStored, SuccessStored, Answering,
             Unanswered, RefusedIsNotStored, AnsweredOnce, Stores
<1>3. Locating /\ Reaching
      BY DEF Locating, Whereabouts, FoundThere, Reaching
<1>4. Pushing
      BY DEF Pushing, PushedTo, OneGateway
<1> QED BY <1>1, <1>2, <1>3, <1>4 DEF IInv

LEMMA Inductive == IInv /\ [Next]_vars => IInv'
<1> SUFFICES ASSUME IInv, [Next]_vars PROVE IInv'
    OBVIOUS
<1>1. Reaching'
      BY ReachingStep DEF IInv, Storing, Answering, Locating
<1>2. Pushing'
      BY PushingStep DEF IInv, Storing, Answering, Locating
<1> QED BY <1>1, <1>2, TypeOKStep, StoringStep, AnsweringStep, LocatingStep DEF IInv

\* Every reachable state satisfies the strengthening.
THEOREM Invariance == Spec => []IInv
<1>1. Init => IInv BY Initially
<1>2. IInv /\ [Next]_vars => IInv' BY Inductive
<1> QED BY <1>1, <1>2, PTL DEF Spec

\* Every variable of the handlers keeps its type: no request has more copies or
\* lost replies than attempts, and none is answered more than twice.
THEOREM TypeCorrect == Spec => []TypeOK
<1>1. IInv => TypeOK BY DEF IInv
<1> QED BY <1>1, Invariance, PTL

\* What was pushed or answered with success is stored.
THEOREM IsStoredFirst == Spec => []StoredFirst
<1>1. IInv => StoredFirst
      BY DEF IInv, Storing, PushedStored, SuccessStored, StoredFirst
<1> QED BY <1>1, Invariance, PTL

\* A second copy comes of a reply that was lost.
THEOREM OneUnlessUnheard == Spec => []TwiceOnlyUnheard
<1>1. IInv => TwiceOnlyUnheard BY DEF IInv, Storing, Counted, TwiceOnlyUnheard
<1> QED BY <1>1, Invariance, PTL

\* A request that was answered with an error is stored as often as replies of the
\* service were lost, at most, and once more when a step behind the insertion
\* failed (the error paths of DoUserTalk, DoGroupTalk and DoCreate).
THEOREM ErrorsAreTrue == Spec => []RefusedIsNotStored
<1>1. IInv => RefusedIsNotStored BY DEF IInv, Answering
<1> QED BY <1>1, Invariance, PTL

\* One answer, and two only without a destination.
THEOREM OneAnswer == Spec => []AnsweredOnce
<1>1. IInv => AnsweredOnce BY DEF IInv, Answering
<1> QED BY <1>1, Invariance, PTL

\* Pushes go to the receivers found at one gateway, all of them and no others; a
\* talk's receiver was there while it was served, and has it pushed if it stays
\* there and its sender is told Success; DoCreate is not silent without a push to
\* receivers it found (Dispatch).
THEOREM Pushes == Spec => []PushReaches
<1>1. ASSUME IInv, NEW r \in Request, NEW c \in Channel, command[r] = "user",
             where[r] = {c}, c # chan[r], found[r] # {}, "Success" \in told[r]
      PROVE  <<r, c>> \in pushed
      <2>1. PICK d \in Channel : Found(r, d) /\ (d = chan[r] \/ <<r, d>> \in pushed)
            BY <1>1 DEF IInv, Reaching, Reached
      <2> QED BY <1>1, <2>1 DEF Found
<1>2. ASSUME IInv, NEW r \in Request
      PROVE  /\ OneGateway(r)
             /\ command[r] = "user" => PushedTo(r) \subseteq where[r]
             /\ (command[r] = "create" /\ pc[r] = "done" /\ answers[r] = 0
                    /\ Receivers(r) # {}) => PushedTo(r) # {}
      BY <1>2 DEF IInv, Pushing, OneGateway, Receivers
<1>3. IInv => PushReaches BY <1>1, <1>2 DEF PushReaches, OneGateway
<1> QED BY <1>3, Invariance, PTL
=============================================================================
