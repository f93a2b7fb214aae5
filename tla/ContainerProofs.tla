-------------------------- MODULE ContainerProofs --------------------------
(***************************************************************************)
(* Theorems about Container and its Server, for every set of connections,  *)
(* ids and clients, every capacity and every number of frames.             *)
(***************************************************************************)
EXTENDS Container, TLAPS

\* Ids are given to connections that are made, each to one.
IdsUnique ==
    /\ \A c \in Conn : id[c] = None <=> place[c] = "none"
    /\ \A c, d \in Conn : c # d => id[c] = None \/ id[c] # id[d]

\* An entry of the registry is a channel that has yet to remove itself.
EntriesLive ==
    \A i \in Id : registry[i] # None =>
        id[registry[i]] = i /\ place[registry[i]] \in {"reading", "ended"}

\* Shutdown closes what it listed, and what it did not list came after.
ToClose ==
    /\ shutting = "no" => listed = {} /\ after = {} /\ ~timedOut
    /\ shutting = "done" => listed = {}
    /\ \A c \in Conn :
            (shutting # "no" /\ ~timedOut /\ place[c] = "reading" /\ open[c])
                => c \in after \cup listed

LeavesNaming == main \in {"deregistered", "exited"} /\ named => deregisterFailed

Names(ids, i) == \E n \in DOMAIN ids : ids[n] = i

Has(c, k) == \E n \in DOMAIN box[c] : box[c][n] = <<k, frames[k]>>

\* The channel at hand is the one the next id names.
AtHand ==
    \A k \in Client :
        /\ Distinct(to[k])
        /\ reading[k] = "send" => /\ to[k] # <<>> /\ channel[k] \in Conn
                                  /\ id[channel[k]] = Head(to[k])
        /\ reading[k] \in {"none", "read"} \/ frames[k] = 0 => to[k] = <<>>

\* A receiver that is still owed the message is named by what is left of it.
StillOwed ==
    \A k \in Client : \A c \in owed[k] :
        /\ place[c] \notin {"none", "accepted"}
        /\ \/ place[c] # "reading"
           \/ Has(c, k)
           \/ Names(to[k], id[c])

\* What a channel accepted of a client was read, and the message at hand does
\* not name it any more when it has accepted that.
Accepted ==
    \A c \in Conn :
        /\ place[c] = "none" => box[c] = <<>>
        /\ \A n \in DOMAIN box[c] : \A k \in Client :
                box[c][n][1] = k =>
                    /\ box[c][n][2] <= frames[k]
                    /\ box[c][n][2] = frames[k] => ~Names(to[k], id[c])

IInv == /\ TypeOK /\ IdsUnique /\ EntriesLive /\ LiveIsRegistered /\ ToClose
        /\ LeavesNaming /\ AtHand /\ StillOwed /\ Accepted /\ InOrderOnce
-----------------------------------------------------------------------------
\* A process that ended leaves the state it starts from.
LEMMA ForgetTyped == ServerForgets => ServerTypeOK'
<1> SUFFICES ASSUME ServerForgets PROVE ServerTypeOK'
      OBVIOUS
<1>1. /\ place' \in [Conn -> {"none", "accepted", "reading", "ended", "removed", "closed"}]
      /\ id' \in [Conn -> Id \cup {None}]
      /\ open' \in [Conn -> BOOLEAN]
      /\ registry' \in [Id -> Conn \cup {None}]
      BY DEF ServerForgets
<1>2. /\ writer' \in [Conn -> {"none", "on", "gone"}]
      /\ queued' \in [Conn -> 0 .. Cap]
      BY ServerAssumption DEF ServerForgets
<1> QED BY <1>1, <1>2 DEF ServerForgets, ServerTypeOK

\* Types are kept; that a queue has room guards each append.
LEMMA TypeOKStep == ASSUME TypeOK, AtHand, [Next]_vars PROVE TypeOK'
<1> USE ServerAssumption, ContainerAssumption DEF TypeOK, ServerTypeOK, serverVars,
        socket, outgoing, closing, lifecycle, pushing
<1>1. ASSUME InitContainer PROVE TypeOK'
      BY <1>1 DEF InitContainer
<1>2. ASSUME Start PROVE TypeOK'
      BY <1>2 DEF Start
<1>3. ASSUME Register PROVE TypeOK'
      BY <1>3 DEF Register
<1>4. ASSUME Signal PROVE TypeOK'
      BY <1>4 DEF Signal
<1>5. ASSUME ShutdownServer PROVE TypeOK'
      <2>1. ASSUME NEW c \in Conn, ShutdownClose(c) PROVE TypeOK'
            BY <1>5, <2>1 DEF ShutdownServer, ShutdownClose
      <2>2. CASE ShutdownList
            BY <1>5, <2>2 DEF ShutdownServer, ShutdownList, Registered
      <2>3. CASE ShutdownEnds
            BY <1>5, <2>3 DEF ShutdownServer, ShutdownEnds
      <2> QED BY <1>5, <2>1, <2>2, <2>3 DEF ShutdownServer, Shutdown
<1>6. ASSUME Deregister PROVE TypeOK'
      BY <1>6 DEF Deregister
<1>7. ASSUME DeregisterFails PROVE TypeOK'
      BY <1>7 DEF DeregisterFails
<1>8. ASSUME Exit PROVE TypeOK'
      <2>1. ServerTypeOK'
            BY <1>8, ForgetTyped DEF Exit, Forget
      <2>2. /\ to' \in [Client -> Seq(Id)] /\ owed' \in [Client -> SUBSET Conn]
            /\ box' \in [Conn -> Seq(Client \X (1 .. MaxFrame))]
            BY <1>8 DEF Exit, Forget
      <2>3. frames' \in [Client -> 0 .. MaxFrame]
            BY <1>8 DEF Exit, Forget
      <2> QED BY <1>8, <2>1, <2>2, <2>3 DEF Exit, Forget
<1>9. ASSUME Dies PROVE TypeOK'
      <2>1. ServerTypeOK'
            BY <1>9, ForgetTyped DEF Dies, Forget
      <2>2. /\ to' \in [Client -> Seq(Id)] /\ owed' \in [Client -> SUBSET Conn]
            /\ box' \in [Conn -> Seq(Client \X (1 .. MaxFrame))]
            BY <1>9 DEF Dies, Forget
      <2>3. frames' \in [Client -> 0 .. MaxFrame]
            BY <1>9 DEF Dies, Forget
      <2> QED BY <1>9, <2>1, <2>2, <2>3 DEF Dies, Forget
<1>10. ASSUME Listen, UNCHANGED <<lifecycle, pushing>> PROVE TypeOK'
      BY <1>10 DEF Listen
<1>11. ASSUME NEW c \in Conn, Accept(c), UNCHANGED <<lifecycle, pushing>> PROVE TypeOK'
      BY <1>11 DEF Accept, Used, Goto
<1>12. ASSUME NEW c \in Conn, Add(c), UNCHANGED <<lifecycle, pushing>> PROVE TypeOK'
      BY <1>12 DEF Add, Goto
<1>13. ASSUME NEW c \in Conn, ReadEnds(c), UNCHANGED <<lifecycle, pushing>>
       PROVE TypeOK'
      BY <1>13 DEF ReadEnds, Goto
<1>14. ASSUME NEW c \in Conn, Remove(c), UNCHANGED <<lifecycle, pushing>> PROVE TypeOK'
      BY <1>14 DEF Remove, Goto
<1>15. ASSUME NEW c \in Conn, Disconnect(c), UNCHANGED <<lifecycle, pushing>>
       PROVE TypeOK'
      BY <1>15 DEF Disconnect, Goto
<1>16. ASSUME NEW c \in Conn, Write(c), UNCHANGED <<lifecycle, pushing>> PROVE TypeOK'
      BY <1>16 DEF Write
<1>17. ASSUME NEW c \in Conn, WriteFails(c), UNCHANGED <<lifecycle, pushing>>
       PROVE TypeOK'
      BY <1>17 DEF WriteFails
<1>18. ASSUME NEW k \in Client, Connected(k) PROVE TypeOK'
      BY <1>18 DEF Connected, At
<1>19. ASSUME NEW k \in Client, Skip(k) PROVE TypeOK'
      BY <1>19 DEF Skip, ReadFrame
<1>20. ASSUME NEW k \in Client, NEW ids \in Receivers, PushMessage(k, ids) PROVE TypeOK'
      BY <1>20 DEF PushMessage, ReadFrame, At
<1>21. ASSUME NEW k \in Client, Lookup(k) PROVE TypeOK'
      BY <1>21 DEF Lookup, At
<1>22. ASSUME NEW k \in Client, LookupFails(k) PROVE TypeOK'
      BY <1>22 DEF LookupFails
<1>23. ASSUME NEW k \in Client, Send(k) PROVE TypeOK'
      <2>1. channel[k] \in Conn /\ to[k] # <<>> /\ frames[k] \in 1 .. MaxFrame
            BY <1>23 DEF Send, AtHand
      <2>2. box' \in [Conn -> Seq(Client \X (1 .. MaxFrame))]
            BY <1>23, <2>1 DEF Send
      <2>3. to' \in [Client -> Seq(Id)]
            BY <1>23, <2>1 DEF Send
      <2>4. queued' \in [Conn -> 0 .. Cap]
            BY <1>23, <2>1 DEF Send, Enqueue, CanSend
      <2> QED BY <1>23, <2>2, <2>3, <2>4 DEF Send, At, Enqueue
<1>24. ASSUME NEW k \in Client, Pushed(k) PROVE TypeOK'
      BY <1>24 DEF Pushed, At
<1>25. ASSUME NEW k \in Client, ReadFails(k) PROVE TypeOK'
      BY <1>25 DEF ReadFails, At
<1>26. CASE UNCHANGED vars
      BY <1>26 DEF vars
<1> QED BY <1>1, <1>2, <1>3, <1>4, <1>5, <1>6, <1>7, <1>8, <1>9, <1>10, <1>11,
           <1>12, <1>13, <1>14, <1>15, <1>16, <1>17, <1>18, <1>19, <1>20, <1>21,
           <1>22, <1>23, <1>24, <1>25, <1>26 DEF Next, Main, ServerSteps, Serve,
           WriteLoop, Readloop, Push

\* The steps that touch the registry, or the place or the id of a connection.
LEMMA RegistrySteps ==
    ASSUME [Next]_vars
    PROVE  \/ UNCHANGED <<place, id, registry>> \/ Forget
           \/ \E c \in Conn : \/ Accept(c) \/ Add(c) \/ ReadEnds(c)
                             \/ Remove(c) \/ Disconnect(c)
<1> DEFINE Same == UNCHANGED <<place, id, registry>>
<1>1. ASSUME Main \/ InitContainer \/ Signal \/ Dies PROVE Same \/ Forget
      BY <1>1 DEF Main, InitContainer, Signal, Dies, Start, Register, ShutdownServer,
         Deregister, DeregisterFails, Exit, Shutdown, ShutdownList, ShutdownEnds,
         ShutdownClose, serverVars, socket
<1>2. ASSUME NEW k \in Client, Readloop(k) PROVE Same
      BY <1>2 DEF Readloop, Push, Connected, Skip, ReadFails, PushMessage, Lookup,
         LookupFails, Send, Pushed, serverVars, socket
<1>3. ASSUME NEW c \in Conn, WriteLoop(c) PROVE Same
      BY <1>3 DEF WriteLoop, Write, WriteFails, socket
<1>4. CASE Listen \/ UNCHANGED vars
      BY <1>4 DEF Listen, vars, serverVars, socket
<1> QED BY <1>1, <1>2, <1>3, <1>4 DEF Next, ServerSteps, Serve

\* Accept takes an id nobody used, so no two channels share one, and Add and
\* Remove touch no entry of another.
LEMMA RegistryStep ==
    ASSUME TypeOK, IdsUnique, EntriesLive, LiveIsRegistered, [Next]_vars
    PROVE  (IdsUnique /\ EntriesLive /\ LiveIsRegistered)'
<1> USE ServerAssumption
        DEF TypeOK, ServerTypeOK, IdsUnique, EntriesLive, LiveIsRegistered, Goto
<1> DEFINE Goal == (IdsUnique /\ EntriesLive /\ LiveIsRegistered)'
<1>1. CASE UNCHANGED <<place, id, registry>>
      BY <1>1
<1>2. CASE Forget
      BY <1>2 DEF Forget, ServerForgets
<1>3. ASSUME NEW c \in Conn, Accept(c) PROVE Goal
      BY <1>3 DEF Accept, Used
<1>4. ASSUME NEW c \in Conn, Add(c) PROVE Goal
      BY <1>4 DEF Add
<1>5. ASSUME NEW c \in Conn, ReadEnds(c) PROVE Goal
      BY <1>5 DEF ReadEnds
<1>6. ASSUME NEW c \in Conn, Remove(c) PROVE Goal
      BY <1>6 DEF Remove
<1>7. ASSUME NEW c \in Conn, Disconnect(c) PROVE Goal
      BY <1>7 DEF Disconnect
<1> QED BY <1>1, <1>2, <1>3, <1>4, <1>5, <1>6, <1>7, RegistrySteps

\* Only a failing Deregister leaves the name.
LEMMA LeavesNamingStep == ASSUME LeavesNaming, [Next]_vars PROVE LeavesNaming'
<1> USE DEF LeavesNaming, lifecycle
<1>1. ASSUME Main \/ InitContainer \/ Signal \/ Dies PROVE LeavesNaming'
      BY <1>1 DEF Main, InitContainer, Signal, Dies, Start, Register, ShutdownServer,
         Deregister, DeregisterFails, Exit
<1>2. ASSUME NEW k \in Client, Readloop(k) PROVE UNCHANGED lifecycle
      BY <1>2 DEF Readloop, Push, Connected, Skip, ReadFails, PushMessage, Lookup,
         LookupFails, Send, Pushed
<1> QED BY <1>1, <1>2 DEF Next, vars

\* What is open while Shutdown closes was listed or came later.
LEMMA ToCloseStep ==
    ASSUME TypeOK, IdsUnique, EntriesLive, LiveIsRegistered, ToClose, [Next]_vars
    PROVE  ToClose'
<1> USE ServerAssumption, ContainerAssumption DEF TypeOK, ServerTypeOK, serverVars,
        socket, outgoing, closing, lifecycle, pushing, IdsUnique, EntriesLive,
        LiveIsRegistered, ToClose
<1>1. ASSUME InitContainer PROVE ToClose'
      BY <1>1 DEF InitContainer
<1>2. ASSUME Start PROVE ToClose'
      BY <1>2 DEF Start
<1>3. ASSUME Register PROVE ToClose'
      BY <1>3 DEF Register
<1>4. ASSUME Signal PROVE ToClose'
      BY <1>4 DEF Signal
<1>5. ASSUME ShutdownServer PROVE ToClose'
      <2>1. CASE ShutdownList
            <3>1. ASSUME NEW c \in Conn, place[c] = "reading" PROVE c \in Registered
                  <4>1. id[c] \in Id /\ registry[id[c]] = c /\ c # None
                        BY <3>1
                  <4> QED BY <4>1 DEF Registered
            <3> QED BY <1>5, <2>1, <3>1 DEF ShutdownServer, ShutdownList
      <2>2. ASSUME NEW c \in Conn, ShutdownClose(c) PROVE ToClose'
            BY <1>5, <2>2 DEF ShutdownServer, ShutdownClose
      <2>3. CASE ShutdownEnds
            BY <1>5, <2>3 DEF ShutdownServer, ShutdownEnds
      <2> QED BY <1>5, <2>1, <2>2, <2>3 DEF ShutdownServer, Shutdown
<1>6. ASSUME Deregister PROVE ToClose'
      BY <1>6 DEF Deregister
<1>7. ASSUME DeregisterFails PROVE ToClose'
      BY <1>7 DEF DeregisterFails
<1>8. ASSUME Exit PROVE ToClose'
      BY <1>8 DEF Exit, Forget, ServerForgets
<1>9. ASSUME Dies PROVE ToClose'
      BY <1>9 DEF Dies, Forget, ServerForgets
<1>10. ASSUME Listen, UNCHANGED <<lifecycle, pushing>> PROVE ToClose'
      BY <1>10 DEF Listen
<1>11. ASSUME NEW c \in Conn, Accept(c), UNCHANGED <<lifecycle, pushing>> PROVE ToClose'
      BY <1>11 DEF Accept, Used, Goto
<1>12. ASSUME NEW c \in Conn, Add(c), UNCHANGED <<lifecycle, pushing>> PROVE ToClose'
      BY <1>12 DEF Add, Goto
<1>13. ASSUME NEW c \in Conn, ReadEnds(c), UNCHANGED <<lifecycle, pushing>>
       PROVE ToClose'
      BY <1>13 DEF ReadEnds, Goto
<1>14. ASSUME NEW c \in Conn, Remove(c), UNCHANGED <<lifecycle, pushing>> PROVE ToClose'
      BY <1>14 DEF Remove, Goto
<1>15. ASSUME NEW c \in Conn, Disconnect(c), UNCHANGED <<lifecycle, pushing>>
       PROVE ToClose'
      BY <1>15 DEF Disconnect, Goto
<1>16. ASSUME NEW c \in Conn, Write(c), UNCHANGED <<lifecycle, pushing>> PROVE ToClose'
      BY <1>16 DEF Write
<1>17. ASSUME NEW c \in Conn, WriteFails(c), UNCHANGED <<lifecycle, pushing>>
       PROVE ToClose'
      BY <1>17 DEF WriteFails
<1>18. ASSUME NEW k \in Client, Connected(k) PROVE ToClose'
      BY <1>18 DEF Connected, At
<1>19. ASSUME NEW k \in Client, Skip(k) PROVE ToClose'
      BY <1>19 DEF Skip, ReadFrame
<1>20. ASSUME NEW k \in Client, NEW ids \in Receivers, PushMessage(k, ids)
       PROVE ToClose'
      BY <1>20 DEF PushMessage, ReadFrame, At
<1>21. ASSUME NEW k \in Client, Lookup(k) PROVE ToClose'
      BY <1>21 DEF Lookup, At
<1>22. ASSUME NEW k \in Client, LookupFails(k) PROVE ToClose'
      BY <1>22 DEF LookupFails
<1>23. ASSUME NEW k \in Client, Send(k) PROVE ToClose'
      BY <1>23 DEF Send, At, Enqueue, CanSend
<1>24. ASSUME NEW k \in Client, Pushed(k) PROVE ToClose'
      BY <1>24 DEF Pushed, At
<1>25. ASSUME NEW k \in Client, ReadFails(k) PROVE ToClose'
      BY <1>25 DEF ReadFails, At
<1>26. CASE UNCHANGED vars
      BY <1>26 DEF vars
<1> QED BY <1>1, <1>2, <1>3, <1>4, <1>5, <1>6, <1>7, <1>8, <1>9, <1>10, <1>11,
           <1>12, <1>13, <1>14, <1>15, <1>16, <1>17, <1>18, <1>19, <1>20, <1>21,
           <1>22, <1>23, <1>24, <1>25, <1>26 DEF Next, Main, ServerSteps, Serve,
           WriteLoop, Readloop, Push

\* The channel found is the one the first id names until Send takes both.
LEMMA AtHandStep ==
    ASSUME TypeOK, IdsUnique, EntriesLive, AtHand, [Next]_vars
    PROVE  AtHand'
<1> USE ServerAssumption, ContainerAssumption DEF TypeOK, ServerTypeOK, serverVars,
        socket, outgoing, closing, lifecycle, pushing, IdsUnique, EntriesLive,
        AtHand, Distinct
<1>1. ASSUME InitContainer PROVE AtHand'
      BY <1>1 DEF InitContainer
<1>2. ASSUME Start PROVE AtHand'
      BY <1>2 DEF Start
<1>3. ASSUME Register PROVE AtHand'
      BY <1>3 DEF Register
<1>4. ASSUME Signal PROVE AtHand'
      BY <1>4 DEF Signal
<1>5. ASSUME ShutdownServer PROVE AtHand'
      BY <1>5 DEF ShutdownServer, Shutdown, ShutdownList, ShutdownEnds,
         ShutdownClose, Registered
<1>6. ASSUME Deregister PROVE AtHand'
      BY <1>6 DEF Deregister
<1>7. ASSUME DeregisterFails PROVE AtHand'
      BY <1>7 DEF DeregisterFails
<1>8. ASSUME Exit PROVE AtHand'
      BY <1>8 DEF Exit, Forget, ServerForgets
<1>9. ASSUME Dies PROVE AtHand'
      BY <1>9 DEF Dies, Forget, ServerForgets
<1>10. ASSUME Listen, UNCHANGED <<lifecycle, pushing>> PROVE AtHand'
      BY <1>10 DEF Listen
<1>11. ASSUME NEW c \in Conn, Accept(c), UNCHANGED <<lifecycle, pushing>> PROVE AtHand'
      BY <1>11 DEF Accept, Used, Goto
<1>12. ASSUME NEW c \in Conn, Add(c), UNCHANGED <<lifecycle, pushing>> PROVE AtHand'
      BY <1>12 DEF Add, Goto
<1>13. ASSUME NEW c \in Conn, ReadEnds(c), UNCHANGED <<lifecycle, pushing>>
       PROVE AtHand'
      BY <1>13 DEF ReadEnds, Goto
<1>14. ASSUME NEW c \in Conn, Remove(c), UNCHANGED <<lifecycle, pushing>> PROVE AtHand'
      BY <1>14 DEF Remove, Goto
<1>15. ASSUME NEW c \in Conn, Disconnect(c), UNCHANGED <<lifecycle, pushing>>
       PROVE AtHand'
      BY <1>15 DEF Disconnect, Goto
<1>16. ASSUME NEW c \in Conn, Write(c), UNCHANGED <<lifecycle, pushing>> PROVE AtHand'
      BY <1>16 DEF Write
<1>17. ASSUME NEW c \in Conn, WriteFails(c), UNCHANGED <<lifecycle, pushing>>
       PROVE AtHand'
      BY <1>17 DEF WriteFails
<1>18. ASSUME NEW k \in Client, Connected(k) PROVE AtHand'
      BY <1>18 DEF Connected, At
<1>19. ASSUME NEW k \in Client, Skip(k) PROVE AtHand'
      BY <1>19 DEF Skip, ReadFrame
<1>20. ASSUME NEW k \in Client, NEW ids \in Receivers, PushMessage(k, ids) PROVE AtHand'
      BY <1>20 DEF PushMessage, ReadFrame, At
<1>21. ASSUME NEW k \in Client, Lookup(k) PROVE AtHand'
      BY <1>21 DEF Lookup, At
<1>22. ASSUME NEW k \in Client, LookupFails(k) PROVE AtHand'
      BY <1>22 DEF LookupFails
<1>23. ASSUME NEW k \in Client, Send(k) PROVE AtHand'
      <2>1. to[k] \in Seq(Id) /\ to[k] # <<>> /\ Distinct(to[k]) /\ frames[k] # 0
            BY <1>23 DEF Send
      <2>2. Distinct(Tail(to[k]))
            BY <2>1
      <2>3. to' = [to EXCEPT ![k] = Tail(@)] /\ reading' = [reading EXCEPT ![k] = "lookup"]
            BY <1>23 DEF Send, At
      <2>4. UNCHANGED <<frames, id>> /\ channel' = [channel EXCEPT ![k] = None]
            BY <1>23 DEF Send
      <2> QED BY <2>1, <2>2, <2>3, <2>4
<1>24. ASSUME NEW k \in Client, Pushed(k) PROVE AtHand'
      BY <1>24 DEF Pushed, At
<1>25. ASSUME NEW k \in Client, ReadFails(k) PROVE AtHand'
      BY <1>25 DEF ReadFails, At
<1>26. CASE UNCHANGED vars
      BY <1>26 DEF vars
<1> QED BY <1>1, <1>2, <1>3, <1>4, <1>5, <1>6, <1>7, <1>8, <1>9, <1>10, <1>11,
           <1>12, <1>13, <1>14, <1>15, <1>16, <1>17, <1>18, <1>19, <1>20, <1>21,
           <1>22, <1>23, <1>24, <1>25, <1>26 DEF Next, Main, ServerSteps, Serve,
           WriteLoop, Readloop, Push

-----------------------------------------------------------------------------
\* A step keeps the channels: their ids, and that they only come to an end.
Settled ==
    \A c \in Conn :
        /\ place'[c] = "none" => place[c] = "none"
        /\ place[c] # "none" => id'[c] = id[c]
        /\ place[c] \notin {"none", "accepted"} =>
                /\ place'[c] \notin {"none", "accepted"}
                /\ place'[c] = "reading" => place[c] = "reading"

\* Every step but the end of the process keeps the channels.
LEMMA SettledStep == ASSUME TypeOK, [Next]_vars PROVE Settled \/ Forget
<1> USE ServerAssumption DEF TypeOK, ServerTypeOK, Settled, Goto
<1>1. ASSUME NEW c \in Conn, Accept(c) PROVE Settled
      BY <1>1 DEF Accept
<1>2. ASSUME NEW c \in Conn, Add(c) PROVE Settled
      BY <1>2 DEF Add
<1>3. ASSUME NEW c \in Conn, ReadEnds(c) \/ Remove(c) \/ Disconnect(c) PROVE Settled
      BY <1>3 DEF ReadEnds, Remove, Disconnect
<1> QED BY <1>1, <1>2, <1>3, RegistrySteps

\* What is left to do for one receiver.
Owing(c, k) ==
    /\ place[c] \notin {"none", "accepted"}
    /\ place[c] # "reading" \/ Has(c, k) \/ Names(to[k], id[c])

\* What names another channel than the first still names it afterwards.
LEMMA TailNames ==
    ASSUME NEW ids \in Seq(Id), NEW i, Names(ids, i), i # Head(ids)
    PROVE  Names(Tail(ids), i)
<1>1. PICK n \in DOMAIN ids : ids[n] = i
      BY DEF Names
<1>2. n - 1 \in DOMAIN Tail(ids) /\ Tail(ids)[n - 1] = i
      BY <1>1
<1> QED BY <1>2 DEF Names

\* What a step does not touch stays owed or had.
LEMMA OwedOfOthers ==
    ASSUME TypeOK, StillOwed, Settled, NEW K \in SUBSET Client,
           \A j \in K : UNCHANGED <<to[j], owed[j]>>,
           \A c \in Conn, j \in K : Has(c, j) => Has(c, j)'
    PROVE  \A j \in K : \A c \in owed'[j] : Owing(c, j)'
<1> SUFFICES ASSUME NEW j \in K, NEW c \in owed[j]
             PROVE  Owing(c, j)'
      OBVIOUS
<1>1. c \in Conn
      BY DEF TypeOK
<1>2. Owing(c, j)
      BY DEF StillOwed, Owing
<1>3. Names(to[j], id[c]) => Names(to[j], id[c])' \/ place[c] = "none"
      BY <1>1 DEF Settled, Names
<1> QED BY <1>1, <1>2, <1>3 DEF Settled, Owing

\* A failing lookup was of a channel that is not registered, and a send gave the
\* channel what it was owed.
LEMMA StillOwedStep ==
    ASSUME TypeOK, IdsUnique, EntriesLive, LiveIsRegistered, AtHand, StillOwed,
           [Next]_vars
    PROVE  StillOwed'
<1> USE ServerAssumption, ContainerAssumption
<1> DEFINE Kept(K) == \A j \in K : \A c \in owed'[j] : Owing(c, j)'
<1>0. Kept(Client) => StillOwed'
      BY DEF StillOwed, Owing
<1> HIDE DEF Kept
<1>1. CASE Forget
      BY <1>1 DEF Forget, StillOwed
<1>2. CASE Settled /\ UNCHANGED <<frames, to, owed, box>>
      <2>1. \A c \in Conn, j \in Client : Has(c, j) => Has(c, j)'
            BY <1>2 DEF Has
      <2>2. Kept(Client)
            BY <1>2, <2>1, OwedOfOthers DEF Kept
      <2> QED BY <2>2, <1>0
<1>3. ASSUME Settled, NEW k \in Client, Skip(k) PROVE StillOwed'
      <2>1. \A c \in Conn, j \in Client \ {k} : Has(c, j) => Has(c, j)'
            BY <1>3 DEF Skip, ReadFrame, Has, TypeOK
      <2>2. \A j \in Client \ {k} : UNCHANGED <<to[j], owed[j]>>
            BY <1>3 DEF Skip, TypeOK
      <2>3. Kept(Client \ {k})
            BY <1>3, <2>1, <2>2, OwedOfOthers DEF Kept
      <2>4. owed'[k] = {}
            BY <1>3 DEF Skip, TypeOK
      <2>5. Kept(Client)
            BY <2>3, <2>4 DEF Kept
      <2> QED BY <2>5, <1>0
<1>4. ASSUME Settled, NEW k \in Client, NEW ids \in Receivers, PushMessage(k, ids)
      PROVE  StillOwed'
      <2>1. \A c \in Conn, j \in Client \ {k} : Has(c, j) => Has(c, j)'
            BY <1>4 DEF PushMessage, ReadFrame, Has, TypeOK
      <2>2. \A j \in Client \ {k} : UNCHANGED <<to[j], owed[j]>>
            BY <1>4 DEF PushMessage, TypeOK
      <2>3. Kept(Client \ {k})
            BY <1>4, <2>1, <2>2, OwedOfOthers DEF Kept
      <2>4. ASSUME NEW c \in owed'[k] PROVE Owing(c, k)'
            <3>1. PICK n \in DOMAIN ids : c = registry[ids[n]] /\ c # None
                  BY <1>4, <2>4 DEF PushMessage, TypeOK
            <3>2. ids[n] \in Id /\ id[c] = ids[n] /\ place[c] \in {"reading", "ended"}
                  BY <3>1 DEF EntriesLive
            <3>3. id' = id /\ place' = place /\ to'[k] = ids
                  BY <1>4 DEF PushMessage, serverVars, socket, TypeOK
            <3> QED BY <3>2, <3>3 DEF Owing, Names
      <2>5. Kept(Client)
            BY <2>3, <2>4 DEF Kept
      <2> QED BY <2>5, <1>0
<1>5. ASSUME Settled, NEW k \in Client, LookupFails(k) PROVE StillOwed'
      <2>1. \A c \in Conn, j \in Client : Has(c, j) => Has(c, j)'
            BY <1>5 DEF LookupFails, Has
      <2>2. \A j \in Client \ {k} : UNCHANGED <<to[j], owed[j]>>
            BY <1>5 DEF LookupFails, TypeOK
      <2>3. Kept(Client \ {k})
            BY <1>5, <2>1, <2>2, OwedOfOthers DEF Kept
      <2>4. ASSUME NEW c \in owed'[k] PROVE Owing(c, k)'
            <3>1. c \in owed[k] /\ c \in Conn
                  BY <1>5 DEF LookupFails, TypeOK
            <3>2. Owing(c, k)
                  BY <3>1 DEF StillOwed, Owing
            <3>3. place[c] = "reading" => id[c] # Head(to[k])
                  BY <1>5, <3>1 DEF LookupFails, LiveIsRegistered, TypeOK, ServerTypeOK
            <3>4. id' = id /\ place' = place /\ to'[k] = Tail(to[k])
                  BY <1>5 DEF LookupFails, serverVars, socket, TypeOK
            <3>5. Names(to[k], id[c]) /\ id[c] # Head(to[k]) => Names(to'[k], id[c])
                  BY <3>4, TailNames DEF TypeOK
            <3> QED BY <2>1, <3>1, <3>2, <3>3, <3>4, <3>5 DEF Owing
      <2>5. Kept(Client)
            BY <2>3, <2>4 DEF Kept
      <2> QED BY <2>5, <1>0
<1>6. ASSUME Settled, NEW k \in Client, Send(k) PROVE StillOwed'
      <2>0. PICK d \in Conn : d = channel[k] /\ id[d] = Head(to[k]) /\ to[k] # <<>>
            BY <1>6 DEF Send, AtHand
      <2>1. \A c \in Conn, j \in Client : Has(c, j) => Has(c, j)'
            <3> SUFFICES ASSUME NEW c \in Conn, NEW j \in Client, NEW n \in DOMAIN box[c],
                                box[c][n] = <<j, frames[j]>>
                         PROVE  Has(c, j)'
                  BY DEF Has
            <3>1. /\ box[c] \in Seq(Client \X (1 .. MaxFrame)) /\ frames' = frames
                  /\ box'[c] = IF c = d THEN Append(box[c], <<k, frames[k]>>) ELSE box[c]
                  BY <1>6, <2>0 DEF Send, TypeOK
            <3>2. n \in DOMAIN box'[c] /\ box'[c][n] = box[c][n]
                  BY <3>1
            <3> QED BY <3>1, <3>2 DEF Has
      <2>2. \A j \in Client \ {k} : UNCHANGED <<to[j], owed[j]>>
            BY <1>6 DEF Send, TypeOK
      <2>3. Kept(Client \ {k})
            BY <1>6, <2>1, <2>2, OwedOfOthers DEF Kept
      <2>4. ASSUME NEW c \in owed'[k] PROVE Owing(c, k)'
            <3>1. c \in owed[k] /\ c \in Conn
                  BY <1>6 DEF Send, TypeOK
            <3>2. Owing(c, k)
                  BY <3>1 DEF StillOwed, Owing
            <3>3. id' = id /\ place' = place /\ to'[k] = Tail(to[k]) /\ frames' = frames
                  BY <1>6 DEF Send, socket, TypeOK
            <3>4. Has(d, k)'
                  <4>1. box'[d] = Append(box[d], <<k, frames[k]>>) /\ box[d] \in Seq(Client \X (1 .. MaxFrame))
                        BY <1>6, <2>0 DEF Send, TypeOK
                  <4>2. Len(box[d]) + 1 \in DOMAIN box'[d]
                        BY <4>1
                  <4>3. box'[d][Len(box[d]) + 1] = <<k, frames'[k]>>
                        BY <4>1, <3>3
                  <4> QED BY <4>2, <4>3 DEF Has
            <3>5. c # d /\ place[c] = "reading" => id[c] # Head(to[k])
                  BY <2>0, <3>1 DEF IdsUnique, TypeOK, ServerTypeOK
            <3>6. Names(to[k], id[c]) /\ id[c] # Head(to[k]) => Names(to'[k], id[c])
                  BY <3>3, TailNames DEF TypeOK
            <3> QED BY <2>1, <3>1, <3>2, <3>3, <3>4, <3>5, <3>6 DEF Owing
      <2>5. Kept(Client)
            BY <2>3, <2>4 DEF Kept
      <2> QED BY <2>5, <1>0
<1>7. ASSUME NEW k \in Client, Settled, Lookup(k) \/ Pushed(k) \/ Connected(k) \/ ReadFails(k)
      PROVE  StillOwed'
      BY <1>2, <1>7 DEF Lookup, Pushed, Connected, ReadFails
<1>8. ASSUME Settled, UNCHANGED pushing PROVE StillOwed'
      BY <1>2, <1>8 DEF pushing
<1>9. CASE Settled
      BY <1>1, <1>3, <1>4, <1>5, <1>6, <1>7, <1>8, <1>9
      DEF Next, Main, Readloop, Push, vars, InitContainer, Start, Register, Signal, Dies,
          ShutdownServer, Deregister, DeregisterFails, Exit
<1> QED BY <1>1, <1>9, SettledStep

\* Frames only grow, and what is left of a message only shrinks, but for a new one.
Onward(k) ==
    /\ frames'[k] >= frames[k]
    /\ frames'[k] = frames[k] => \A i \in Id : Names(to'[k], i) => Names(to[k], i)

\* Without an append, frames only grow and lists only shrink.
LEMMA AcceptedOutside ==
    ASSUME TypeOK, IdsUnique, Accepted, Settled, \A k \in Client : Onward(k), UNCHANGED box,
           frames' \in [Client -> Nat]
    PROVE  Accepted'
<1>1. \A c \in Conn : place'[c] = "none" => box'[c] = <<>>
      BY DEF Settled, Accepted
<1>2. ASSUME NEW c \in Conn, NEW n \in DOMAIN box[c], NEW k \in Client, box[c][n][1] = k
      PROVE  /\ box[c][n][2] <= frames'[k]
             /\ box[c][n][2] = frames'[k] => ~Names(to'[k], id'[c])
      <2>1. place[c] # "none" /\ id'[c] = id[c]
            <3>1. box[c] # <<>>
                  BY <1>2
            <3> QED BY <3>1 DEF Accepted, Settled
      <2>2. box[c][n][2] \in Nat /\ frames[k] \in Nat /\ frames'[k] \in Nat
            BY DEF TypeOK
      <2>3. /\ box[c][n][2] <= frames[k]
            /\ box[c][n][2] = frames[k] => ~Names(to[k], id[c])
            BY <1>2 DEF Accepted
      <2>4. id[c] \in Id
            BY <2>1 DEF TypeOK, ServerTypeOK, IdsUnique
      <2> QED BY <2>1, <2>2, <2>3, <2>4 DEF Onward
<1> QED BY <1>1, <1>2 DEF Accepted

\* A list without its first id names no more, and not the first.
LEMMA NamesTail ==
    ASSUME NEW ids \in Seq(Id), ids # <<>>, NEW i
    PROVE  /\ Names(Tail(ids), i) => Names(ids, i)
           /\ Distinct(ids) => ~Names(Tail(ids), Head(ids))
<1>1. \A n \in DOMAIN Tail(ids) : n + 1 \in DOMAIN ids /\ Tail(ids)[n] = ids[n + 1] /\ n \in Nat
      OBVIOUS
<1>2. 1 \in DOMAIN ids /\ Head(ids) = ids[1] /\ \A n \in DOMAIN Tail(ids) : n + 1 # 1
      OBVIOUS
<1> QED BY <1>1, <1>2 DEF Names, Distinct

\* Send appends what it has read and then strikes the id from the list.
LEMMA AcceptedStep ==
    ASSUME TypeOK, IdsUnique, AtHand, Accepted, [Next]_vars, TypeOK'
    PROVE  Accepted'
<1> USE ServerAssumption, ContainerAssumption
<1>0. frames \in [Client -> Nat] /\ frames' \in [Client -> Nat]
      BY DEF TypeOK
<1>1. CASE Forget
      BY <1>1 DEF Forget, Accepted
<1>2. ASSUME Settled, UNCHANGED <<frames, to, box>> PROVE Accepted'
      <2>1. \A k \in Client : Onward(k)
            BY <1>0, <1>2 DEF Onward
      <2> QED BY <1>0, <1>2, <2>1, AcceptedOutside
<1>3. ASSUME Settled, NEW k \in Client, ReadFrame(k), UNCHANGED box,
             \A j \in Client \ {k} : to'[j] = to[j]
      PROVE  Accepted'
      <2>1. \A j \in Client : Onward(j)
            BY <1>0, <1>3 DEF Onward, ReadFrame
      <2> QED BY <1>0, <1>3, <2>1, AcceptedOutside
<1>4. ASSUME Settled, NEW k \in Client, LookupFails(k) PROVE Accepted'
      <2>1. to[k] # <<>> /\ to[k] \in Seq(Id) /\ to' = [to EXCEPT ![k] = Tail(@)]
            BY <1>4 DEF LookupFails, TypeOK
      <2>2. \A j \in Client, i \in Id : Names(to'[j], i) => Names(to[j], i)
            BY <2>1, NamesTail DEF TypeOK
      <2>3. UNCHANGED <<frames, box>>
            BY <1>4 DEF LookupFails
      <2>4. \A j \in Client : Onward(j)
            BY <1>0, <2>2, <2>3 DEF Onward
      <2> QED BY <1>0, <1>4, <2>3, <2>4, AcceptedOutside
<1>5. ASSUME Settled, NEW k \in Client, Send(k) PROVE Accepted'
      <2>1. PICK d \in Conn : d = channel[k] /\ id[d] = Head(to[k])
            BY <1>5 DEF Send, AtHand
      <2>2. /\ to[k] # <<>> /\ to[k] \in Seq(Id) /\ to' = [to EXCEPT ![k] = Tail(@)]
            /\ Distinct(to[k])
            BY <1>5 DEF Send, AtHand, TypeOK
      <2>3. id' = id /\ place' = place /\ frames' = frames
            BY <1>5 DEF Send, socket
      <2>4. box' = [box EXCEPT ![d] = Append(@, <<k, frames[k]>>)]
            BY <1>5, <2>1 DEF Send
      <2>5. place[d] # "none" /\ id[d] \in Id
            BY <2>1, <2>2 DEF IdsUnique
      <2>6. \A c \in Conn : place'[c] = "none" => box'[c] = <<>>
            BY <2>3, <2>4, <2>5 DEF Accepted, TypeOK
      <2>7. ASSUME NEW c \in Conn, NEW n \in DOMAIN box'[c], NEW j \in Client, box'[c][n][1] = j
            PROVE  box'[c][n][2] <= frames[j] /\ (box'[c][n][2] = frames[j] => ~Names(to'[j], id[c]))
            <3>1. CASE n \in DOMAIN box[c] /\ box'[c][n] = box[c][n]
                  <4>1. /\ box[c][n][2] <= frames[j]
                        /\ box[c][n][2] = frames[j] => ~Names(to[j], id[c])
                        BY <2>7, <3>1 DEF Accepted
                  <4>2. Names(to'[j], id[c]) => Names(to[j], id[c])
                        BY <2>2, NamesTail DEF TypeOK
                  <4> QED BY <3>1, <4>1, <4>2
            <3>2. CASE c = d /\ box'[c][n] = <<k, frames[k]>>
                  <4>1. j = k /\ box'[c][n][2] = frames[k] /\ frames[k] <= frames[k]
                        BY <1>0, <2>7, <3>2
                  <4>2. ~Names(to'[k], id[d])
                        BY <2>1, <2>2, NamesTail DEF TypeOK
                  <4> QED BY <3>2, <4>1, <4>2
            <3>3. box[c] \in Seq(Client \X (1 .. MaxFrame))
                  BY DEF TypeOK
            <3>4. box'[c] = IF c = d THEN Append(box[c], <<k, frames[k]>>) ELSE box[c]
                  BY <2>4 DEF TypeOK
            <3> QED BY <3>1, <3>2, <3>3, <3>4
      <2> QED BY <2>3, <2>6, <2>7 DEF Accepted
<1>6. CASE Settled
      BY <1>1, <1>2, <1>3, <1>4, <1>5, <1>6
      DEF Next, Main, Readloop, Push, vars, pushing, InitContainer, Start, Register, Signal, Dies,
          ShutdownServer, Deregister, DeregisterFails, Exit, Lookup, Pushed, Connected,
          ReadFails, Skip, PushMessage, TypeOK
<1> QED BY <1>1, <1>6, SettledStep

\* A channel accepts the message at hand only while its id is left to serve.
LEMMA InOrderOnceStep ==
    ASSUME TypeOK, AtHand, Accepted, InOrderOnce, [Next]_vars
    PROVE  InOrderOnce'
<1> USE ServerAssumption, ContainerAssumption DEF TypeOK, ServerTypeOK, serverVars,
        socket, outgoing, closing, lifecycle, pushing, AtHand, Accepted, Names,
        InOrderOnce
<1>1. ASSUME InitContainer PROVE InOrderOnce'
      BY <1>1 DEF InitContainer
<1>2. ASSUME Start PROVE InOrderOnce'
      BY <1>2 DEF Start
<1>3. ASSUME Register PROVE InOrderOnce'
      BY <1>3 DEF Register
<1>4. ASSUME Signal PROVE InOrderOnce'
      BY <1>4 DEF Signal
<1>5. ASSUME ShutdownServer PROVE InOrderOnce'
      BY <1>5 DEF ShutdownServer, Shutdown, ShutdownList, ShutdownEnds,
         ShutdownClose, Registered
<1>6. ASSUME Deregister PROVE InOrderOnce'
      BY <1>6 DEF Deregister
<1>7. ASSUME DeregisterFails PROVE InOrderOnce'
      BY <1>7 DEF DeregisterFails
<1>8. ASSUME Exit PROVE InOrderOnce'
      BY <1>8 DEF Exit, Forget, ServerForgets
<1>9. ASSUME Dies PROVE InOrderOnce'
      BY <1>9 DEF Dies, Forget, ServerForgets
<1>10. ASSUME Listen, UNCHANGED <<lifecycle, pushing>> PROVE InOrderOnce'
      BY <1>10 DEF Listen
<1>11. ASSUME NEW c \in Conn, Accept(c), UNCHANGED <<lifecycle, pushing>>
       PROVE InOrderOnce'
      BY <1>11 DEF Accept, Used, Goto
<1>12. ASSUME NEW c \in Conn, Add(c), UNCHANGED <<lifecycle, pushing>>
       PROVE InOrderOnce'
      BY <1>12 DEF Add, Goto
<1>13. ASSUME NEW c \in Conn, ReadEnds(c), UNCHANGED <<lifecycle, pushing>>
       PROVE InOrderOnce'
      BY <1>13 DEF ReadEnds, Goto
<1>14. ASSUME NEW c \in Conn, Remove(c), UNCHANGED <<lifecycle, pushing>>
       PROVE InOrderOnce'
      BY <1>14 DEF Remove, Goto
<1>15. ASSUME NEW c \in Conn, Disconnect(c), UNCHANGED <<lifecycle, pushing>>
       PROVE InOrderOnce'
      BY <1>15 DEF Disconnect, Goto
<1>16. ASSUME NEW c \in Conn, Write(c), UNCHANGED <<lifecycle, pushing>>
       PROVE InOrderOnce'
      BY <1>16 DEF Write
<1>17. ASSUME NEW c \in Conn, WriteFails(c), UNCHANGED <<lifecycle, pushing>>
       PROVE InOrderOnce'
      BY <1>17 DEF WriteFails
<1>18. ASSUME NEW k \in Client, Connected(k) PROVE InOrderOnce'
      BY <1>18 DEF Connected, At
<1>19. ASSUME NEW k \in Client, Skip(k) PROVE InOrderOnce'
      BY <1>19 DEF Skip, ReadFrame
<1>20. ASSUME NEW k \in Client, NEW ids \in Receivers, PushMessage(k, ids)
       PROVE InOrderOnce'
      BY <1>20 DEF PushMessage, ReadFrame, At
<1>21. ASSUME NEW k \in Client, Lookup(k) PROVE InOrderOnce'
      BY <1>21 DEF Lookup, At
<1>22. ASSUME NEW k \in Client, LookupFails(k) PROVE InOrderOnce'
      BY <1>22 DEF LookupFails
<1>23. ASSUME NEW k \in Client, Send(k) PROVE InOrderOnce'
      <2>1. PICK d \in Conn : d = channel[k] /\ id[d] = Head(to[k]) /\ Head(to[k]) = to[k][1]
                             /\ 1 \in DOMAIN to[k]
            BY <1>23 DEF Send
      <2>2. box' = [box EXCEPT ![d] = Append(@, <<k, frames[k]>>)]
            BY <1>23, <2>1 DEF Send
      <2>3. \A n \in DOMAIN box[d] : box[d][n][1] = k => box[d][n][2] < frames[k]
            <3> SUFFICES ASSUME NEW n \in DOMAIN box[d], box[d][n][1] = k
                         PROVE  box[d][n][2] < frames[k]
                  OBVIOUS
            <3>1. Names(to[k], id[d])
                  BY <2>1
            <3>2. box[d][n][2] <= frames[k] /\ box[d][n][2] # frames[k]
                  <4> HIDE DEF TypeOK, InOrderOnce, AtHand, Names
                  <4> QED BY <3>1
            <3>3. box[d][n][2] \in Nat /\ frames[k] \in Nat
                  OBVIOUS
            <3> QED BY <3>2, <3>3
      <2>4. box[d] \in Seq(Client \X (1 .. MaxFrame))
            OBVIOUS
      <2>5. \A n \in DOMAIN box'[d] :
                \/ n \in DOMAIN box[d] /\ box'[d][n] = box[d][n]
                \/ n = Len(box[d]) + 1 /\ box'[d][n] = <<k, frames[k]>>
            <3>1. box'[d] = Append(box[d], <<k, frames[k]>>)
                  BY <2>2
            <3> HIDE DEF TypeOK, InOrderOnce, AtHand, Accepted
            <3> QED BY <2>4, <3>1
      <2>6. \A m, n \in DOMAIN box'[d] :
                m < n /\ box'[d][m][1] = box'[d][n][1] => box'[d][m][2] < box'[d][n][2]
            <3> SUFFICES ASSUME NEW m \in DOMAIN box'[d], NEW n \in DOMAIN box'[d], m < n,
                                box'[d][m][1] = box'[d][n][1]
                         PROVE  box'[d][m][2] < box'[d][n][2]
                  OBVIOUS
            <3>1. m \in DOMAIN box[d] /\ box'[d][m] = box[d][m]
                  <4>1. DOMAIN box[d] = 1 .. Len(box[d]) /\ Len(box[d]) \in Nat
                        BY <2>4
                  <4> HIDE DEF TypeOK, InOrderOnce, AtHand, Accepted
                  <4> QED BY <2>5, <4>1
            <3>2. CASE n \in DOMAIN box[d] /\ box'[d][n] = box[d][n]
                  BY <3>1, <3>2
            <3>3. CASE n = Len(box[d]) + 1 /\ box'[d][n] = <<k, frames[k]>>
                  BY <2>3, <3>1, <3>3
            <3> QED BY <2>5, <3>2, <3>3
      <2>7. \A c \in Conn \ {d} : box'[c] = box[c]
            BY <2>2
      <2> QED BY <2>6, <2>7
<1>24. ASSUME NEW k \in Client, Pushed(k) PROVE InOrderOnce'
      BY <1>24 DEF Pushed, At
<1>25. ASSUME NEW k \in Client, ReadFails(k) PROVE InOrderOnce'
      BY <1>25 DEF ReadFails, At
<1>26. CASE UNCHANGED vars
      BY <1>26 DEF vars
<1> QED BY <1>1, <1>2, <1>3, <1>4, <1>5, <1>6, <1>7, <1>8, <1>9, <1>10, <1>11,
           <1>12, <1>13, <1>14, <1>15, <1>16, <1>17, <1>18, <1>19, <1>20, <1>21,
           <1>22, <1>23, <1>24, <1>25, <1>26 DEF Next, Main, ServerSteps, Serve,
           WriteLoop, Readloop, Push

-----------------------------------------------------------------------------
LEMMA Initially == Init => IInv
<1> SUFFICES ASSUME Init PROVE IInv
    OBVIOUS
<1> USE ServerAssumption, ContainerAssumption DEF Init, ServerInit
<1>1. ServerTypeOK
      <2>1. /\ place \in [Conn -> {"none", "accepted", "reading", "ended", "removed", "closed"}]
            /\ id \in [Conn -> Id \cup {None}] /\ open \in [Conn -> BOOLEAN]
            /\ registry \in [Id -> Conn \cup {None}]
            OBVIOUS
      <2>2. /\ writer \in [Conn -> {"none", "on", "gone"}]
            /\ queued \in [Conn -> 0 .. Cap]
            OBVIOUS
      <2> QED BY <2>1, <2>2 DEF ServerTypeOK
<1>2. TypeOK
      <2>1. /\ to \in [Client -> Seq(Id)] /\ owed \in [Client -> SUBSET Conn]
            /\ box \in [Conn -> Seq(Client \X (1 .. MaxFrame))]
            OBVIOUS
      <2>2. frames \in [Client -> 0 .. MaxFrame]
            OBVIOUS
      <2> QED BY <1>1, <2>1, <2>2 DEF TypeOK
<1>3. IdsUnique /\ EntriesLive /\ LiveIsRegistered /\ ToClose /\ LeavesNaming
      BY DEF IdsUnique, EntriesLive, LiveIsRegistered, ToClose, LeavesNaming
<1>4. AtHand /\ StillOwed /\ Accepted /\ InOrderOnce
      BY DEF AtHand, StillOwed, Accepted, InOrderOnce, Distinct
<1> QED BY <1>2, <1>3, <1>4 DEF IInv

LEMMA Inductive == IInv /\ [Next]_vars => IInv'
BY TypeOKStep, RegistryStep, ToCloseStep,
   LeavesNamingStep, AtHandStep, StillOwedStep, AcceptedStep, InOrderOnceStep DEF IInv

\* Every reachable state satisfies the strengthening.
THEOREM Invariance == Spec => []IInv
<1>1. Init => IInv BY Initially
<1>2. IInv /\ [Next]_vars => IInv' BY Inductive
<1> QED BY <1>1, <1>2, PTL DEF Spec

\* Every variable of the server and the container keeps its type; no queue
\* holds more than its capacity.
THEOREM TypeCorrect == Spec => []TypeOK
<1>1. IInv => TypeOK BY DEF IInv
<1> QED BY <1>1, Invariance, PTL

\* A channel is registered under its id until its own goroutine removes it.
THEOREM LiveRegistered == Spec => []LiveIsRegistered
<1>1. IInv => LiveIsRegistered BY DEF IInv
<1> QED BY <1>1, Invariance, PTL

\* After a Shutdown in time only channels added later are open.
THEOREM OpenAfterwards == Spec => []OpenCameLate
<1>1. IInv => OpenCameLate BY DEF IInv, ToClose, OpenCameLate
<1> QED BY <1>1, Invariance, PTL

\* A container that exits is in the naming only when Deregister failed.
THEOREM LeftNaming == Spec => []ExitLeavesNaming
<1>1. IInv => ExitLeavesNaming BY DEF IInv, LeavesNaming, ExitLeavesNaming
<1> QED BY <1>1, Invariance, PTL

\* When pushMessage is through every receiver that is still there has the message.
THEOREM NoneForgotten == Spec => []NobodyForgotten
<1>1. ASSUME IInv, NEW k \in Client, reading[k] = "read", NEW c \in owed[k]
      PROVE  place[c] # "reading" \/ \E n \in DOMAIN box[c] : box[c][n] = <<k, frames[k]>>
      <2>1. ~Names(to[k], id[c])
            BY <1>1 DEF IInv, AtHand, Names
      <2> QED BY <1>1, <2>1 DEF IInv, StillOwed, Has
<1>2. IInv => NobodyForgotten BY <1>1 DEF NobodyForgotten
<1> QED BY <1>2, Invariance, PTL

\* A channel accepts what a service sends it in order and once.
THEOREM OrderedOnce == Spec => []InOrderOnce
<1>1. IInv => InOrderOnce BY DEF IInv
<1> QED BY <1>1, Invariance, PTL
=============================================================================
