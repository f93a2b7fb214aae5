--------------------------- MODULE SessionProofs ---------------------------
(***************************************************************************)
(* Theorems about Session, for every set of accounts, channels and packets.*)
(***************************************************************************)
EXTENDS Session, TLAPS

\* What a request is, by the place it has come to.
Asked ==
    \A r \in Request :
        /\ pc[r] = "new" => kind[r] = "none" /\ old[r] = Nil
        /\ pc[r] \in {"GetLocation", "Dispatch", "SetLocation", "SetSession"}
                => kind[r] = "signin"
        /\ pc[r] \in {"DelLocation", "DelSession"} => kind[r] = "signout"
        /\ pc[r] = "GetSession" => kind[r] = "other"
        /\ kind[r] \in {"signin", "signout"}
                => acct[r] \in Account /\ chan[r] \in Channel
        /\ pc[r] = "Dispatch" => old[r] # Nil
        /\ pc[r] = "done" /\ kind[r] = "signin"
                => answer[r] \in {"Success", "SystemException"}

\* Sign-ins of an account that are in progress at once have contended.
Overlaps ==
    \A q, r \in Request :
        q # r /\ acct[q] = acct[r] /\ q \in Busy(acct[r]) /\ r \in Busy(acct[r])
            => q \in contended /\ r \in contended

Quiet(r) == kind[r] = "signin" /\ r \notin contended /\ r \notin disturbed

AtHome(r) == loc[acct[r]] = chan[r] \/ <<acct[r], chan[r]>> \in kicked

StoresAlone == \A r \in Request : Quiet(r) /\ pc[r] = "SetSession" => AtHome(r)

Succeeded(r) == pc[r] = "done" /\ answer[r] = "Success"

\* What a later sign-in q of the account still has to do to the earlier r.
Succession ==
    \A q, r \in Request :
        Quiet(r) /\ Succeeded(r) /\ kind[q] = "signin" /\ acct[q] = acct[r]
            => /\ pc[q] = "Dispatch" => old[q] = chan[r]
                                         \/ <<acct[r], chan[r]>> \in kicked
               /\ pc[q] = "SetLocation" => chan[q] = chan[r]
                                         \/ <<acct[r], chan[r]>> \in kicked

AllAtHome == \A r \in Request : Quiet(r) /\ Succeeded(r) => AtHome(r)

LeavingIsTorn ==
    \A r \in Request : pc[r] \in {"DelLocation", "DelSession"} => chan[r] \in torn

Past(q) == pc[q] \in {"SetSession", "done", "lost"}

SignsIn(q, a, c) == kind[q] = "signin" /\ acct[q] = a /\ chan[q] = c

\* A location was stored by a sign-in that will not store it again.
Stored(a, c) == \E q \in Request : SignsIn(q, a, c) /\ Past(q)

LocationsStored == \A a \in Account : loc[a] # Nil => Stored(a, loc[a])

OldStored == \A r \in Request : old[r] # Nil => Stored(acct[r], old[r])

Single(a, c) ==
    \A q, r \in Request : SignsIn(q, a, c) /\ SignsIn(r, a, c) => q = r

Successor(r, a, c) == kind[r] = "signin" /\ acct[r] = a /\ old[r] = c /\ chan[r] # c

KicksTraced ==
    \A a \in Account, c \in Channel : <<a, c>> \in kicked =>
        \E r \in Request : /\ Successor(r, a, c)
                           /\ pc[r] \notin {"new", "GetLocation", "Dispatch"}

Replaced ==
    \A r \in Request, a \in Account, c \in Channel :
        Successor(r, a, c) /\ Single(a, c) /\ (pc[r] = "SetSession" \/ Succeeded(r))
            => loc[a] # c

IInv == /\ TypeOK /\ Asked
        /\ Overlaps /\ StoresAlone /\ Succession /\ AllAtHome
        /\ LeavingIsTorn /\ LocatedHasSession
        /\ LocationsStored /\ OldStored /\ KicksTraced /\ Replaced
-----------------------------------------------------------------------------
\* Types are kept; that a request in a handler names an account and a channel
\* (Asked) keeps Nil out of the keys.
LEMMA TypeOKStep == ASSUME TypeOK, Asked, [Next]_vars PROVE TypeOK'
<1> USE SessionAssumption DEF TypeOK, redis, asked, Status, Asked
<1>1. ASSUME NEW r \in Request, NEW a \in Account, NEW c \in Channel, ReceiveSignIn(r, a, c) PROVE TypeOK'
      BY <1>1 DEF ReceiveSignIn, Ask, Goto, Busy
<1>2. ASSUME NEW r \in Request, NEW a \in Account, NEW c \in Channel, ReceiveBadBody(r, a, c) PROVE TypeOK'
      BY <1>2 DEF ReceiveBadBody, Ask, Resp, Goto, observed
<1>3. ASSUME NEW r \in Request, NEW c \in Channel, ReceiveOther(r, c) PROVE TypeOK'
      BY <1>3 DEF ReceiveOther, Ask, Goto, observed
<1>4. ASSUME NEW r \in Request, NEW c \in Channel, ServeSignOut(r, c) PROVE TypeOK'
      BY <1>4 DEF ServeSignOut, Ask, Goto
<1>5. ASSUME NEW r \in Request, Located(r) PROVE TypeOK'
      BY <1>5 DEF Located, Goto, observed
<1>6. ASSUME NEW r \in Request, NotLocated(r) PROVE TypeOK'
      BY <1>6 DEF NotLocated, Resp, Goto, observed
<1>7. ASSUME NEW r \in Request, LocateFails(r) PROVE TypeOK'
      BY <1>7 DEF LocateFails, Goto, SignIns
<1>8. ASSUME NEW r \in Request, Dispatch(r) PROVE TypeOK'
      BY <1>8 DEF Dispatch, Goto, observed
<1>9. ASSUME NEW r \in Request, SetLocation(r) PROVE TypeOK'
      BY <1>9 DEF SetLocation, Goto, observed
<1>10. ASSUME NEW r \in Request, SetLocationFails(r) PROVE TypeOK'
      BY <1>10 DEF SetLocationFails, Resp, Goto
<1>11. ASSUME NEW r \in Request, SetSession(r) PROVE TypeOK'
      BY <1>11 DEF SetSession, Resp, Goto, observed
<1>12. ASSUME NEW r \in Request, SetSessionFails(r) PROVE TypeOK'
      BY <1>12 DEF SetSessionFails, Resp, Goto
<1>13. ASSUME NEW r \in Request, DelLocation(r) PROVE TypeOK'
      BY <1>13 DEF DelLocation, Goto, SignIns
<1>14. ASSUME NEW r \in Request, DelSession(r) PROVE TypeOK'
      BY <1>14 DEF DelSession, Resp, Goto, observed
<1>15. ASSUME NEW r \in Request, DelLocationFails(r) PROVE TypeOK'
      BY <1>15 DEF DelLocationFails, Resp, Goto, SignIns
<1>16. ASSUME NEW r \in Request, DelSessionFails(r) PROVE TypeOK'
      BY <1>16 DEF DelSessionFails, Resp, Goto, observed
<1>17. ASSUME NEW a \in Account, ExpireLocation(a) PROVE TypeOK'
      BY <1>17 DEF ExpireLocation, SignIns
<1>18. ASSUME NEW c \in Channel, ExpireSession(c) PROVE TypeOK'
      BY <1>18 DEF ExpireSession
<1>19. ASSUME NEW r \in Request, Refuse(r) PROVE TypeOK'
      BY <1>19 DEF Refuse, Resp, Goto, observed
<1>20. ASSUME Crash PROVE TypeOK'
      BY <1>20 DEF Crash, Serving
<1>21. CASE UNCHANGED vars
      BY <1>21 DEF vars, observed
<1> QED BY <1>1, <1>2, <1>3, <1>4, <1>5, <1>6, <1>7, <1>8, <1>9, <1>10, <1>11, <1>12, <1>13, <1>14, <1>15, <1>16, <1>17, <1>18, <1>19, <1>20, <1>21 DEF Next, Receive, DoSysLogin, DoSysLogout

\* Each handler's places belong to its kind of request.
LEMMA AskedStep == ASSUME TypeOK, Asked, [Next]_vars PROVE Asked'
<1> USE SessionAssumption DEF TypeOK, redis, asked, Asked, Status
<1>1. ASSUME NEW r \in Request, NEW a \in Account, NEW c \in Channel, ReceiveSignIn(r, a, c) PROVE Asked'
      BY <1>1 DEF ReceiveSignIn, Ask, Goto, Busy
<1>2. ASSUME NEW r \in Request, NEW a \in Account, NEW c \in Channel, ReceiveBadBody(r, a, c) PROVE Asked'
      BY <1>2 DEF ReceiveBadBody, Ask, Resp, Goto, observed
<1>3. ASSUME NEW r \in Request, NEW c \in Channel, ReceiveOther(r, c) PROVE Asked'
      BY <1>3 DEF ReceiveOther, Ask, Goto, observed
<1>4. ASSUME NEW r \in Request, NEW c \in Channel, ServeSignOut(r, c) PROVE Asked'
      BY <1>4 DEF ServeSignOut, Ask, Goto
<1>5. ASSUME NEW r \in Request, Located(r) PROVE Asked'
      BY <1>5 DEF Located, Goto, observed
<1>6. ASSUME NEW r \in Request, NotLocated(r) PROVE Asked'
      BY <1>6 DEF NotLocated, Resp, Goto, observed
<1>7. ASSUME NEW r \in Request, LocateFails(r) PROVE Asked'
      BY <1>7 DEF LocateFails, Goto, SignIns
<1>8. ASSUME NEW r \in Request, Dispatch(r) PROVE Asked'
      BY <1>8 DEF Dispatch, Goto, observed
<1>9. ASSUME NEW r \in Request, SetLocation(r) PROVE Asked'
      BY <1>9 DEF SetLocation, Goto, observed
<1>10. ASSUME NEW r \in Request, SetLocationFails(r) PROVE Asked'
      BY <1>10 DEF SetLocationFails, Resp, Goto
<1>11. ASSUME NEW r \in Request, SetSession(r) PROVE Asked'
      BY <1>11 DEF SetSession, Resp, Goto, observed
<1>12. ASSUME NEW r \in Request, SetSessionFails(r) PROVE Asked'
      BY <1>12 DEF SetSessionFails, Resp, Goto
<1>13. ASSUME NEW r \in Request, DelLocation(r) PROVE Asked'
      BY <1>13 DEF DelLocation, Goto, SignIns
<1>14. ASSUME NEW r \in Request, DelSession(r) PROVE Asked'
      BY <1>14 DEF DelSession, Resp, Goto, observed
<1>15. ASSUME NEW r \in Request, DelLocationFails(r) PROVE Asked'
      BY <1>15 DEF DelLocationFails, Resp, Goto, SignIns
<1>16. ASSUME NEW r \in Request, DelSessionFails(r) PROVE Asked'
      BY <1>16 DEF DelSessionFails, Resp, Goto, observed
<1>17. ASSUME NEW a \in Account, ExpireLocation(a) PROVE Asked'
      BY <1>17 DEF ExpireLocation, SignIns
<1>18. ASSUME NEW c \in Channel, ExpireSession(c) PROVE Asked'
      BY <1>18 DEF ExpireSession
<1>19. ASSUME NEW r \in Request, Refuse(r) PROVE Asked'
      BY <1>19 DEF Refuse, Resp, Goto, observed
<1>20. ASSUME Crash PROVE Asked'
      BY <1>20 DEF Crash, Serving
<1>21. CASE UNCHANGED vars
      BY <1>21 DEF vars, observed
<1> QED BY <1>1, <1>2, <1>3, <1>4, <1>5, <1>6, <1>7, <1>8, <1>9, <1>10, <1>11, <1>12, <1>13, <1>14, <1>15, <1>16, <1>17, <1>18, <1>19, <1>20, <1>21 DEF Next, Receive, DoSysLogin, DoSysLogout

\* A sign-in that begins while others run makes all of them contended.
LEMMA OverlapsStep == ASSUME TypeOK, Asked, Overlaps, [Next]_vars PROVE Overlaps'
<1> USE SessionAssumption DEF TypeOK, redis, asked, Asked, Overlaps, Busy
<1>1. ASSUME NEW r \in Request, NEW a \in Account, NEW c \in Channel, ReceiveSignIn(r, a, c) PROVE Overlaps'
      BY <1>1 DEF ReceiveSignIn, Ask, Goto, Busy
<1>2. ASSUME NEW r \in Request, NEW a \in Account, NEW c \in Channel, ReceiveBadBody(r, a, c) PROVE Overlaps'
      BY <1>2 DEF ReceiveBadBody, Ask, Resp, Goto, observed
<1>3. ASSUME NEW r \in Request, NEW c \in Channel, ReceiveOther(r, c) PROVE Overlaps'
      BY <1>3 DEF ReceiveOther, Ask, Goto, observed
<1>4. ASSUME NEW r \in Request, NEW c \in Channel, ServeSignOut(r, c) PROVE Overlaps'
      BY <1>4 DEF ServeSignOut, Ask, Goto
<1>5. ASSUME NEW r \in Request, Located(r) PROVE Overlaps'
      BY <1>5 DEF Located, Goto, observed
<1>6. ASSUME NEW r \in Request, NotLocated(r) PROVE Overlaps'
      BY <1>6 DEF NotLocated, Resp, Goto, observed
<1>7. ASSUME NEW r \in Request, LocateFails(r) PROVE Overlaps'
      BY <1>7 DEF LocateFails, Goto, SignIns
<1>8. ASSUME NEW r \in Request, Dispatch(r) PROVE Overlaps'
      BY <1>8 DEF Dispatch, Goto, observed
<1>9. ASSUME NEW r \in Request, SetLocation(r) PROVE Overlaps'
      BY <1>9 DEF SetLocation, Goto, observed
<1>10. ASSUME NEW r \in Request, SetLocationFails(r) PROVE Overlaps'
      BY <1>10 DEF SetLocationFails, Resp, Goto
<1>11. ASSUME NEW r \in Request, SetSession(r) PROVE Overlaps'
      BY <1>11 DEF SetSession, Resp, Goto, observed
<1>12. ASSUME NEW r \in Request, SetSessionFails(r) PROVE Overlaps'
      BY <1>12 DEF SetSessionFails, Resp, Goto
<1>13. ASSUME NEW r \in Request, DelLocation(r) PROVE Overlaps'
      BY <1>13 DEF DelLocation, Goto, SignIns
<1>14. ASSUME NEW r \in Request, DelSession(r) PROVE Overlaps'
      BY <1>14 DEF DelSession, Resp, Goto, observed
<1>15. ASSUME NEW r \in Request, DelLocationFails(r) PROVE Overlaps'
      BY <1>15 DEF DelLocationFails, Resp, Goto, SignIns
<1>16. ASSUME NEW r \in Request, DelSessionFails(r) PROVE Overlaps'
      BY <1>16 DEF DelSessionFails, Resp, Goto, observed
<1>17. ASSUME NEW a \in Account, ExpireLocation(a) PROVE Overlaps'
      BY <1>17 DEF ExpireLocation, SignIns
<1>18. ASSUME NEW c \in Channel, ExpireSession(c) PROVE Overlaps'
      BY <1>18 DEF ExpireSession
<1>19. ASSUME NEW r \in Request, Refuse(r) PROVE Overlaps'
      BY <1>19 DEF Refuse, Resp, Goto, observed
<1>20. ASSUME Crash PROVE Overlaps'
      BY <1>20 DEF Crash, Serving
<1>21. CASE UNCHANGED vars
      BY <1>21 DEF vars, observed
<1> QED BY <1>1, <1>2, <1>3, <1>4, <1>5, <1>6, <1>7, <1>8, <1>9, <1>10, <1>11, <1>12, <1>13, <1>14, <1>15, <1>16, <1>17, <1>18, <1>19, <1>20, <1>21 DEF Next, Receive, DoSysLogin, DoSysLogout

\* A quiet sign-in that has stored its location finds it untouched until it
\* stores its session: only another sign-in could store there, and would contend.
LEMMA StoresAloneStep == ASSUME TypeOK, Asked, Overlaps, StoresAlone, [Next]_vars PROVE StoresAlone'
<1> USE SessionAssumption DEF TypeOK, redis, asked, Asked, Overlaps, Busy, Quiet, AtHome, Succeeded, StoresAlone
<1>1. ASSUME NEW r \in Request, NEW a \in Account, NEW c \in Channel, ReceiveSignIn(r, a, c) PROVE StoresAlone'
      BY <1>1 DEF ReceiveSignIn, Ask, Goto, Busy
<1>2. ASSUME NEW r \in Request, NEW a \in Account, NEW c \in Channel, ReceiveBadBody(r, a, c) PROVE StoresAlone'
      BY <1>2 DEF ReceiveBadBody, Ask, Resp, Goto, observed
<1>3. ASSUME NEW r \in Request, NEW c \in Channel, ReceiveOther(r, c) PROVE StoresAlone'
      BY <1>3 DEF ReceiveOther, Ask, Goto, observed
<1>4. ASSUME NEW r \in Request, NEW c \in Channel, ServeSignOut(r, c) PROVE StoresAlone'
      BY <1>4 DEF ServeSignOut, Ask, Goto
<1>5. ASSUME NEW r \in Request, Located(r) PROVE StoresAlone'
      BY <1>5 DEF Located, Goto, observed
<1>6. ASSUME NEW r \in Request, NotLocated(r) PROVE StoresAlone'
      BY <1>6 DEF NotLocated, Resp, Goto, observed
<1>7. ASSUME NEW r \in Request, LocateFails(r) PROVE StoresAlone'
      BY <1>7 DEF LocateFails, Goto, SignIns
<1>8. ASSUME NEW r \in Request, Dispatch(r) PROVE StoresAlone'
      BY <1>8 DEF Dispatch, Goto, observed
<1>9. ASSUME NEW r \in Request, SetLocation(r) PROVE StoresAlone'
      BY <1>9 DEF SetLocation, Goto, observed
<1>10. ASSUME NEW r \in Request, SetLocationFails(r) PROVE StoresAlone'
      BY <1>10 DEF SetLocationFails, Resp, Goto
<1>11. ASSUME NEW r \in Request, SetSession(r) PROVE StoresAlone'
      BY <1>11 DEF SetSession, Resp, Goto, observed
<1>12. ASSUME NEW r \in Request, SetSessionFails(r) PROVE StoresAlone'
      BY <1>12 DEF SetSessionFails, Resp, Goto
<1>13. ASSUME NEW r \in Request, DelLocation(r) PROVE StoresAlone'
      BY <1>13 DEF DelLocation, Goto, SignIns
<1>14. ASSUME NEW r \in Request, DelSession(r) PROVE StoresAlone'
      BY <1>14 DEF DelSession, Resp, Goto, observed
<1>15. ASSUME NEW r \in Request, DelLocationFails(r) PROVE StoresAlone'
      BY <1>15 DEF DelLocationFails, Resp, Goto, SignIns
<1>16. ASSUME NEW r \in Request, DelSessionFails(r) PROVE StoresAlone'
      BY <1>16 DEF DelSessionFails, Resp, Goto, observed
<1>17. ASSUME NEW a \in Account, ExpireLocation(a) PROVE StoresAlone'
      BY <1>17 DEF ExpireLocation, SignIns
<1>18. ASSUME NEW c \in Channel, ExpireSession(c) PROVE StoresAlone'
      BY <1>18 DEF ExpireSession
<1>19. ASSUME NEW r \in Request, Refuse(r) PROVE StoresAlone'
      BY <1>19 DEF Refuse, Resp, Goto, observed
<1>20. ASSUME Crash PROVE StoresAlone'
      BY <1>20 DEF Crash, Serving
<1>21. CASE UNCHANGED vars
      BY <1>21 DEF vars, observed
<1> QED BY <1>1, <1>2, <1>3, <1>4, <1>5, <1>6, <1>7, <1>8, <1>9, <1>10, <1>11, <1>12, <1>13, <1>14, <1>15, <1>16, <1>17, <1>18, <1>19, <1>20, <1>21 DEF Next, Receive, DoSysLogin, DoSysLogout

\* The next sign-in finds a quiet one's channel at home, and tells it to go.
LEMMA SuccessionStep == ASSUME TypeOK, Asked, Overlaps, StoresAlone, Succession, AllAtHome, [Next]_vars PROVE Succession'
<1> USE SessionAssumption DEF TypeOK, redis, asked, Asked, Overlaps, Busy, Quiet, AtHome, Succeeded, StoresAlone, Succession, AllAtHome
<1>1. ASSUME NEW r \in Request, NEW a \in Account, NEW c \in Channel, ReceiveSignIn(r, a, c) PROVE Succession'
      BY <1>1 DEF ReceiveSignIn, Ask, Goto, Busy
<1>2. ASSUME NEW r \in Request, NEW a \in Account, NEW c \in Channel, ReceiveBadBody(r, a, c) PROVE Succession'
      BY <1>2 DEF ReceiveBadBody, Ask, Resp, Goto, observed
<1>3. ASSUME NEW r \in Request, NEW c \in Channel, ReceiveOther(r, c) PROVE Succession'
      BY <1>3 DEF ReceiveOther, Ask, Goto, observed
<1>4. ASSUME NEW r \in Request, NEW c \in Channel, ServeSignOut(r, c) PROVE Succession'
      BY <1>4 DEF ServeSignOut, Ask, Goto
<1>5. ASSUME NEW r \in Request, Located(r) PROVE Succession'
      BY <1>5 DEF Located, Goto, observed
<1>6. ASSUME NEW r \in Request, NotLocated(r) PROVE Succession'
      BY <1>6 DEF NotLocated, Resp, Goto, observed
<1>7. ASSUME NEW r \in Request, LocateFails(r) PROVE Succession'
      BY <1>7 DEF LocateFails, Goto, SignIns
<1>8. ASSUME NEW r \in Request, Dispatch(r) PROVE Succession'
      BY <1>8 DEF Dispatch, Goto, observed
<1>9. ASSUME NEW r \in Request, SetLocation(r) PROVE Succession'
      BY <1>9 DEF SetLocation, Goto, observed
<1>10. ASSUME NEW r \in Request, SetLocationFails(r) PROVE Succession'
      BY <1>10 DEF SetLocationFails, Resp, Goto
<1>11. ASSUME NEW r \in Request, SetSession(r) PROVE Succession'
      BY <1>11 DEF SetSession, Resp, Goto, observed
<1>12. ASSUME NEW r \in Request, SetSessionFails(r) PROVE Succession'
      BY <1>12 DEF SetSessionFails, Resp, Goto
<1>13. ASSUME NEW r \in Request, DelLocation(r) PROVE Succession'
      BY <1>13 DEF DelLocation, Goto, SignIns
<1>14. ASSUME NEW r \in Request, DelSession(r) PROVE Succession'
      BY <1>14 DEF DelSession, Resp, Goto, observed
<1>15. ASSUME NEW r \in Request, DelLocationFails(r) PROVE Succession'
      BY <1>15 DEF DelLocationFails, Resp, Goto, SignIns
<1>16. ASSUME NEW r \in Request, DelSessionFails(r) PROVE Succession'
      BY <1>16 DEF DelSessionFails, Resp, Goto, observed
<1>17. ASSUME NEW a \in Account, ExpireLocation(a) PROVE Succession'
      BY <1>17 DEF ExpireLocation, SignIns
<1>18. ASSUME NEW c \in Channel, ExpireSession(c) PROVE Succession'
      BY <1>18 DEF ExpireSession
<1>19. ASSUME NEW r \in Request, Refuse(r) PROVE Succession'
      BY <1>19 DEF Refuse, Resp, Goto, observed
<1>20. ASSUME Crash PROVE Succession'
      BY <1>20 DEF Crash, Serving
<1>21. CASE UNCHANGED vars
      BY <1>21 DEF vars, observed
<1> QED BY <1>1, <1>2, <1>3, <1>4, <1>5, <1>6, <1>7, <1>8, <1>9, <1>10, <1>11, <1>12, <1>13, <1>14, <1>15, <1>16, <1>17, <1>18, <1>19, <1>20, <1>21 DEF Next, Receive, DoSysLogin, DoSysLogout

\* A quiet sign-in stays located until a successor has told it to go.
LEMMA AllAtHomeStep == ASSUME TypeOK, Asked, Overlaps, StoresAlone, Succession, AllAtHome, [Next]_vars PROVE AllAtHome'
<1> USE SessionAssumption DEF TypeOK, redis, asked, Asked, Overlaps, Busy, Quiet, AtHome, Succeeded, StoresAlone, Succession, AllAtHome
<1>1. ASSUME NEW r \in Request, NEW a \in Account, NEW c \in Channel, ReceiveSignIn(r, a, c) PROVE AllAtHome'
      BY <1>1 DEF ReceiveSignIn, Ask, Goto, Busy
<1>2. ASSUME NEW r \in Request, NEW a \in Account, NEW c \in Channel, ReceiveBadBody(r, a, c) PROVE AllAtHome'
      BY <1>2 DEF ReceiveBadBody, Ask, Resp, Goto, observed
<1>3. ASSUME NEW r \in Request, NEW c \in Channel, ReceiveOther(r, c) PROVE AllAtHome'
      BY <1>3 DEF ReceiveOther, Ask, Goto, observed
<1>4. ASSUME NEW r \in Request, NEW c \in Channel, ServeSignOut(r, c) PROVE AllAtHome'
      BY <1>4 DEF ServeSignOut, Ask, Goto
<1>5. ASSUME NEW r \in Request, Located(r) PROVE AllAtHome'
      BY <1>5 DEF Located, Goto, observed
<1>6. ASSUME NEW r \in Request, NotLocated(r) PROVE AllAtHome'
      BY <1>6 DEF NotLocated, Resp, Goto, observed
<1>7. ASSUME NEW r \in Request, LocateFails(r) PROVE AllAtHome'
      BY <1>7 DEF LocateFails, Goto, SignIns
<1>8. ASSUME NEW r \in Request, Dispatch(r) PROVE AllAtHome'
      BY <1>8 DEF Dispatch, Goto, observed
<1>9. ASSUME NEW r \in Request, SetLocation(r) PROVE AllAtHome'
      BY <1>9 DEF SetLocation, Goto, observed
<1>10. ASSUME NEW r \in Request, SetLocationFails(r) PROVE AllAtHome'
      BY <1>10 DEF SetLocationFails, Resp, Goto
<1>11. ASSUME NEW r \in Request, SetSession(r) PROVE AllAtHome'
      BY <1>11 DEF SetSession, Resp, Goto, observed
<1>12. ASSUME NEW r \in Request, SetSessionFails(r) PROVE AllAtHome'
      BY <1>12 DEF SetSessionFails, Resp, Goto
<1>13. ASSUME NEW r \in Request, DelLocation(r) PROVE AllAtHome'
      BY <1>13 DEF DelLocation, Goto, SignIns
<1>14. ASSUME NEW r \in Request, DelSession(r) PROVE AllAtHome'
      BY <1>14 DEF DelSession, Resp, Goto, observed
<1>15. ASSUME NEW r \in Request, DelLocationFails(r) PROVE AllAtHome'
      BY <1>15 DEF DelLocationFails, Resp, Goto, SignIns
<1>16. ASSUME NEW r \in Request, DelSessionFails(r) PROVE AllAtHome'
      BY <1>16 DEF DelSessionFails, Resp, Goto, observed
<1>17. ASSUME NEW a \in Account, ExpireLocation(a) PROVE AllAtHome'
      BY <1>17 DEF ExpireLocation, SignIns
<1>18. ASSUME NEW c \in Channel, ExpireSession(c) PROVE AllAtHome'
      BY <1>18 DEF ExpireSession
<1>19. ASSUME NEW r \in Request, Refuse(r) PROVE AllAtHome'
      BY <1>19 DEF Refuse, Resp, Goto, observed
<1>20. ASSUME Crash PROVE AllAtHome'
      BY <1>20 DEF Crash, Serving
<1>21. CASE UNCHANGED vars
      BY <1>21 DEF vars, observed
<1> QED BY <1>1, <1>2, <1>3, <1>4, <1>5, <1>6, <1>7, <1>8, <1>9, <1>10, <1>11, <1>12, <1>13, <1>14, <1>15, <1>16, <1>17, <1>18, <1>19, <1>20, <1>21 DEF Next, Receive, DoSysLogin, DoSysLogout

\* A sign-out tears its channel before it deletes anything.
LEMMA LeavingIsTornStep == ASSUME TypeOK, Asked, LeavingIsTorn, [Next]_vars PROVE LeavingIsTorn'
<1> USE SessionAssumption DEF TypeOK, redis, asked, Asked, LeavingIsTorn
<1>1. ASSUME NEW r \in Request, NEW a \in Account, NEW c \in Channel, ReceiveSignIn(r, a, c) PROVE LeavingIsTorn'
      BY <1>1 DEF ReceiveSignIn, Ask, Goto, Busy
<1>2. ASSUME NEW r \in Request, NEW a \in Account, NEW c \in Channel, ReceiveBadBody(r, a, c) PROVE LeavingIsTorn'
      BY <1>2 DEF ReceiveBadBody, Ask, Resp, Goto, observed
<1>3. ASSUME NEW r \in Request, NEW c \in Channel, ReceiveOther(r, c) PROVE LeavingIsTorn'
      BY <1>3 DEF ReceiveOther, Ask, Goto, observed
<1>4. ASSUME NEW r \in Request, NEW c \in Channel, ServeSignOut(r, c) PROVE LeavingIsTorn'
      BY <1>4 DEF ServeSignOut, Ask, Goto
<1>5. ASSUME NEW r \in Request, Located(r) PROVE LeavingIsTorn'
      BY <1>5 DEF Located, Goto, observed
<1>6. ASSUME NEW r \in Request, NotLocated(r) PROVE LeavingIsTorn'
      BY <1>6 DEF NotLocated, Resp, Goto, observed
<1>7. ASSUME NEW r \in Request, LocateFails(r) PROVE LeavingIsTorn'
      BY <1>7 DEF LocateFails, Goto, SignIns
<1>8. ASSUME NEW r \in Request, Dispatch(r) PROVE LeavingIsTorn'
      BY <1>8 DEF Dispatch, Goto, observed
<1>9. ASSUME NEW r \in Request, SetLocation(r) PROVE LeavingIsTorn'
      BY <1>9 DEF SetLocation, Goto, observed
<1>10. ASSUME NEW r \in Request, SetLocationFails(r) PROVE LeavingIsTorn'
      BY <1>10 DEF SetLocationFails, Resp, Goto
<1>11. ASSUME NEW r \in Request, SetSession(r) PROVE LeavingIsTorn'
      BY <1>11 DEF SetSession, Resp, Goto, observed
<1>12. ASSUME NEW r \in Request, SetSessionFails(r) PROVE LeavingIsTorn'
      BY <1>12 DEF SetSessionFails, Resp, Goto
<1>13. ASSUME NEW r \in Request, DelLocation(r) PROVE LeavingIsTorn'
      BY <1>13 DEF DelLocation, Goto, SignIns
<1>14. ASSUME NEW r \in Request, DelSession(r) PROVE LeavingIsTorn'
      BY <1>14 DEF DelSession, Resp, Goto, observed
<1>15. ASSUME NEW r \in Request, DelLocationFails(r) PROVE LeavingIsTorn'
      BY <1>15 DEF DelLocationFails, Resp, Goto, SignIns
<1>16. ASSUME NEW r \in Request, DelSessionFails(r) PROVE LeavingIsTorn'
      BY <1>16 DEF DelSessionFails, Resp, Goto, observed
<1>17. ASSUME NEW a \in Account, ExpireLocation(a) PROVE LeavingIsTorn'
      BY <1>17 DEF ExpireLocation, SignIns
<1>18. ASSUME NEW c \in Channel, ExpireSession(c) PROVE LeavingIsTorn'
      BY <1>18 DEF ExpireSession
<1>19. ASSUME NEW r \in Request, Refuse(r) PROVE LeavingIsTorn'
      BY <1>19 DEF Refuse, Resp, Goto, observed
<1>20. ASSUME Crash PROVE LeavingIsTorn'
      BY <1>20 DEF Crash, Serving
<1>21. CASE UNCHANGED vars
      BY <1>21 DEF vars, observed
<1> QED BY <1>1, <1>2, <1>3, <1>4, <1>5, <1>6, <1>7, <1>8, <1>9, <1>10, <1>11, <1>12, <1>13, <1>14, <1>15, <1>16, <1>17, <1>18, <1>19, <1>20, <1>21 DEF Next, Receive, DoSysLogin, DoSysLogout

\* Whoever stores a location goes on to the session, or tears its channel.
LEMMA LocatedHasSessionStep == ASSUME TypeOK, Asked, LeavingIsTorn, LocatedHasSession, [Next]_vars PROVE LocatedHasSession'
<1> USE SessionAssumption DEF TypeOK, redis, asked, Asked, LeavingIsTorn, LocatedHasSession
<1>1. ASSUME NEW r \in Request, NEW a \in Account, NEW c \in Channel, ReceiveSignIn(r, a, c) PROVE LocatedHasSession'
      BY <1>1 DEF ReceiveSignIn, Ask, Goto, Busy
<1>2. ASSUME NEW r \in Request, NEW a \in Account, NEW c \in Channel, ReceiveBadBody(r, a, c) PROVE LocatedHasSession'
      BY <1>2 DEF ReceiveBadBody, Ask, Resp, Goto, observed
<1>3. ASSUME NEW r \in Request, NEW c \in Channel, ReceiveOther(r, c) PROVE LocatedHasSession'
      BY <1>3 DEF ReceiveOther, Ask, Goto, observed
<1>4. ASSUME NEW r \in Request, NEW c \in Channel, ServeSignOut(r, c) PROVE LocatedHasSession'
      BY <1>4 DEF ServeSignOut, Ask, Goto
<1>5. ASSUME NEW r \in Request, Located(r) PROVE LocatedHasSession'
      BY <1>5 DEF Located, Goto, observed
<1>6. ASSUME NEW r \in Request, NotLocated(r) PROVE LocatedHasSession'
      BY <1>6 DEF NotLocated, Resp, Goto, observed
<1>7. ASSUME NEW r \in Request, LocateFails(r) PROVE LocatedHasSession'
      BY <1>7 DEF LocateFails, Goto, SignIns
<1>8. ASSUME NEW r \in Request, Dispatch(r) PROVE LocatedHasSession'
      BY <1>8 DEF Dispatch, Goto, observed
<1>9. ASSUME NEW r \in Request, SetLocation(r) PROVE LocatedHasSession'
      BY <1>9 DEF SetLocation, Goto, observed
<1>10. ASSUME NEW r \in Request, SetLocationFails(r) PROVE LocatedHasSession'
      BY <1>10 DEF SetLocationFails, Resp, Goto
<1>11. ASSUME NEW r \in Request, SetSession(r) PROVE LocatedHasSession'
      BY <1>11 DEF SetSession, Resp, Goto, observed
<1>12. ASSUME NEW r \in Request, SetSessionFails(r) PROVE LocatedHasSession'
      BY <1>12 DEF SetSessionFails, Resp, Goto
<1>13. ASSUME NEW r \in Request, DelLocation(r) PROVE LocatedHasSession'
      BY <1>13 DEF DelLocation, Goto, SignIns
<1>14. ASSUME NEW r \in Request, DelSession(r) PROVE LocatedHasSession'
      BY <1>14 DEF DelSession, Resp, Goto, observed
<1>15. ASSUME NEW r \in Request, DelLocationFails(r) PROVE LocatedHasSession'
      BY <1>15 DEF DelLocationFails, Resp, Goto, SignIns
<1>16. ASSUME NEW r \in Request, DelSessionFails(r) PROVE LocatedHasSession'
      BY <1>16 DEF DelSessionFails, Resp, Goto, observed
<1>17. ASSUME NEW a \in Account, ExpireLocation(a) PROVE LocatedHasSession'
      BY <1>17 DEF ExpireLocation, SignIns
<1>18. ASSUME NEW c \in Channel, ExpireSession(c) PROVE LocatedHasSession'
      BY <1>18 DEF ExpireSession
<1>19. ASSUME NEW r \in Request, Refuse(r) PROVE LocatedHasSession'
      BY <1>19 DEF Refuse, Resp, Goto, observed
<1>20. ASSUME Crash PROVE LocatedHasSession'
      BY <1>20 DEF Crash, Serving
<1>21. CASE UNCHANGED vars
      BY <1>21 DEF vars, observed
<1> QED BY <1>1, <1>2, <1>3, <1>4, <1>5, <1>6, <1>7, <1>8, <1>9, <1>10, <1>11, <1>12, <1>13, <1>14, <1>15, <1>16, <1>17, <1>18, <1>19, <1>20, <1>21 DEF Next, Receive, DoSysLogin, DoSysLogout

\* A location names a channel that some sign-in has stored.
LEMMA LocationsStoredStep == ASSUME TypeOK, Asked, LocationsStored, [Next]_vars PROVE LocationsStored'
<1> USE SessionAssumption DEF TypeOK, redis, asked, Asked, LocationsStored, Stored, SignsIn, Past
<1>1. ASSUME NEW r \in Request, NEW a \in Account, NEW c \in Channel, ReceiveSignIn(r, a, c) PROVE LocationsStored'
      BY <1>1 DEF ReceiveSignIn, Ask, Goto, Busy
<1>2. ASSUME NEW r \in Request, NEW a \in Account, NEW c \in Channel, ReceiveBadBody(r, a, c) PROVE LocationsStored'
      BY <1>2 DEF ReceiveBadBody, Ask, Resp, Goto, observed
<1>3. ASSUME NEW r \in Request, NEW c \in Channel, ReceiveOther(r, c) PROVE LocationsStored'
      BY <1>3 DEF ReceiveOther, Ask, Goto, observed
<1>4. ASSUME NEW r \in Request, NEW c \in Channel, ServeSignOut(r, c) PROVE LocationsStored'
      BY <1>4 DEF ServeSignOut, Ask, Goto
<1>5. ASSUME NEW r \in Request, Located(r) PROVE LocationsStored'
      BY <1>5 DEF Located, Goto, observed
<1>6. ASSUME NEW r \in Request, NotLocated(r) PROVE LocationsStored'
      BY <1>6 DEF NotLocated, Resp, Goto, observed
<1>7. ASSUME NEW r \in Request, LocateFails(r) PROVE LocationsStored'
      BY <1>7 DEF LocateFails, Goto, SignIns
<1>8. ASSUME NEW r \in Request, Dispatch(r) PROVE LocationsStored'
      BY <1>8 DEF Dispatch, Goto, observed
<1>9. ASSUME NEW r \in Request, SetLocation(r) PROVE LocationsStored'
      BY <1>9 DEF SetLocation, Goto, observed
<1>10. ASSUME NEW r \in Request, SetLocationFails(r) PROVE LocationsStored'
      BY <1>10 DEF SetLocationFails, Resp, Goto
<1>11. ASSUME NEW r \in Request, SetSession(r) PROVE LocationsStored'
      BY <1>11 DEF SetSession, Resp, Goto, observed
<1>12. ASSUME NEW r \in Request, SetSessionFails(r) PROVE LocationsStored'
      BY <1>12 DEF SetSessionFails, Resp, Goto
<1>13. ASSUME NEW r \in Request, DelLocation(r) PROVE LocationsStored'
      BY <1>13 DEF DelLocation, Goto, SignIns
<1>14. ASSUME NEW r \in Request, DelSession(r) PROVE LocationsStored'
      BY <1>14 DEF DelSession, Resp, Goto, observed
<1>15. ASSUME NEW r \in Request, DelLocationFails(r) PROVE LocationsStored'
      BY <1>15 DEF DelLocationFails, Resp, Goto, SignIns
<1>16. ASSUME NEW r \in Request, DelSessionFails(r) PROVE LocationsStored'
      BY <1>16 DEF DelSessionFails, Resp, Goto, observed
<1>17. ASSUME NEW a \in Account, ExpireLocation(a) PROVE LocationsStored'
      BY <1>17 DEF ExpireLocation, SignIns
<1>18. ASSUME NEW c \in Channel, ExpireSession(c) PROVE LocationsStored'
      BY <1>18 DEF ExpireSession
<1>19. ASSUME NEW r \in Request, Refuse(r) PROVE LocationsStored'
      BY <1>19 DEF Refuse, Resp, Goto, observed
<1>20. ASSUME Crash PROVE LocationsStored'
      BY <1>20 DEF Crash, Serving
<1>21. CASE UNCHANGED vars
      BY <1>21 DEF vars, observed
<1> QED BY <1>1, <1>2, <1>3, <1>4, <1>5, <1>6, <1>7, <1>8, <1>9, <1>10, <1>11, <1>12, <1>13, <1>14, <1>15, <1>16, <1>17, <1>18, <1>19, <1>20, <1>21 DEF Next, Receive, DoSysLogin, DoSysLogout

\* So does what a handler found before.
LEMMA OldStoredStep == ASSUME TypeOK, Asked, LocationsStored, OldStored, [Next]_vars PROVE OldStored'
<1> USE SessionAssumption DEF TypeOK, redis, asked, Asked, LocationsStored, OldStored, Stored, SignsIn, Past
<1>1. ASSUME NEW r \in Request, NEW a \in Account, NEW c \in Channel, ReceiveSignIn(r, a, c) PROVE OldStored'
      BY <1>1 DEF ReceiveSignIn, Ask, Goto, Busy
<1>2. ASSUME NEW r \in Request, NEW a \in Account, NEW c \in Channel, ReceiveBadBody(r, a, c) PROVE OldStored'
      BY <1>2 DEF ReceiveBadBody, Ask, Resp, Goto, observed
<1>3. ASSUME NEW r \in Request, NEW c \in Channel, ReceiveOther(r, c) PROVE OldStored'
      BY <1>3 DEF ReceiveOther, Ask, Goto, observed
<1>4. ASSUME NEW r \in Request, NEW c \in Channel, ServeSignOut(r, c) PROVE OldStored'
      BY <1>4 DEF ServeSignOut, Ask, Goto
<1>5. ASSUME NEW r \in Request, Located(r) PROVE OldStored'
      BY <1>5 DEF Located, Goto, observed
<1>6. ASSUME NEW r \in Request, NotLocated(r) PROVE OldStored'
      BY <1>6 DEF NotLocated, Resp, Goto, observed
<1>7. ASSUME NEW r \in Request, LocateFails(r) PROVE OldStored'
      BY <1>7 DEF LocateFails, Goto, SignIns
<1>8. ASSUME NEW r \in Request, Dispatch(r) PROVE OldStored'
      BY <1>8 DEF Dispatch, Goto, observed
<1>9. ASSUME NEW r \in Request, SetLocation(r) PROVE OldStored'
      BY <1>9 DEF SetLocation, Goto, observed
<1>10. ASSUME NEW r \in Request, SetLocationFails(r) PROVE OldStored'
      BY <1>10 DEF SetLocationFails, Resp, Goto
<1>11. ASSUME NEW r \in Request, SetSession(r) PROVE OldStored'
      BY <1>11 DEF SetSession, Resp, Goto, observed
<1>12. ASSUME NEW r \in Request, SetSessionFails(r) PROVE OldStored'
      BY <1>12 DEF SetSessionFails, Resp, Goto
<1>13. ASSUME NEW r \in Request, DelLocation(r) PROVE OldStored'
      BY <1>13 DEF DelLocation, Goto, SignIns
<1>14. ASSUME NEW r \in Request, DelSession(r) PROVE OldStored'
      BY <1>14 DEF DelSession, Resp, Goto, observed
<1>15. ASSUME NEW r \in Request, DelLocationFails(r) PROVE OldStored'
      BY <1>15 DEF DelLocationFails, Resp, Goto, SignIns
<1>16. ASSUME NEW r \in Request, DelSessionFails(r) PROVE OldStored'
      BY <1>16 DEF DelSessionFails, Resp, Goto, observed
<1>17. ASSUME NEW a \in Account, ExpireLocation(a) PROVE OldStored'
      BY <1>17 DEF ExpireLocation, SignIns
<1>18. ASSUME NEW c \in Channel, ExpireSession(c) PROVE OldStored'
      BY <1>18 DEF ExpireSession
<1>19. ASSUME NEW r \in Request, Refuse(r) PROVE OldStored'
      BY <1>19 DEF Refuse, Resp, Goto, observed
<1>20. ASSUME Crash PROVE OldStored'
      BY <1>20 DEF Crash, Serving
<1>21. CASE UNCHANGED vars
      BY <1>21 DEF vars, observed
<1> QED BY <1>1, <1>2, <1>3, <1>4, <1>5, <1>6, <1>7, <1>8, <1>9, <1>10, <1>11, <1>12, <1>13, <1>14, <1>15, <1>16, <1>17, <1>18, <1>19, <1>20, <1>21 DEF Next, Receive, DoSysLogin, DoSysLogout

\* A notice was dispatched by a successor that found the channel located.
LEMMA KicksTracedStep == ASSUME TypeOK, Asked, KicksTraced, [Next]_vars PROVE KicksTraced'
<1> USE SessionAssumption DEF TypeOK, redis, asked, Asked, KicksTraced, Successor
<1>1. ASSUME NEW r \in Request, NEW a \in Account, NEW c \in Channel, ReceiveSignIn(r, a, c) PROVE KicksTraced'
      BY <1>1 DEF ReceiveSignIn, Ask, Goto, Busy
<1>2. ASSUME NEW r \in Request, NEW a \in Account, NEW c \in Channel, ReceiveBadBody(r, a, c) PROVE KicksTraced'
      BY <1>2 DEF ReceiveBadBody, Ask, Resp, Goto, observed
<1>3. ASSUME NEW r \in Request, NEW c \in Channel, ReceiveOther(r, c) PROVE KicksTraced'
      BY <1>3 DEF ReceiveOther, Ask, Goto, observed
<1>4. ASSUME NEW r \in Request, NEW c \in Channel, ServeSignOut(r, c) PROVE KicksTraced'
      BY <1>4 DEF ServeSignOut, Ask, Goto
<1>5. ASSUME NEW r \in Request, Located(r) PROVE KicksTraced'
      BY <1>5 DEF Located, Goto, observed
<1>6. ASSUME NEW r \in Request, NotLocated(r) PROVE KicksTraced'
      BY <1>6 DEF NotLocated, Resp, Goto, observed
<1>7. ASSUME NEW r \in Request, LocateFails(r) PROVE KicksTraced'
      BY <1>7 DEF LocateFails, Goto, SignIns
<1>8. ASSUME NEW r \in Request, Dispatch(r) PROVE KicksTraced'
      BY <1>8 DEF Dispatch, Goto, observed
<1>9. ASSUME NEW r \in Request, SetLocation(r) PROVE KicksTraced'
      BY <1>9 DEF SetLocation, Goto, observed
<1>10. ASSUME NEW r \in Request, SetLocationFails(r) PROVE KicksTraced'
      BY <1>10 DEF SetLocationFails, Resp, Goto
<1>11. ASSUME NEW r \in Request, SetSession(r) PROVE KicksTraced'
      BY <1>11 DEF SetSession, Resp, Goto, observed
<1>12. ASSUME NEW r \in Request, SetSessionFails(r) PROVE KicksTraced'
      BY <1>12 DEF SetSessionFails, Resp, Goto
<1>13. ASSUME NEW r \in Request, DelLocation(r) PROVE KicksTraced'
      BY <1>13 DEF DelLocation, Goto, SignIns
<1>14. ASSUME NEW r \in Request, DelSession(r) PROVE KicksTraced'
      BY <1>14 DEF DelSession, Resp, Goto, observed
<1>15. ASSUME NEW r \in Request, DelLocationFails(r) PROVE KicksTraced'
      BY <1>15 DEF DelLocationFails, Resp, Goto, SignIns
<1>16. ASSUME NEW r \in Request, DelSessionFails(r) PROVE KicksTraced'
      BY <1>16 DEF DelSessionFails, Resp, Goto, observed
<1>17. ASSUME NEW a \in Account, ExpireLocation(a) PROVE KicksTraced'
      BY <1>17 DEF ExpireLocation, SignIns
<1>18. ASSUME NEW c \in Channel, ExpireSession(c) PROVE KicksTraced'
      BY <1>18 DEF ExpireSession
<1>19. ASSUME NEW r \in Request, Refuse(r) PROVE KicksTraced'
      BY <1>19 DEF Refuse, Resp, Goto, observed
<1>20. ASSUME Crash PROVE KicksTraced'
      BY <1>20 DEF Crash, Serving
<1>21. CASE UNCHANGED vars
      BY <1>21 DEF vars, observed
<1> QED BY <1>1, <1>2, <1>3, <1>4, <1>5, <1>6, <1>7, <1>8, <1>9, <1>10, <1>11, <1>12, <1>13, <1>14, <1>15, <1>16, <1>17, <1>18, <1>19, <1>20, <1>21 DEF Next, Receive, DoSysLogin, DoSysLogout

\* A channel that signed in once is not stored again when its successor has
\* stored its own location: its only sign-in is past.
LEMMA ReplacedStep == ASSUME TypeOK, Asked, LocationsStored, OldStored, Replaced, [Next]_vars PROVE Replaced'
<1> USE SessionAssumption DEF TypeOK, redis, asked, Asked, LocationsStored, OldStored, Replaced, Stored, SignsIn, Past, Single, Successor, Succeeded
<1>1. ASSUME NEW r \in Request, NEW a \in Account, NEW c \in Channel, ReceiveSignIn(r, a, c) PROVE Replaced'
      BY <1>1 DEF ReceiveSignIn, Ask, Goto, Busy
<1>2. ASSUME NEW r \in Request, NEW a \in Account, NEW c \in Channel, ReceiveBadBody(r, a, c) PROVE Replaced'
      BY <1>2 DEF ReceiveBadBody, Ask, Resp, Goto, observed
<1>3. ASSUME NEW r \in Request, NEW c \in Channel, ReceiveOther(r, c) PROVE Replaced'
      BY <1>3 DEF ReceiveOther, Ask, Goto, observed
<1>4. ASSUME NEW r \in Request, NEW c \in Channel, ServeSignOut(r, c) PROVE Replaced'
      BY <1>4 DEF ServeSignOut, Ask, Goto
<1>5. ASSUME NEW r \in Request, Located(r) PROVE Replaced'
      BY <1>5 DEF Located, Goto, observed
<1>6. ASSUME NEW r \in Request, NotLocated(r) PROVE Replaced'
      BY <1>6 DEF NotLocated, Resp, Goto, observed
<1>7. ASSUME NEW r \in Request, LocateFails(r) PROVE Replaced'
      BY <1>7 DEF LocateFails, Goto, SignIns
<1>8. ASSUME NEW r \in Request, Dispatch(r) PROVE Replaced'
      BY <1>8 DEF Dispatch, Goto, observed
<1>9. ASSUME NEW r \in Request, SetLocation(r) PROVE Replaced'
      BY <1>9 DEF SetLocation, Goto, observed
<1>10. ASSUME NEW r \in Request, SetLocationFails(r) PROVE Replaced'
      BY <1>10 DEF SetLocationFails, Resp, Goto
<1>11. ASSUME NEW r \in Request, SetSession(r) PROVE Replaced'
      BY <1>11 DEF SetSession, Resp, Goto, observed
<1>12. ASSUME NEW r \in Request, SetSessionFails(r) PROVE Replaced'
      BY <1>12 DEF SetSessionFails, Resp, Goto
<1>13. ASSUME NEW r \in Request, DelLocation(r) PROVE Replaced'
      BY <1>13 DEF DelLocation, Goto, SignIns
<1>14. ASSUME NEW r \in Request, DelSession(r) PROVE Replaced'
      BY <1>14 DEF DelSession, Resp, Goto, observed
<1>15. ASSUME NEW r \in Request, DelLocationFails(r) PROVE Replaced'
      BY <1>15 DEF DelLocationFails, Resp, Goto, SignIns
<1>16. ASSUME NEW r \in Request, DelSessionFails(r) PROVE Replaced'
      BY <1>16 DEF DelSessionFails, Resp, Goto, observed
<1>17. ASSUME NEW a \in Account, ExpireLocation(a) PROVE Replaced'
      BY <1>17 DEF ExpireLocation, SignIns
<1>18. ASSUME NEW c \in Channel, ExpireSession(c) PROVE Replaced'
      BY <1>18 DEF ExpireSession
<1>19. ASSUME NEW r \in Request, Refuse(r) PROVE Replaced'
      BY <1>19 DEF Refuse, Resp, Goto, observed
<1>20. ASSUME Crash PROVE Replaced'
      BY <1>20 DEF Crash, Serving
<1>21. CASE UNCHANGED vars
      BY <1>21 DEF vars, observed
<1> QED BY <1>1, <1>2, <1>3, <1>4, <1>5, <1>6, <1>7, <1>8, <1>9, <1>10, <1>11, <1>12, <1>13, <1>14, <1>15, <1>16, <1>17, <1>18, <1>19, <1>20, <1>21 DEF Next, Receive, DoSysLogin, DoSysLogout

-----------------------------------------------------------------------------
LEMMA Initially == Init => IInv
BY SessionAssumption
   DEF Init, IInv, TypeOK, Asked, Overlaps, Busy, StoresAlone, Succession,
       AllAtHome, Quiet, LeavingIsTorn, LocatedHasSession, LocationsStored,
       OldStored, KicksTraced, Replaced, Successor

LEMMA Inductive == IInv /\ [Next]_vars => IInv'
<1> SUFFICES ASSUME IInv, [Next]_vars PROVE IInv'
    OBVIOUS
<1> USE DEF IInv
<1>1. TypeOK' /\ Asked' BY TypeOKStep, AskedStep
<1>2. Overlaps' /\ StoresAlone' /\ Succession' /\ AllAtHome'
      BY OverlapsStep, StoresAloneStep, SuccessionStep, AllAtHomeStep
<1>3. LeavingIsTorn' /\ LocatedHasSession'
      BY LeavingIsTornStep, LocatedHasSessionStep
<1>4. LocationsStored' /\ OldStored' /\ KicksTraced' /\ Replaced'
      BY LocationsStoredStep, OldStoredStep, KicksTracedStep, ReplacedStep
<1> QED BY <1>1, <1>2, <1>3, <1>4

\* Every reachable state satisfies the strengthening.
THEOREM Invariance == Spec => []IInv
<1>1. Init => IInv BY Initially
<1>2. IInv /\ [Next]_vars => IInv' BY Inductive
<1> QED BY <1>1, <1>2, PTL DEF Spec

\* Requests, keys and histories keep their types.
THEOREM TypeCorrect == Spec => []TypeOK
<1>1. IInv => TypeOK BY DEF IInv
<1> QED BY <1>1, Invariance, PTL

\* A channel that signed in without overlap or loss is located or was told to go.
THEOREM NewestLocated == Spec => []NewestIsLocated
<1>1. IInv => NewestIsLocated
      BY DEF IInv, AllAtHome, AtHome, Quiet, Succeeded, NewestIsLocated, SignedIn
<1> QED BY <1>1, Invariance, PTL

\* A located channel has a session, unless that was lost or is being written.
THEOREM LocatedInSession == Spec => []LocatedHasSession
<1>1. IInv => LocatedHasSession BY DEF IInv
<1> QED BY <1>1, Invariance, PTL

\* A channel told to go is not left located once its successor is done.
THEOREM KickedReplaced == Spec => []KickedIsReplaced
<1>1. ASSUME IInv PROVE KickedIsReplaced
  <2> SUFFICES ASSUME NEW a \in Account, <<a, loc[a]>> \in kicked,
                      ~ \E q, r \in SignIns(a) :
                            q # r /\ chan[q] = loc[a] /\ chan[r] = loc[a]
               PROVE  \E r \in SignIns(a) :
                        /\ old[r] = loc[a] /\ chan[r] # loc[a]
                        /\ \/ pc[r] \in {"SetLocation", "lost"}
                           \/ answer[r] = "SystemException"
      BY DEF KickedIsReplaced
  <2>1. Single(a, loc[a])
        BY DEF Single, SignsIn, SignIns
  <2>2. loc[a] \in Channel
        BY <1>1 DEF IInv, TypeOK
  <2>3. PICK r \in Request : /\ Successor(r, a, loc[a])
                             /\ pc[r] \notin {"new", "GetLocation", "Dispatch"}
        BY <1>1, <2>2 DEF IInv, KicksTraced
  <2>4. pc[r] # "SetSession" /\ ~Succeeded(r)
        BY <1>1, <2>1, <2>2, <2>3 DEF IInv, Replaced
  <2>5. pc[r] \in {"SetLocation", "lost"} \/ answer[r] = "SystemException"
        BY <1>1, <2>3, <2>4 DEF IInv, TypeOK, Asked, Succeeded, Successor
  <2> QED BY <2>3, <2>5 DEF SignIns, Successor
<1> QED BY <1>1, Invariance, PTL
=============================================================================
