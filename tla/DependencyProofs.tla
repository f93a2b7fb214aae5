-------------------------- MODULE DependencyProofs --------------------------
(***************************************************************************)
(* Theorems about the services a container depends on: the clients it      *)
(* keeps to them (module ClientPool), for every set of services and number *)
(* of batches, and the watches that tell it of them (module Naming), for   *)
(* every set of instances and watches and every length of consul's         *)
(* history.                                                                *)
(*                                                                         *)
(* The pool.  While a goroutine is between its check under the lock and    *)
(* clients.Add, the id has no client (Reserved), and the lock keeps it the *)
(* only one there (Mutex).  So a client that still owes its Remove is      *)
(* either the one being added or the one in the pool (Owned), and Remove   *)
(* finds itself or nothing under its id.                                   *)
(*                                                                         *)
(* The naming.  What was given, and what is about to be, the agent holds   *)
(* already (CalledCached), so an open watch is about to give nothing older *)
(* (OpenIsNewest); one that was unsubscribed gets past the select at most  *)
(* once more (LateIsLast).                                                 *)
(***************************************************************************)
EXTENDS ClientPool, Naming, SequenceTheorems, TLAPS

Building(n) == bpc[n] \in {"dial", "add"}

Mutex    == \A n \in Batch : Building(n) => lock = n
Named    == \A n \in Batch : bpc[n] \in {"lock", "dial", "add"} => service[n] \in Id
Reserved == \A n \in Batch : Building(n) => pool[service[n]] = None
Owned    == \A n \in Batch, i \in Id :
                cli[n][i] \in {"reading", "lost"} => pool[i] = n \/ Adding(n, i)

PoolInv == TypeOK /\ Mutex /\ Named /\ Reserved /\ Owned
-----------------------------------------------------------------------------
\* None is no batch, so "no client" and "no holder" cannot be confused with one.
LEMMA NoneIsNoBatch == None \notin Batch /\ \A n \in Batch : n \in Int /\ n >= 0
  BY ClientPoolAssumption DEF None, Batch

\* Before any batch has begun there is no client and no timer.
LEMMA PoolInitially == Init => PoolInv
<1> SUFFICES ASSUME Init PROVE PoolInv
  OBVIOUS
<1>1. TypeOK
  <2>1. todo \in [Batch -> Seq(Id)]
    BY EmptySeq DEF Init
  <2> QED  BY <2>1 DEF Init, TypeOK, State, Life
<1>2. Mutex /\ Named /\ Reserved /\ Owned
  BY DEF Init, Mutex, Named, Reserved, Owned, Building, Adding
<1> QED  BY <1>1, <1>2 DEF PoolInv

\* The loop variable takes an id and the rest of the batch is shorter.
LEMMA NextEntryType ==
    ASSUME TypeOK, NEW n \in Batch, NextEntry(n)
    PROVE  /\ service' \in [Batch -> Id \cup {None}] /\ service'[n] \in Id
           /\ todo' \in [Batch -> Seq(Id)]
           /\ service'[n] # None => service'[n] \in Id
           /\ \A m \in Batch : m # n => service'[m] = service[m]
<1>1. todo[n] \in Seq(Id) /\ todo[n] # <<>>
  BY DEF TypeOK, NextEntry
<1>2. Head(todo[n]) \in Id /\ Tail(todo[n]) \in Seq(Id)
  BY <1>1, HeadTailProperties
<1> QED  BY <1>2 DEF TypeOK, NextEntry

\* Every step keeps the types.
LEMMA TypeStep == TypeOK /\ Named /\ [Next]_vars => TypeOK'
<1> SUFFICES ASSUME TypeOK, Named, [Next]_vars PROVE TypeOK'
  OBVIOUS
<1> USE DEF batches, State, Life, Goto
<1>1. ASSUME NEW n \in Batch, Begin(n) PROVE TypeOK'
  <2>1. PICK s \in Listing : todo' = [todo EXCEPT ![n] = s]
    BY <1>1 DEF Begin
  <2>2. s \in Seq(Id)
    BY <2>1, SeqDef DEF Listing
  <2>3. todo' \in [Batch -> Seq(Id)]
    BY <2>1, <2>2 DEF TypeOK
  <2>4. bpc' \in [Batch -> {"new", "loop", "lock", "dial", "add", "done"}]
    BY <1>1 DEF Begin, TypeOK
  <2> QED  BY <1>1, <2>3, <2>4 DEF Begin, TypeOK
<1>2. ASSUME NEW n \in Batch, Walk(n) PROVE TypeOK'
  <2>1. CASE SkipKnown(n)
    BY <2>1, NextEntryType DEF SkipKnown, TypeOK
  <2>2. CASE Watched(n)
    <3>1. service'[n] \in Id /\ service' \in [Batch -> Id \cup {None}]
          /\ todo' \in [Batch -> Seq(Id)]
      BY <2>2, NextEntryType DEF Watched
    <3>2. meta' \in [Batch -> [Id -> State]]
      BY <2>2, <3>1 DEF Watched, TypeOK
    <3>3. timers' \in [Batch -> Nat]
      BY <2>2 DEF Watched, TypeOK
    <3>4. bpc' \in [Batch -> {"new", "loop", "lock", "dial", "add", "done"}]
      BY <2>2 DEF Watched, TypeOK
    <3> QED  BY <2>2, <3>1, <3>2, <3>3, <3>4 DEF Watched, TypeOK
  <2>3. CASE Found(n)
    <3>1. service'[n] \in Id /\ service' \in [Batch -> Id \cup {None}]
          /\ todo' \in [Batch -> Seq(Id)]
      BY <2>3, NextEntryType DEF Found
    <3>2. meta' \in [Batch -> [Id -> State]]
      BY <2>3, <3>1 DEF Found, TypeOK
    <3>3. bpc' \in [Batch -> {"new", "loop", "lock", "dial", "add", "done"}]
      BY <2>3 DEF Found, TypeOK
    <3> QED  BY <2>3, <3>1, <3>2, <3>3 DEF Found, TypeOK
  <2>4. CASE End(n)
    BY <2>4 DEF End, TypeOK
  <2> QED  BY <1>2, <2>1, <2>2, <2>3, <2>4 DEF Walk
<1>3. ASSUME NEW n \in Batch, TimerFires(n) PROVE TypeOK'
  <2>1. timers' \in [Batch -> Nat]
    BY <1>3 DEF TimerFires, TypeOK
  <2>2. meta' \in [Batch -> [Id -> State]]
    BY <1>3 DEF TimerFires, TypeOK
  <2> QED  BY <1>3, <2>1, <2>2 DEF TimerFires, TypeOK
<1>4. ASSUME NEW n \in Batch, Build(n) PROVE TypeOK'
  <2>1. CASE AlreadyBuilt(n) \/ Dial(n) \/ DialFails(n)
    BY <2>1 DEF AlreadyBuilt, Dial, DialFails, TypeOK
  <2>2. CASE Connected(n)
    BY <2>2 DEF Connected, TypeOK
  <2>3. CASE AddClient(n)
    BY <2>3 DEF AddClient, TypeOK
  <2> QED  BY <1>4, <2>1, <2>2, <2>3 DEF Build
<1>5. ASSUME NEW n \in Batch, NEW i \in Id, ReadFails(n, i) \/ RemoveClient(n, i)
      PROVE  TypeOK'
  <2>1. CASE ReadFails(n, i)
    BY <2>1 DEF ReadFails, TypeOK
  <2>2. CASE RemoveClient(n, i)
    BY <2>2 DEF RemoveClient, TypeOK
  <2> QED  BY <1>5, <2>1, <2>2
<1>6. CASE UNCHANGED vars
  BY <1>6 DEF vars, TypeOK
<1> QED  BY <1>1, <1>2, <1>3, <1>4, <1>5, <1>6 DEF Next

\* The lock is taken and given up with the place of its holder, and the loop
\* variable stays while it is in use.
LEMMA ControlStep == PoolInv /\ [Next]_vars => Mutex' /\ Named'
<1> SUFFICES ASSUME PoolInv, [Next]_vars PROVE Mutex' /\ Named'
  OBVIOUS
<1> USE NoneIsNoBatch DEF batches, Goto
<1> TypeOK /\ Mutex /\ Named
  BY DEF PoolInv
<1> USE DEF Mutex, Named, Building
<1>1. ASSUME NEW n \in Batch, Begin(n) PROVE Mutex' /\ Named'
  BY <1>1 DEF Begin, TypeOK
<1>2. ASSUME NEW n \in Batch, Walk(n) PROVE Mutex' /\ Named'
  <2>1. CASE End(n)
    BY <2>1 DEF End, TypeOK
  <2>2. CASE ~End(n)
    <3>1. NextEntry(n) /\ UNCHANGED lock
      BY <1>2, <2>2 DEF Walk, SkipKnown, Watched, Found
    <3>2. service'[n] \in Id /\ \A m \in Batch : m # n => service'[m] = service[m]
      BY <3>1, NextEntryType
    <3>3. bpc[n] = "loop" /\ (UNCHANGED bpc \/ bpc' = [bpc EXCEPT ![n] = "lock"])
      BY <1>2, <2>2, <3>1 DEF Walk, SkipKnown, Watched, Found, NextEntry
    <3> QED  BY <3>1, <3>2, <3>3 DEF TypeOK
  <2> QED  BY <2>1, <2>2
<1>3. ASSUME NEW n \in Batch, TimerFires(n) PROVE Mutex' /\ Named'
  BY <1>3 DEF TimerFires
<1>4. ASSUME NEW n \in Batch, Build(n) PROVE Mutex' /\ Named'
  <2>1. CASE AlreadyBuilt(n)
    BY <2>1 DEF AlreadyBuilt, Locking, TypeOK
  <2>2. CASE Dial(n)
    BY <2>2 DEF Dial, Locking, TypeOK
  <2>3. CASE DialFails(n)
    BY <2>3 DEF DialFails, TypeOK
  <2>4. CASE Connected(n)
    BY <2>4 DEF Connected, TypeOK
  <2>5. CASE AddClient(n)
    BY <2>5 DEF AddClient, TypeOK
  <2> QED  BY <1>4, <2>1, <2>2, <2>3, <2>4, <2>5 DEF Build
<1>5. ASSUME NEW n \in Batch, NEW i \in Id, ReadFails(n, i) \/ RemoveClient(n, i)
      PROVE  Mutex' /\ Named'
  BY <1>5 DEF ReadFails, RemoveClient
<1>6. CASE UNCHANGED vars
  BY <1>6 DEF vars
<1> QED  BY <1>1, <1>2, <1>3, <1>4, <1>5, <1>6 DEF Next

\* Only AddClient fills an entry, its holder's own; only a client's goroutine
\* empties one, and it finds its own client there or none.
LEMMA PoolStep == PoolInv /\ [Next]_vars => Reserved' /\ Owned'
<1> SUFFICES ASSUME PoolInv, [Next]_vars PROVE Reserved' /\ Owned'
  OBVIOUS
<1> USE NoneIsNoBatch DEF batches, Goto
<1> TypeOK /\ Mutex /\ Named /\ Reserved /\ Owned
  BY DEF PoolInv
<1> USE DEF Mutex, Named, Reserved, Owned, Building, Adding
<1>1. ASSUME NEW n \in Batch, Begin(n) PROVE Reserved' /\ Owned'
  BY <1>1 DEF Begin, TypeOK
<1>2. ASSUME NEW n \in Batch, Walk(n) PROVE Reserved' /\ Owned'
  <2>1. CASE End(n)
    BY <2>1 DEF End, TypeOK
  <2>2. CASE ~End(n)
    <3>1. NextEntry(n) /\ UNCHANGED <<pool, cli>>
      BY <1>2, <2>2 DEF Walk, SkipKnown, Watched, Found
    <3>2. \A m \in Batch : m # n => service'[m] = service[m]
      BY <3>1, NextEntryType
    <3>3. bpc[n] = "loop" /\ (UNCHANGED bpc \/ bpc' = [bpc EXCEPT ![n] = "lock"])
      BY <1>2, <2>2, <3>1 DEF Walk, SkipKnown, Watched, Found, NextEntry
    <3> QED  BY <3>1, <3>2, <3>3 DEF TypeOK
  <2> QED  BY <2>1, <2>2
<1>3. ASSUME NEW n \in Batch, TimerFires(n) PROVE Reserved' /\ Owned'
  BY <1>3 DEF TimerFires
<1>4. ASSUME NEW n \in Batch, Build(n) PROVE Reserved' /\ Owned'
  <2>1. CASE AlreadyBuilt(n)
    BY <2>1 DEF AlreadyBuilt, Locking, TypeOK
  <2>2. CASE Dial(n)
    BY <2>2 DEF Dial, Locking, TypeOK
  <2>3. CASE DialFails(n)
    BY <2>3 DEF DialFails, TypeOK
  <2>4. CASE Connected(n)
    BY <2>4 DEF Connected, TypeOK
  <2>5. CASE AddClient(n)
    BY <2>5 DEF AddClient, TypeOK
  <2> QED  BY <1>4, <2>1, <2>2, <2>3, <2>4, <2>5 DEF Build
<1>5. ASSUME NEW n \in Batch, NEW i \in Id, ReadFails(n, i)
      PROVE  Reserved' /\ Owned'
  BY <1>5 DEF ReadFails, TypeOK
<1>6. ASSUME NEW n \in Batch, NEW i \in Id, RemoveClient(n, i)
      PROVE  Reserved' /\ Owned'
  BY <1>6 DEF RemoveClient, TypeOK
<1>7. CASE UNCHANGED vars
  BY <1>7 DEF vars
<1> QED  BY <1>1, <1>2, <1>3, <1>4, <1>5, <1>6, <1>7 DEF Next

\* The inductive invariant holds in every reachable state of the pool.
THEOREM PoolInvariant == Spec => []PoolInv
<1>1. PoolInv /\ [Next]_vars => PoolInv'
  BY TypeStep, ControlStep, PoolStep DEF PoolInv
<1> QED  BY PoolInitially, <1>1, PTL DEF Spec
-----------------------------------------------------------------------------
(***************************************************************************)
(* What follows from the invariant.                                        *)
(***************************************************************************)
\* Every variable keeps its type.
THEOREM PoolTypes == Spec => []TypeOK
<1>1. PoolInv => TypeOK
  BY DEF PoolInv
<1> QED  BY PoolInvariant, <1>1, PTL

\* A live client that was added is under its id: buildClient never covers it
\* and no other client's goroutine removes it.
THEOREM LiveClientFound == Spec => []LiveClientInPool
<1>1. PoolInv => LiveClientInPool
  BY DEF PoolInv, Owned, LiveClientInPool
<1> QED  BY PoolInvariant, <1>1, PTL

\* Find, the watch and lost connections never make two clients of a service.
THEOREM OneClient == Spec => []OneClientPerService
<1>1. PoolInv => OneClientPerService
  <2> SUFFICES ASSUME PoolInv, NEW i \in Id, NEW m \in Batch, NEW n \in Batch,
                      cli[m][i] \in {"reading", "lost"}, cli[n][i] \in {"reading", "lost"}
               PROVE  m = n
    BY DEF OneClientPerService
  <2>1. (pool[i] = m \/ Adding(m, i)) /\ (pool[i] = n \/ Adding(n, i))
    BY DEF PoolInv, Owned
  <2>2. \A k \in Batch : Adding(k, i) => lock = k /\ pool[i] = None
    BY DEF PoolInv, Adding, Mutex, Reserved, Building
  <2> QED  BY <2>1, <2>2, NoneIsNoBatch
<1> QED  BY PoolInvariant, <1>1, PTL

\* clients.Remove, which names only an id, takes away the caller's own client
\* or nothing.
THEOREM RemoveIsSafe == Spec => RemovesOnlyItself
<1>1. ASSUME PoolInv, NEW n \in Batch, NEW i \in Id, cli[n][i] = "lost"
      PROVE  pool[i] \in {n, None}
  BY <1>1 DEF PoolInv, Owned, Adding, Reserved, Building
<1>2. PoolInv => [\A n \in Batch, i \in Id :
                 cli[n][i] = "lost" /\ cli'[n][i] = "closed" => pool[i] \in {n, None}]_vars
  BY <1>1
<1> QED  BY PoolInvariant, <1>2, PTL DEF RemovesOnlyItself
-----------------------------------------------------------------------------
(***************************************************************************)
(* The naming.                                                             *)
(***************************************************************************)
\* The map holds the one watch that runs and was not unsubscribed.
OneOpen ==
    \A w \in Watch :
        /\ place[w] = "none" => ~quit[w] /\ w # watchs
        /\ place[w] # "none" /\ ~quit[w] => w = watchs
        /\ w = watchs => ~quit[w]

\* A late callback is the last: no load after it gets past the select.
LateIsLast ==
    \A w \in Watch :
        /\ ~quit[w] => late[w] = 0
        /\ place[w] = "callback" => late[w] = 0
        /\ late[w] <= 1

\* What was given, and what is about to be, the agent holds already.
CalledCached ==
    /\ called <= cached
    /\ \A w \in Watch : answer[w] <= cached

\* An open watch is about to give nothing older than what was given, or is
\* about to be given by a watch that was unsubscribed before it began.
OpenIsNewest ==
    \A w \in Watch :
        (place[w] \in {"select", "callback"} /\ ~quit[w])
            => /\ called <= answer[w]
               /\ \A v \in Watch : place[v] = "callback" => answer[v] <= answer[w]

WatchInv == NamingTypeOK /\ OneOpen /\ LateIsLast /\ CalledCached /\ OpenIsNewest
-----------------------------------------------------------------------------
\* What consul records keeps its type.
LEMMA EnterTypeOK ==
    ASSUME NamingTypeOK, NEW s \in Service, NEW health \in Health, Enter(s, health)
    PROVE  NamingTypeOK'
<1>1. catalog' \in Seq([Service -> Health]) /\ Len(catalog') = Len(catalog) + 1
  <2>1. catalog[Now] \in [Service -> Health] BY DEF NamingTypeOK, Now
  <2>2. [catalog[Now] EXCEPT ![s] = health] \in [Service -> Health] BY <2>1
  <2> QED BY <2>2 DEF Enter, NamingTypeOK
<1> QED BY <1>1, NamingAssumption DEF Enter, NamingTypeOK, Now, local, seen

\* Types are kept: indexes only grow, and nothing names an index to come.
LEMMA NamingTypeStep ==
    ASSUME NamingTypeOK, [NamingNext]_namingVars
    PROVE NamingTypeOK'
<1> USE NamingAssumption DEF NamingTypeOK, Now, consul, local, seen, Health
<1>1. ASSUME NEW s \in Service, Register(s) PROVE NamingTypeOK'
      BY <1>1, EnterTypeOK DEF Register
<1>2. ASSUME NEW s \in Service, Deregister(s) PROVE NamingTypeOK'
      BY <1>2, EnterTypeOK DEF Deregister
<1>3. ASSUME NEW s \in Service, Check(s) PROVE NamingTypeOK'
      BY <1>3, EnterTypeOK DEF Check
<1>4. ASSUME Outage PROVE NamingTypeOK'
      BY <1>4 DEF Outage
<1>5. ASSUME Find PROVE NamingTypeOK'
      BY <1>5 DEF Find, Answers
<1>6. ASSUME NEW w \in Watch, Subscribe(w) PROVE NamingTypeOK'
      BY <1>6 DEF Subscribe
<1>7. ASSUME NEW w \in Watch, Unsubscribe(w) PROVE NamingTypeOK'
      BY <1>7 DEF Unsubscribe
<1>8. ASSUME NEW w \in Watch, Load(w) PROVE NamingTypeOK'
      BY <1>8 DEF Load, Answers
<1>9. ASSUME NEW w \in Watch, LoadFails(w) PROVE NamingTypeOK'
      BY <1>9 DEF LoadFails
<1>10. ASSUME NEW w \in Watch, Stop(w) PROVE NamingTypeOK'
      BY <1>10 DEF Stop
<1>11. ASSUME NEW w \in Watch, LearnIndex(w) PROVE NamingTypeOK'
      BY <1>11 DEF LearnIndex
<1>12. ASSUME NEW w \in Watch, GoOn(w) PROVE NamingTypeOK'
      BY <1>12 DEF GoOn
<1>13. ASSUME NEW w \in Watch, Callback(w) PROVE NamingTypeOK'
      BY <1>13 DEF Callback
<1>14. CASE UNCHANGED namingVars
      BY <1>14 DEF namingVars
<1> QED
      BY <1>1, <1>2, <1>3, <1>4, <1>5, <1>6, <1>7, <1>8, <1>9, <1>10, <1>11,
         <1>12, <1>13, <1>14
         DEF NamingNext, doWatch

\* Subscribe and Unsubscribe hold the lock, so the map names the open watch.
LEMMA OneOpenStep ==
    ASSUME NamingTypeOK, OneOpen, [NamingNext]_namingVars
    PROVE OneOpen'
<1> USE NamingAssumption DEF NamingTypeOK, Now, consul, local, seen, OneOpen
<1>1. ASSUME NEW s \in Service, Register(s) PROVE OneOpen'
      BY <1>1 DEF Register, Enter, Health
<1>2. ASSUME NEW s \in Service, Deregister(s) PROVE OneOpen'
      BY <1>2 DEF Deregister, Enter, Health
<1>3. ASSUME NEW s \in Service, Check(s) PROVE OneOpen'
      BY <1>3 DEF Check, Enter, Health
<1>4. ASSUME Outage PROVE OneOpen'
      BY <1>4 DEF Outage
<1>5. ASSUME Find PROVE OneOpen'
      BY <1>5 DEF Find, Answers
<1>6. ASSUME NEW w \in Watch, Subscribe(w) PROVE OneOpen'
      BY <1>6 DEF Subscribe
<1>7. ASSUME NEW w \in Watch, Unsubscribe(w) PROVE OneOpen'
      BY <1>7 DEF Unsubscribe
<1>8. ASSUME NEW w \in Watch, Load(w) PROVE OneOpen'
      BY <1>8 DEF Load, Answers
<1>9. ASSUME NEW w \in Watch, LoadFails(w) PROVE OneOpen'
      BY <1>9 DEF LoadFails
<1>10. ASSUME NEW w \in Watch, Stop(w) PROVE OneOpen'
      BY <1>10 DEF Stop
<1>11. ASSUME NEW w \in Watch, LearnIndex(w) PROVE OneOpen'
      BY <1>11 DEF LearnIndex
<1>12. ASSUME NEW w \in Watch, GoOn(w) PROVE OneOpen'
      BY <1>12 DEF GoOn
<1>13. ASSUME NEW w \in Watch, Callback(w) PROVE OneOpen'
      BY <1>13 DEF Callback
<1>14. CASE UNCHANGED namingVars
      BY <1>14 DEF namingVars
<1> QED
      BY <1>1, <1>2, <1>3, <1>4, <1>5, <1>6, <1>7, <1>8, <1>9, <1>10, <1>11,
         <1>12, <1>13, <1>14
         DEF NamingNext, doWatch

\* A goroutine that gave a late callback meets Quit at its next select.
LEMMA LateIsLastStep ==
    ASSUME NamingTypeOK, OneOpen, LateIsLast, [NamingNext]_namingVars
    PROVE LateIsLast'
<1> USE NamingAssumption DEF NamingTypeOK, Now, consul, local, seen, OneOpen, LateIsLast
<1>1. ASSUME NEW s \in Service, Register(s) PROVE LateIsLast'
      BY <1>1 DEF Register, Enter, Health
<1>2. ASSUME NEW s \in Service, Deregister(s) PROVE LateIsLast'
      BY <1>2 DEF Deregister, Enter, Health
<1>3. ASSUME NEW s \in Service, Check(s) PROVE LateIsLast'
      BY <1>3 DEF Check, Enter, Health
<1>4. ASSUME Outage PROVE LateIsLast'
      BY <1>4 DEF Outage
<1>5. ASSUME Find PROVE LateIsLast'
      BY <1>5 DEF Find, Answers
<1>6. ASSUME NEW w \in Watch, Subscribe(w) PROVE LateIsLast'
      BY <1>6 DEF Subscribe
<1>7. ASSUME NEW w \in Watch, Unsubscribe(w) PROVE LateIsLast'
      BY <1>7 DEF Unsubscribe
<1>8. ASSUME NEW w \in Watch, Load(w) PROVE LateIsLast'
      BY <1>8 DEF Load, Answers
<1>9. ASSUME NEW w \in Watch, LoadFails(w) PROVE LateIsLast'
      BY <1>9 DEF LoadFails
<1>10. ASSUME NEW w \in Watch, Stop(w) PROVE LateIsLast'
      BY <1>10 DEF Stop
<1>11. ASSUME NEW w \in Watch, LearnIndex(w) PROVE LateIsLast'
      BY <1>11 DEF LearnIndex
<1>12. ASSUME NEW w \in Watch, GoOn(w) PROVE LateIsLast'
      BY <1>12 DEF GoOn
<1>13. ASSUME NEW w \in Watch, Callback(w) PROVE LateIsLast'
      BY <1>13 DEF Callback
<1>14. CASE UNCHANGED namingVars
      BY <1>14 DEF namingVars
<1> QED
      BY <1>1, <1>2, <1>3, <1>4, <1>5, <1>6, <1>7, <1>8, <1>9, <1>10, <1>11,
         <1>12, <1>13, <1>14
         DEF NamingNext, doWatch

\* What a load answered is in the cache, and the cache never goes back.
LEMMA CalledCachedStep ==
    ASSUME NamingTypeOK, OneOpen, CalledCached, [NamingNext]_namingVars
    PROVE CalledCached'
<1> USE NamingAssumption DEF NamingTypeOK, Now, consul, local, seen, OneOpen, CalledCached
<1>1. ASSUME NEW s \in Service, Register(s) PROVE CalledCached'
      BY <1>1 DEF Register, Enter, Health
<1>2. ASSUME NEW s \in Service, Deregister(s) PROVE CalledCached'
      BY <1>2 DEF Deregister, Enter, Health
<1>3. ASSUME NEW s \in Service, Check(s) PROVE CalledCached'
      BY <1>3 DEF Check, Enter, Health
<1>4. ASSUME Outage PROVE CalledCached'
      BY <1>4 DEF Outage
<1>5. ASSUME Find PROVE CalledCached'
      BY <1>5 DEF Find, Answers
<1>6. ASSUME NEW w \in Watch, Subscribe(w) PROVE CalledCached'
      BY <1>6 DEF Subscribe
<1>7. ASSUME NEW w \in Watch, Unsubscribe(w) PROVE CalledCached'
      BY <1>7 DEF Unsubscribe
<1>8. ASSUME NEW w \in Watch, Load(w) PROVE CalledCached'
      BY <1>8 DEF Load, Answers
<1>9. ASSUME NEW w \in Watch, LoadFails(w) PROVE CalledCached'
      BY <1>9 DEF LoadFails
<1>10. ASSUME NEW w \in Watch, Stop(w) PROVE CalledCached'
      BY <1>10 DEF Stop
<1>11. ASSUME NEW w \in Watch, LearnIndex(w) PROVE CalledCached'
      BY <1>11 DEF LearnIndex
<1>12. ASSUME NEW w \in Watch, GoOn(w) PROVE CalledCached'
      BY <1>12 DEF GoOn
<1>13. ASSUME NEW w \in Watch, Callback(w) PROVE CalledCached'
      BY <1>13 DEF Callback
<1>14. CASE UNCHANGED namingVars
      BY <1>14 DEF namingVars
<1> QED
      BY <1>1, <1>2, <1>3, <1>4, <1>5, <1>6, <1>7, <1>8, <1>9, <1>10, <1>11,
         <1>12, <1>13, <1>14
         DEF NamingNext, doWatch

\* A load of an open watch answers what the agent holds by now, which no watch
\* before it can have passed.
LEMMA OpenIsNewestStep ==
    ASSUME NamingTypeOK, OneOpen, CalledCached, OpenIsNewest, [NamingNext]_namingVars
    PROVE OpenIsNewest'
<1> USE NamingAssumption DEF NamingTypeOK, Now, consul, local, seen,
            OneOpen, CalledCached, OpenIsNewest
<1>1. ASSUME NEW s \in Service, Register(s) PROVE OpenIsNewest'
      BY <1>1 DEF Register, Enter, Health
<1>2. ASSUME NEW s \in Service, Deregister(s) PROVE OpenIsNewest'
      BY <1>2 DEF Deregister, Enter, Health
<1>3. ASSUME NEW s \in Service, Check(s) PROVE OpenIsNewest'
      BY <1>3 DEF Check, Enter, Health
<1>4. ASSUME Outage PROVE OpenIsNewest'
      BY <1>4 DEF Outage
<1>5. ASSUME Find PROVE OpenIsNewest'
      BY <1>5 DEF Find, Answers
<1>6. ASSUME NEW w \in Watch, Subscribe(w) PROVE OpenIsNewest'
      BY <1>6 DEF Subscribe
<1>7. ASSUME NEW w \in Watch, Unsubscribe(w) PROVE OpenIsNewest'
      BY <1>7 DEF Unsubscribe
<1>8. ASSUME NEW w \in Watch, Load(w) PROVE OpenIsNewest'
      BY <1>8 DEF Load, Answers
<1>9. ASSUME NEW w \in Watch, LoadFails(w) PROVE OpenIsNewest'
      BY <1>9 DEF LoadFails
<1>10. ASSUME NEW w \in Watch, Stop(w) PROVE OpenIsNewest'
      BY <1>10 DEF Stop
<1>11. ASSUME NEW w \in Watch, LearnIndex(w) PROVE OpenIsNewest'
      BY <1>11 DEF LearnIndex
<1>12. ASSUME NEW w \in Watch, GoOn(w) PROVE OpenIsNewest'
  <2> SUFFICES ASSUME NEW v \in Watch, place'[v] \in {"select", "callback"},
                      ~quit[v], NEW u \in Watch
               PROVE  /\ called <= answer[v]
                      /\ place'[u] = "callback" => answer[u] <= answer[v]
      BY <1>12 DEF GoOn
  <2>1. v = w
      BY <1>12 DEF GoOn
  <2>2. u = w \/ place'[u] = place[u]
      BY <1>12 DEF GoOn
  <2> QED BY <1>12, <2>1, <2>2 DEF GoOn
<1>13. ASSUME NEW w \in Watch, Callback(w) PROVE OpenIsNewest'
  <2> SUFFICES ASSUME NEW v \in Watch, place'[v] \in {"select", "callback"},
                      ~quit[v], NEW u \in Watch
               PROVE  /\ called' <= answer[v]
                      /\ place'[u] = "callback" => answer[u] <= answer[v]
      BY <1>13 DEF Callback
  <2>1. v # w /\ place[v] \in {"select", "callback"}
      BY <1>13 DEF Callback
  <2>2. place[w] = "callback" /\ called' = answer[w]
      BY <1>13 DEF Callback
  <2>3. place'[u] = "callback" => place[u] = "callback"
      BY <1>13 DEF Callback
  <2> QED BY <2>1, <2>2, <2>3
<1>14. CASE UNCHANGED namingVars
      BY <1>14 DEF namingVars
<1> QED
      BY <1>1, <1>2, <1>3, <1>4, <1>5, <1>6, <1>7, <1>8, <1>9, <1>10, <1>11,
         <1>12, <1>13, <1>14
         DEF NamingNext, doWatch

-----------------------------------------------------------------------------
\* Nothing was given yet, and no watch runs.
LEMMA NamingInitially == NamingInit => WatchInv
<1> SUFFICES ASSUME NamingInit PROVE WatchInv
    OBVIOUS
<1>1. NamingTypeOK
      BY NamingAssumption DEF NamingInit, NamingTypeOK, Now
<1> QED BY <1>1, NamingAssumption
           DEF NamingInit, WatchInv, OneOpen, LateIsLast, CalledCached, OpenIsNewest, Now

\* Every step keeps the strengthening.
LEMMA NamingInductive == WatchInv /\ [NamingNext]_namingVars => WatchInv'
BY NamingTypeStep, OneOpenStep, LateIsLastStep, CalledCachedStep, OpenIsNewestStep
   DEF WatchInv

\* Every reachable state satisfies the strengthening.
THEOREM NamingInvariant == NamingSpec => []WatchInv
<1>1. NamingInit => WatchInv BY NamingInitially
<1>2. WatchInv /\ [NamingNext]_namingVars => WatchInv' BY NamingInductive
<1> QED BY <1>1, <1>2, PTL DEF NamingSpec

\* Every variable of the naming keeps its type.
THEOREM NamingTypes == NamingSpec => []NamingTypeOK
<1>1. WatchInv => NamingTypeOK BY DEF WatchInv
<1> QED BY <1>1, NamingInvariant, PTL

\* After Unsubscribe at most one more callback of its watch begins.
THEOREM OneLate == NamingSpec => []AtMostOneLate
<1>1. WatchInv => AtMostOneLate BY DEF WatchInv, LateIsLast, AtMostOneLate
<1> QED BY <1>1, NamingInvariant, PTL

\* Only a callback that comes after its Unsubscribe can give older entries.
THEOREM Forwards == NamingSpec => BackwardsOnlyLate
<1> DEFINE Late == \E w \in Watch :
                    quit[w] /\ place[w] = "callback" /\ place'[w] = "load"
<1>1. ASSUME WatchInv, [NamingNext]_namingVars PROVE called' < called => Late
  <2>1. ASSUME NEW w \in Watch, Callback(w), ~Late PROVE ~(called' < called)
    <3>1. place'[w] = "load" /\ place[w] = "callback" /\ called' = answer[w]
          BY <1>1, <2>1 DEF Callback, WatchInv, NamingTypeOK
    <3>2. ~quit[w] BY <2>1, <3>1
    <3>3. called <= answer[w]
          BY <1>1, <3>1, <3>2 DEF WatchInv, OpenIsNewest
    <3> QED BY <1>1, <3>1, <3>3 DEF WatchInv, NamingTypeOK, Now
  <2>2. (~\E w \in Watch : Callback(w)) => called' = called
        BY <1>1 DEF NamingNext, Register, Deregister, Check, Enter, Outage, Find,
                    Subscribe, Unsubscribe, doWatch, Load, LoadFails, Stop,
                    LearnIndex, GoOn, namingVars, seen
  <2> QED BY <1>1, <2>1, <2>2 DEF WatchInv, NamingTypeOK, Now
<1>2. WatchInv /\ [NamingNext]_namingVars => [called' < called => Late]_namingVars
      BY <1>1
<1> QED BY <1>2, NamingInvariant, PTL DEF NamingSpec, BackwardsOnlyLate
=============================================================================
