---------------------------- MODULE ClientPool ----------------------------
(***************************************************************************)
(* The connections a container keeps to one service it depends on:         *)
(* container/container.go and container/clients.go.                        *)
(*                                                                         *)
(* The services come in batches.  Batch 0 is the answer of Naming.Find,    *)
(* handled by the goroutine that ran connectToService; batches 1, 2, ...   *)
(* are the calls of the callback given to Naming.Subscribe, made one after *)
(* the other by the watching goroutine and concurrently with batch 0.  For *)
(* each entry a client is built under the container's lock.  The client's  *)
(* own goroutine reads until the connection is lost, then takes the        *)
(* service's id out of the pool and closes the client; it holds no lock.   *)
(*                                                                         *)
(* An entry of a batch has a Meta map of its own, shared with the client   *)
(* built from it, so a client is known by its batch and its service id.    *)
(* A callback marks a new entry young and starts a timer to make it adult; *)
(* the timer's closure captures the loop variable (go.mod asks for Go      *)
(* 1.16), hence marks whatever entry the loop has come to.                 *)
(***************************************************************************)
EXTENDS Integers, Sequences, FiniteSets

CONSTANTS Id,           \* the service ids the naming may report
          MaxBatch      \* bound: the calls of the callback

ASSUME ClientPoolAssumption == MaxBatch \in Nat

Batch == 0 .. MaxBatch
None  == -1             \* no client, no holder of the lock

VARIABLES
    pool,               \* ClientMap: the batch of the client under each id
    lock,               \* the batch whose goroutine holds the container's lock
    bpc, todo, service, \* each batch: its place, the entries not yet come to,
                        \* and its loop variable (once it was assigned)
    timers,             \* each batch: its timers that have not fired
    meta,               \* the service_state of each entry of each batch
    cli                 \* the client built from it, and its reading goroutine

batches == <<lock, bpc, todo, service, timers>>
vars == <<pool, batches, meta, cli>>

\* What a naming answers: no service id twice.
Listing == {s \in UNION {[1 .. n -> Id] : n \in 0 .. Cardinality(Id)} :
                \A i, j \in DOMAIN s : s[i] = s[j] => i = j}

Init ==
    /\ pool = [i \in Id |-> None]
    /\ lock = None
    /\ bpc = [n \in Batch |-> "new"]
    /\ todo = [n \in Batch |-> <<>>]
    /\ service = [n \in Batch |-> None]
    /\ timers = [n \in Batch |-> 0]
    /\ meta = [n \in Batch |-> [i \in Id |-> "none"]]
    /\ cli = [n \in Batch |-> [i \in Id |-> "none"]]

Goto(n, place) == bpc' = [bpc EXCEPT ![n] = place]
-----------------------------------------------------------------------------
(***************************************************************************)
(* connectToService: the loop over Find's answer and that of the callback. *)
(***************************************************************************)
Begin(n) ==
    /\ bpc[n] = "new"
    /\ n > 1 => bpc[n - 1] = "done"
    /\ \E s \in Listing : todo' = [todo EXCEPT ![n] = s]
    /\ Goto(n, "loop")
    /\ UNCHANGED <<pool, lock, service, timers, meta, cli>>

\* The loop variable comes to the next entry.
NextEntry(n) ==
    /\ bpc[n] = "loop"
    /\ todo[n] # <<>>
    /\ service' = [service EXCEPT ![n] = Head(todo[n])]
    /\ todo' = [todo EXCEPT ![n] = Tail(todo[n])]

\* The callback finds the id in the pool and goes on to the next entry.
SkipKnown(n) ==
    /\ n > 0
    /\ NextEntry(n)
    /\ pool[service'[n]] # None
    /\ UNCHANGED <<pool, lock, bpc, timers, meta, cli>>

\* It does not, marks the entry young and starts the timer.
Watched(n) ==
    /\ n > 0
    /\ NextEntry(n)
    /\ pool[service'[n]] = None
    /\ meta' = [meta EXCEPT ![n][service'[n]] = "young"]
    /\ timers' = [timers EXCEPT ![n] = @ + 1]
    /\ Goto(n, "lock")
    /\ UNCHANGED <<pool, lock, cli>>

\* An entry of Find's answer counts as adult from the start.
Found(n) ==
    /\ n = 0
    /\ NextEntry(n)
    /\ meta' = [meta EXCEPT ![n][service'[n]] = "adult"]
    /\ Goto(n, "lock")
    /\ UNCHANGED <<pool, lock, timers, cli>>

End(n) ==
    /\ bpc[n] = "loop"
    /\ todo[n] = <<>>
    /\ Goto(n, "done")
    /\ UNCHANGED <<pool, lock, todo, service, timers, meta, cli>>

\* Ten seconds later: the loop variable as it is by then.
TimerFires(n) ==
    /\ timers[n] > 0
    /\ timers' = [timers EXCEPT ![n] = @ - 1]
    /\ meta' = [meta EXCEPT ![n][service[n]] = "adult"]
    /\ UNCHANGED <<pool, lock, bpc, todo, service, cli>>
-----------------------------------------------------------------------------
(***************************************************************************)
(* buildClient, under the container's lock from its first line to its      *)
(* last, the dialling included.                                            *)
(***************************************************************************)
Locking(n) == bpc[n] = "lock" /\ lock = None

LeakyAlreadyBuilt(n) ==
    /\ Locking(n)
    /\ pool[service[n]] # None
    /\ lock' = n
    /\ Goto(n, "loop")
    /\ UNCHANGED <<pool, todo, service, timers, meta, cli>>

\* The id is in the pool: buildClient returns no client and no error.
AlreadyBuilt(n) ==
    /\ Locking(n)
    /\ pool[service[n]] # None
    /\ Goto(n, "loop")
    /\ UNCHANGED <<pool, lock, todo, service, timers, meta, cli>>

UncheckedDial(n) ==
    /\ Locking(n)
    /\ lock' = n
    /\ Goto(n, "dial")
    /\ UNCHANGED <<pool, todo, service, timers, meta, cli>>

Dial(n) ==
    /\ Locking(n)
    /\ pool[service[n]] = None
    /\ lock' = n
    /\ Goto(n, "dial")
    /\ UNCHANGED <<pool, todo, service, timers, meta, cli>>

\* A protocol other than tcp, no dialer, or Connect failed: the error is
\* logged and nothing remembers the service.
DialFails(n) ==
    /\ bpc[n] = "dial"
    /\ lock' = None
    /\ Goto(n, "loop")
    /\ UNCHANGED <<pool, todo, service, timers, meta, cli>>

\* The reading goroutine is started ahead of clients.Add(cli).
Connected(n) ==
    /\ bpc[n] = "dial"
    /\ cli' = [cli EXCEPT ![n][service[n]] = "reading"]
    /\ Goto(n, "add")
    /\ UNCHANGED <<pool, lock, todo, service, timers, meta>>

AddClient(n) ==
    /\ bpc[n] = "add"
    /\ pool' = [pool EXCEPT ![service[n]] = n]
    /\ lock' = None
    /\ Goto(n, "loop")
    /\ UNCHANGED <<todo, service, timers, meta, cli>>
-----------------------------------------------------------------------------
(***************************************************************************)
(* The client's goroutine.  readloop drops every binary frame it reads, so *)
(* a frame changes nothing here; it returns when a read fails or the other *)
(* side closes.                                                            *)
(***************************************************************************)
ReadFails(n, i) ==
    /\ cli[n][i] = "reading"
    /\ cli' = [cli EXCEPT ![n][i] = "lost"]
    /\ UNCHANGED <<pool, batches, meta>>

ForgetfulRemoveClient(n, i) ==
    /\ cli[n][i] = "lost"
    /\ cli' = [cli EXCEPT ![n][i] = "closed"]
    /\ UNCHANGED <<pool, batches, meta>>

\* clients.Remove(id), by id, whichever client is under it; then cli.Close(),
\* which touches the client alone.
RemoveClient(n, i) ==
    /\ cli[n][i] = "lost"
    /\ cli' = [cli EXCEPT ![n][i] = "closed"]
    /\ pool' = [pool EXCEPT ![i] = None]
    /\ UNCHANGED <<batches, meta>>
-----------------------------------------------------------------------------
Walk(n) == SkipKnown(n) \/ Watched(n) \/ Found(n) \/ End(n)
Build(n) == \/ AlreadyBuilt(n) \/ Dial(n)
            \/ DialFails(n) \/ Connected(n) \/ AddClient(n)
Next ==
    \/ \E n \in Batch : Begin(n) \/ Walk(n) \/ Build(n) \/ TimerFires(n)
    \/ \E n \in Batch, i \in Id : ReadFails(n, i) \/ RemoveClient(n, i)

Spec == Init /\ [][Next]_vars

(***************************************************************************)
(* A goroutine that can run does; a dial ends (it has a timeout); a mutex  *)
(* hands itself to a waiter in time, hence strong fairness of the two      *)
(* steps that take it; a sleep ends.  Nothing makes a batch begin, a       *)
(* connection fail, or a packet arrive.                                    *)
(***************************************************************************)
Fairness ==
    /\ \A n \in Batch :
         /\ WF_vars(Walk(n)) /\ WF_vars(TimerFires(n))
         /\ WF_vars(DialFails(n) \/ Connected(n)) /\ WF_vars(AddClient(n))
         /\ SF_vars(AlreadyBuilt(n) \/ Dial(n))
    /\ \A n \in Batch, i \in Id : WF_vars(RemoveClient(n, i))

FairSpec == Spec /\ Fairness
-----------------------------------------------------------------------------
(***************************************************************************)
(* Properties.                                                             *)
(***************************************************************************)
State == {"none", "young", "adult"}
Life  == {"none", "reading", "lost", "closed"}

\* Every variable keeps its type.
TypeOK ==
    /\ pool \in [Id -> Batch \cup {None}]
    /\ lock \in Batch \cup {None}
    /\ bpc \in [Batch -> {"new", "loop", "lock", "dial", "add", "done"}]
    /\ todo \in [Batch -> Seq(Id)]
    /\ service \in [Batch -> Id \cup {None}]
    /\ timers \in [Batch -> Nat]
    /\ meta \in [Batch -> [Id -> State]]
    /\ cli \in [Batch -> [Id -> Life]]

\* The client of n and i was handed to clients.Add, or is about to be.
Adding(n, i) == bpc[n] = "add" /\ service[n] = i

\* However Find, the watch and lost connections overlap, no service has two
\* clients whose goroutines still own its entry in the pool (buildClient's
\* second look, under the lock).
OneClientPerService ==
    \A i \in Id, m, n \in Batch :
        cli[m][i] \in {"reading", "lost"} /\ cli[n][i] \in {"reading", "lost"} => m = n

\* A live connection can be found: once added, it is under its id until its
\* own goroutine gives it up; no other client covers or removes it.
LiveClientInPool ==
    \A n \in Batch, i \in Id :
        cli[n][i] = "reading" /\ ~Adding(n, i) => pool[i] = n

\* clients.Remove names an id, not a client: all the same it never takes
\* away a client other than the caller's own.
RemovesOnlyItself ==
    [][\A n \in Batch, i \in Id :
          cli[n][i] = "lost" /\ cli'[n][i] = "closed" => pool[i] \in {n, None}]_vars

\* The lock is given up on every path of buildClient, so the loop over a
\* batch comes to its end whatever fails meanwhile.
EveryBatchEnds == \A n \in Batch : bpc[n] # "new" ~> bpc[n] = "done"

\* The last entry of a batch becomes adult if a timer of the batch is left:
\* it is the entry the captured variable stays at.
LastEntryGrowsUp ==
    \A n \in Batch, i \in Id :
        bpc[n] = "done" /\ timers[n] > 0 /\ service[n] = i ~> meta[n][i] = "adult"

\* A client of the pool whose connection is lost leaves it, whatever the
\* goroutines that build clients do meanwhile: only a Remove that came ahead
\* of its own client's Add leaves a dead client behind.
LostClientLeaves ==
    \A n \in Batch, i \in Id : pool[i] = n /\ cli[n][i] = "lost" ~> pool[i] # n

(***************************************************************************)
(* Statements of the repository that the code does not keep.               *)
(***************************************************************************)
\* "转态为SateAdult 的服务才会被使用" (lookup: only an adult service is used),
\* and StateAdult set ten seconds after StateYoung: a young client of the
\* pool becomes adult unless it leaves the pool before.
YoungGrowsUp ==
    \A n \in Batch, i \in Id :
        pool[i] = n /\ meta[n][i] = "young" ~> pool[i] # n \/ meta[n][i] = "adult"

\* "clients 是该服务与其关联的服务的连接": what the pool holds is a connection,
\* not a client that was closed.
PoolHoldsConnections ==
    \A i \in Id : pool[i] # None => cli[pool[i]][i] # "closed"
=============================================================================
