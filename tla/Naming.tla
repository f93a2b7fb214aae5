------------------------------- MODULE Naming -------------------------------
(***************************************************************************)
(* Naming of naming/consul/naming.go for one service name: Register,       *)
(* Deregister, Find, Subscribe, Unsubscribe and the watches.               *)
(*                                                                         *)
(* A watch is a goroutine that loads the service's entries again and       *)
(* again.  Consul answers a load when the index has passed the one it      *)
(* names, or when its wait runs out; loads allow answers from the cache of *)
(* the agent (UseCache).  The first load of a watch, meant to learn the    *)
(* index, has no callback: what it answers is not passed on.               *)
(***************************************************************************)
EXTENDS Naturals, Sequences

CONSTANTS Service,      \* the instances that may register
          Watch,        \* the calls of Subscribe that succeed
          NoWatch,      \* no watch
          MaxIndex      \* bound: how far the index goes

ASSUME NamingAssumption == MaxIndex \in Nat \ {0} /\ NoWatch \notin Watch

VARIABLES
    catalog,            \* the entries of the service at each index
    cached,             \* the index of the answer the agent holds
    up,                 \* consul can be reached
    watchs,             \* the watch in the map, or NoWatch
    place,              \* each watch's goroutine
    first,              \* it is in its first load
    waitIndex,          \* its WaitIndex
    answer,             \* the index of the entries it loaded
    quit,               \* its Quit is closed
    called,             \* the index of the entries the last callback was given
    late                \* callbacks it began with Quit closed

consul == <<catalog, cached, up>>
local  == <<place, first, waitIndex, answer>>
seen   == <<called, late>>
namingVars == <<consul, watchs, local, quit, seen>>

Now == Len(catalog)

Health == {"absent", "critical", "passing"}

NamingInit ==
    /\ \E entries \in [Service -> Health] : catalog = <<entries>>
    /\ cached = 1
    /\ up = TRUE
    /\ watchs = NoWatch
    /\ place = [w \in Watch |-> "none"]
    /\ first = [w \in Watch |-> TRUE]
    /\ waitIndex = [w \in Watch |-> 0]
    /\ answer = [w \in Watch |-> 0]
    /\ quit = [w \in Watch |-> FALSE]
    /\ called = 0
    /\ late = [w \in Watch |-> 0]
-----------------------------------------------------------------------------
(***************************************************************************)
(* Consul.                                                                 *)
(***************************************************************************)
Enter(s, health) ==
    /\ Now < MaxIndex
    /\ catalog' = Append(catalog, [catalog[Now] EXCEPT ![s] = health])
    /\ UNCHANGED <<cached, up, watchs, local, quit, seen>>

\* With a health URL the entry is critical until its check has passed.
Register(s) == up /\ \E health \in {"critical", "passing"} : Enter(s, health)

Deregister(s) == up /\ catalog[Now][s] # "absent" /\ Enter(s, "absent")

\* The check changes its mind, or an entry stays critical for too long.
Check(s) ==
    \/ catalog[Now][s] = "critical" /\ Enter(s, "passing")
    \/ catalog[Now][s] = "passing" /\ Enter(s, "critical")
    \/ catalog[Now][s] = "critical" /\ Enter(s, "absent")

Outage ==
    /\ up' = ~up
    /\ UNCHANGED <<catalog, cached, watchs, local, quit, seen>>

\* Answers to a load that waits for more than index.
Answers(index) ==
    {v \in {cached, Now} : v > index \/ (v = index /\ index = Now)}

Passing(v) == {s \in Service : catalog[v][s] = "passing"}
-----------------------------------------------------------------------------
Find ==
    /\ up
    /\ cached' \in Answers(0)
    /\ UNCHANGED <<catalog, up, watchs, local, quit, seen>>

UncheckedSubscribe(w) ==
    /\ place[w] = "none"
    /\ watchs' = w
    /\ place' = [place EXCEPT ![w] = "load"]
    /\ UNCHANGED <<consul, first, waitIndex, answer, quit, seen>>

Subscribe(w) ==
    /\ place[w] = "none"
    /\ watchs = NoWatch
    /\ watchs' = w
    /\ place' = [place EXCEPT ![w] = "load"]
    /\ UNCHANGED <<consul, first, waitIndex, answer, quit, seen>>

Unsubscribe(w) ==
    /\ watchs = w
    /\ watchs' = NoWatch
    /\ quit' = [quit EXCEPT ![w] = TRUE]
    /\ UNCHANGED <<consul, local, seen>>
-----------------------------------------------------------------------------
(***************************************************************************)
(* The goroutine of a watch: load, select and callback of doWatch.         *)
(***************************************************************************)
Load(w) ==
    /\ place[w] = "load" /\ up
    /\ \E v \in Answers(waitIndex[w]) :
            /\ cached' = v
            /\ answer' = [answer EXCEPT ![w] = v]
    /\ place' = [place EXCEPT ![w] = "select"]
    /\ UNCHANGED <<catalog, up, watchs, first, waitIndex, quit, seen>>

\* The loop goes round at once; only the first load differs from the next.
LoadFails(w) ==
    /\ place[w] = "load" /\ ~up
    /\ first' = [first EXCEPT ![w] = FALSE]
    /\ UNCHANGED <<consul, watchs, place, waitIndex, answer, quit, seen>>

ReturningStop(w) ==
    /\ place[w] = "select" /\ quit[w]
    /\ place' = [place EXCEPT ![w] = "load"]
    /\ UNCHANGED <<consul, watchs, first, waitIndex, answer, quit, seen>>

Stop(w) ==
    /\ place[w] = "select" /\ quit[w]
    /\ place' = [place EXCEPT ![w] = "stopped"]
    /\ UNCHANGED <<consul, watchs, first, waitIndex, answer, quit, seen>>

\* The first load's entries go no further.
LearnIndex(w) ==
    /\ place[w] = "select" /\ ~quit[w] /\ first[w]
    /\ waitIndex' = [waitIndex EXCEPT ![w] = answer[w]]
    /\ first' = [first EXCEPT ![w] = FALSE]
    /\ place' = [place EXCEPT ![w] = "load"]
    /\ UNCHANGED <<consul, watchs, answer, quit, seen>>

ChangedGoOn(w) ==
    /\ place[w] = "select" /\ ~quit[w] /\ ~first[w]
    /\ waitIndex' = [waitIndex EXCEPT ![w] = answer[w]]
    /\ place' = [place EXCEPT ![w] = IF answer[w] = waitIndex[w] THEN "load"
                                     ELSE "callback"]
    /\ UNCHANGED <<consul, watchs, first, answer, quit, seen>>

UnheededGoOn(w) ==
    /\ place[w] = "select" /\ ~first[w]
    /\ waitIndex' = [waitIndex EXCEPT ![w] = answer[w]]
    /\ place' = [place EXCEPT ![w] = "callback"]
    /\ UNCHANGED <<consul, watchs, first, answer, quit, seen>>

GoOn(w) ==
    /\ place[w] = "select" /\ ~quit[w] /\ ~first[w]
    /\ waitIndex' = [waitIndex EXCEPT ![w] = answer[w]]
    /\ place' = [place EXCEPT ![w] = "callback"]
    /\ UNCHANGED <<consul, watchs, first, answer, quit, seen>>

\* Quit may have been closed since the select.
Callback(w) ==
    /\ place[w] = "callback"
    /\ called' = answer[w]
    /\ late' = [late EXCEPT ![w] = IF quit[w] THEN @ + 1 ELSE @]
    /\ place' = [place EXCEPT ![w] = "load"]
    /\ UNCHANGED <<consul, watchs, first, waitIndex, answer, quit>>
-----------------------------------------------------------------------------
doWatch(w) ==
    \/ Load(w) \/ LoadFails(w)
    \/ Stop(w) \/ LearnIndex(w) \/ GoOn(w) \/ Callback(w)

NamingNext ==
    \/ \E s \in Service : Register(s) \/ Deregister(s) \/ Check(s)
    \/ Outage
    \/ Find
    \/ \E w \in Watch : Subscribe(w) \/ Unsubscribe(w) \/ doWatch(w)

NamingSpec == NamingInit /\ [][NamingNext]_namingVars

\* Goroutines run, and consul ends every wait.
FairNaming == NamingSpec /\ \A w \in Watch : WF_namingVars(doWatch(w))
-----------------------------------------------------------------------------
NamingTypeOK ==
    /\ catalog \in Seq([Service -> Health]) /\ Now \in 1 .. MaxIndex
    /\ cached \in 1 .. Now
    /\ up \in BOOLEAN
    /\ watchs \in Watch \cup {NoWatch}
    /\ place \in [Watch -> {"none", "load", "select", "callback", "stopped"}]
    /\ first \in [Watch -> BOOLEAN]
    /\ waitIndex \in [Watch -> 0 .. Now]
    /\ answer \in [Watch -> 0 .. Now]
    /\ quit \in [Watch -> BOOLEAN]
    /\ called \in 0 .. Now
    /\ late \in [Watch -> Nat]

\* Once Unsubscribe has closed Quit (naming.go:146) at most one more callback
\* begins, the one whose select came before; load may be waiting meanwhile.
AtMostOneLate == \A w \in Watch : late[w] <= 1

\* Callbacks go forward in time, over all the watches the name ever had: one is
\* given older entries than the last only by a watch that was unsubscribed.
BackwardsOnlyLate ==
    [][called' < called =>
            \E w \in Watch : quit[w] /\ place[w] = "callback" /\ place'[w] = "load"
      ]_namingVars

\* While consul answers, a watch ends after Unsubscribe, wherever it was.
WatchEnds ==
    \A w \in Watch : (<>[]up) => (quit[w] ~> (place[w] = "stopped"))

\* When consul comes to rest, the last callback a subscriber got has the entries
\* that are passing: although the first load passes nothing on (naming.go:175),
\* and a late callback of an earlier watch may come in between.
CatchesUp ==
    \A w \in Watch : (<>[](up /\ watchs = w)) =>
        <>[](called # 0 /\ Passing(called) = Passing(Now))
=============================================================================
