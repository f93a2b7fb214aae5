------------------------------ MODULE Sequence ------------------------------
(***************************************************************************)
(* sequence.Next of wire/seq.go: packet sequences and the last part of a   *)
(* gateway's channel ids, drawn by many goroutines from one atomic counter *)
(* of 32 bits.  The highest value is kept back: who draws it tries to put  *)
(* the counter back to 1, and draws again when others have moved it on.    *)
(***************************************************************************)
EXTENDS Naturals

CONSTANTS Caller,       \* the goroutines that call Next
          Width,        \* the values of the counter, 2^32 in the code
          MaxLap        \* bound: no call begins once the counter went round
                        \* this often

ASSUME SequenceAssumption == Width \in Nat /\ Width > 2 /\ MaxLap \in Nat

Highest == Width - 1    \* math.MaxUint32

VARIABLES num,          \* the counter
          pc,           \* each caller: "idle", "cas" after it drew Highest,
                        \* "again" when its compare-and-swap failed
          lap,          \* history: how often the counter went round
          issued,       \* history: the values returned, each with its lap
          returns       \* history: how many calls have returned

seqVars == <<num, pc, lap, issued, returns>>

SeqInit == /\ num = 1
           /\ pc = [t \in Caller |-> "idle"]
           /\ lap = 0 /\ issued = {} /\ returns = 0

Return(t, v) == /\ issued' = issued \cup {<<lap', v>>}
                /\ returns' = returns + 1
                /\ pc' = [pc EXCEPT ![t] = "idle"]

Drawing(t) == pc[t] = "again" \/ (pc[t] = "idle" /\ lap < MaxLap)

Draw(t, n) == IF n = Highest
              THEN pc' = [pc EXCEPT ![t] = "cas"] /\ UNCHANGED <<issued, returns>>
              ELSE Return(t, n)

UncheckedAdd(t) == /\ Drawing(t)
                   /\ num' = (num + 1) % Width
                   /\ lap' = IF num = Highest THEN lap + 1 ELSE lap
                   /\ Return(t, num')

\* atomic.AddUint32, which wraps to 0, and the test of what it returned.
Add(t) == /\ Drawing(t)
          /\ num' = (num + 1) % Width
          /\ lap' = IF num = Highest THEN lap + 1 ELSE lap
          /\ Draw(t, num')

StoreSwap(t) == /\ pc[t] = "cas"
                /\ num' = 1 /\ lap' = IF num = Highest THEN lap + 1 ELSE lap
                /\ Return(t, 1)

\* CompareAndSwapUint32(&s.num, next, 1).
Swap(t) == /\ pc[t] = "cas"
           /\ num = Highest
           /\ num' = 1 /\ lap' = lap + 1
           /\ Return(t, 1)

SwapFails(t) == /\ pc[t] = "cas"
                /\ num # Highest
                /\ pc' = [pc EXCEPT ![t] = "again"]
                /\ UNCHANGED <<num, lap, issued, returns>>

SeqNext == \E t \in Caller : Add(t) \/ Swap(t) \/ SwapFails(t)

SeqSpec == SeqInit /\ [][SeqNext]_seqVars
-----------------------------------------------------------------------------
\* Every variable keeps its type; the counter keeps its width.
SeqTypeOK == /\ num \in 0 .. Highest
             /\ pc \in [Caller -> {"idle", "cas", "again"}]
             /\ lap \in Nat /\ returns \in Nat
             /\ issued \subseteq Nat \X (0 .. Highest)

\* No call returns the highest value, also when several goroutines stand at
\* the end of the range together (the test and the second draw in Next).
NeverHighest == \A x \in issued : x[2] # Highest

\* Until the counter has gone round no value is returned twice, whoever swaps,
\* fails to swap and draws again while others draw: what a call returns was
\* not returned in the same lap before (Next).
NeverTwiceInALap == [][returns' # returns => issued' # issued]_seqVars
=============================================================================
