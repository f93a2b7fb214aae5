------------------------------- MODULE Outbox -------------------------------
(***************************************************************************)
(* What a Channel (channel.go) promises to those who push into it: the     *)
(* payloads it has accepted leave in the order of acceptance, each of them *)
(* at most once, no more than Bound of them are waiting at any time, and   *)
(* while the connection can be written the oldest one does leave.  When    *)
(* the connection breaks the rest is lost; the promise says nothing about  *)
(* a push that arrives later, which the code accepts all the same.         *)
(***************************************************************************)
EXTENDS Naturals, Sequences

CONSTANTS Message,      \* what may be pushed
          Bound         \* the accepted payloads that may be waiting

VARIABLES accepted,     \* the payloads taken from Push, oldest first
          delivered,    \* the payloads written to the connection in full
          open          \* FALSE once a write has failed

outboxVars == <<accepted, delivered, open>>

OutboxInit == accepted = <<>> /\ delivered = <<>> /\ open = TRUE

Accept(m) == /\ Len(accepted) < Len(delivered) + Bound
             /\ accepted' = Append(accepted, m)
             /\ UNCHANGED <<delivered, open>>

Deliver == /\ open
           /\ Len(delivered) < Len(accepted)
           /\ delivered' = Append(delivered, accepted[Len(delivered) + 1])
           /\ UNCHANGED <<accepted, open>>

Break == open /\ open' = FALSE /\ UNCHANGED <<accepted, delivered>>

OutboxNext == (\E m \in Message : Accept(m)) \/ Deliver \/ Break

OutboxSafety == OutboxInit /\ [][OutboxNext]_outboxVars

\* Only the oldest payload's departure is owed, and only while the
\* connection has not broken.
OutboxSpec == OutboxSafety /\ WF_outboxVars(Deliver)
=============================================================================
