---------------------------- MODULE BoundedWorker ----------------------------
(***************************************************************************)
(* What every worker of nats-micro promises, whatever it serves: it admits *)
(* messages only while it is serving, holds at most Concurrency of them at *)
(* a time, stops admitting for good when it starts to drain, and ends      *)
(* either drained (nothing left in its hands) or broken (whatever it held  *)
(* is dropped).  RequestWorker, SubscriptionWorker and ConsumerWorker are  *)
(* the three loops of the code; each is shown to implement this module.    *)
(***************************************************************************)
EXTENDS Naturals, FiniteSets

CONSTANTS Messages,      \* the messages that can be delivered to the worker
          Concurrency    \* the bound on messages in its hands

VARIABLES phase,    \* "serving", "draining", "drained" or "broken"
          active,   \* messages admitted and not yet settled
          settled,  \* messages whose handler came to an end
          dropped   \* messages whose handler was abandoned half way

vars == <<phase, active, settled, dropped>>

TypeOK ==
  /\ phase \in {"serving", "draining", "drained", "broken"}
  /\ active \in SUBSET Messages
  /\ settled \in SUBSET Messages
  /\ dropped \in SUBSET Messages

Init ==
  /\ phase = "serving"
  /\ active = {}
  /\ settled = {}
  /\ dropped = {}

\* A message enters the worker; a redelivered one may have been there before.
Admit(m) ==
  /\ phase = "serving"
  /\ m \notin active
  /\ Cardinality(active) < Concurrency
  /\ active' = active \cup {m}
  /\ UNCHANGED <<phase, settled, dropped>>

\* The handler of a message comes to an end and the worker goes on.
Settle(m) ==
  /\ phase \in {"serving", "draining"}
  /\ m \in active
  /\ active' = active \ {m}
  /\ settled' = settled \cup {m}
  /\ UNCHANGED <<phase, dropped>>

BeginDrain ==
  /\ phase = "serving"
  /\ phase' = "draining"
  /\ UNCHANGED <<active, settled, dropped>>

FinishDrain ==
  /\ phase = "draining"
  /\ active = {}
  /\ phase' = "drained"
  /\ UNCHANGED <<active, settled, dropped>>

\* The worker dies: the message that killed it, if any, is settled, the others
\* in its hands are dropped.
Break ==
  /\ phase \in {"serving", "draining"}
  /\ phase' = "broken"
  /\ active' = {}
  /\ \E S \in SUBSET active :
        /\ Cardinality(S) <= 1
        /\ settled' = settled \cup S
        /\ dropped' = dropped \cup (active \ S)

Next ==
  \/ \E m \in Messages : Admit(m) \/ Settle(m)
  \/ BeginDrain
  \/ FinishDrain
  \/ Break

Spec == Init /\ [][Next]_vars
=============================================================================
