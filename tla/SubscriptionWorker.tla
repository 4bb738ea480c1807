-------------------------- MODULE SubscriptionWorker --------------------------
(***************************************************************************)
(* The core-NATS subscription worker (runtime/subscription_worker.rs).     *)
(* The loop is that of RequestWorker, with three differences that matter:  *)
(* nothing is replied, so a handler's error is the worker's error; the     *)
(* worker unsubscribes on shutdown and does not survive a failure to do    *)
(* so; and delivery is at most once, so what is dropped is lost.           *)
(***************************************************************************)
EXTENDS Naturals, FiniteSets

CONSTANTS Messages,      \* messages published on the subscribed subject
          Concurrency,   \* effective concurrency of the subscription
          PanicPolicies  \* the values of AppConfig.handler_panic to consider

ASSUME SubscriptionAssumption ==
  /\ IsFiniteSet(Messages)
  /\ Concurrency \in Nat \ {0}
  /\ PanicPolicies \subseteq {"FailWorker", "LogAndContinue", "Propagate"}

VARIABLES
  policy,      \* the panic policy this worker was started with; never changes
  signal,      \* the shutdown watch: "running", "requested" or "closed"
  pc,          \* the poll the loop makes next
  accepting,   \* the loop's flag of the same name
  subscribed,  \* the server routes messages to this subscriber
  streamOpen,  \* subscriber.next() can still yield messages
  msg,         \* what has become of each message
  result,      \* what the worker's future returned
  late         \* messages admitted after the shutdown signal (history)

vars == <<policy, signal, pc, accepting, subscribed, streamOpen, msg, result, late>>
channel == <<policy, signal, streamOpen>>

(***************************************************************************)
(* A message is idle (not published), queued (in the subscriber's buffer), *)
(* running, ready (the next poll of its handler finishes it); then it is   *)
(* handled, failed (the handler returned an error), panicked, cancelled    *)
(* (the handler was dropped half way), abandoned (left in the buffer) or   *)
(* missed (nobody was subscribed).                                         *)
(***************************************************************************)
Status == {"idle", "queued", "running", "ready", "handled", "failed",
           "panicked", "cancelled", "abandoned", "missed"}

InFlight == {m \in Messages : msg[m] \in {"running", "ready"}}
With(s) == {m \in Messages : msg[m] = s}

TypeOK ==
  /\ policy \in PanicPolicies
  /\ signal \in {"running", "requested", "closed"}
  /\ pc \in {"signal", "flight", "incoming", "stopping", "ended"}
  /\ accepting \in BOOLEAN
  /\ subscribed \in BOOLEAN
  /\ streamOpen \in BOOLEAN
  /\ msg \in [Messages -> Status]
  /\ result \in {"none", "ok", "error", "panic", "aborted"}
  /\ late \in 0..Concurrency

Init ==
  /\ policy \in PanicPolicies
  /\ signal = "running"
  /\ pc = "signal"
  /\ accepting = TRUE
  /\ subscribed = TRUE
  /\ streamOpen = TRUE
  /\ msg = [m \in Messages |-> "idle"]
  /\ result = "none"
  /\ late = 0
-----------------------------------------------------------------------------
(* The worker's surroundings.                                              *)

Publish(m) ==
  /\ msg[m] = "idle"
  /\ msg' = [msg EXCEPT ![m] = IF subscribed /\ streamOpen THEN "queued" ELSE "missed"]
  /\ UNCHANGED <<channel, pc, accepting, subscribed, result, late>>

HandlerReady(m) ==
  /\ msg[m] = "running"
  /\ msg' = [msg EXCEPT ![m] = "ready"]
  /\ UNCHANGED <<channel, pc, accepting, subscribed, result, late>>

Signal ==
  /\ signal = "running"
  /\ signal' \in {"requested", "closed"}
  /\ UNCHANGED <<policy, pc, accepting, subscribed, streamOpen, msg, result, late>>

StreamEnds ==
  /\ streamOpen
  /\ streamOpen' = FALSE
  /\ UNCHANGED <<policy, signal, pc, accepting, subscribed, msg, result, late>>
-----------------------------------------------------------------------------
\* The worker's future is gone, with its subscriber and the handlers it held.
DropAll(f) ==
  [m \in Messages |-> CASE f[m] \in {"running", "ready"} -> "cancelled"
                        [] f[m] = "queued" -> "abandoned"
                        [] OTHER -> f[m]]

End(how, f) ==
  /\ pc' = "ended"
  /\ result' = how
  /\ subscribed' = FALSE
  /\ msg' = DropAll(f)

\* The drain deadline passed while the task was suspended.
Abort ==
  /\ pc \in {"signal", "stopping"}
  /\ signal = "requested"
  /\ End("aborted", msg)
  /\ UNCHANGED <<channel, accepting, late>>
-----------------------------------------------------------------------------
(* Deviations: slips the properties must tell from the loop; no action of  *)
(* the specification uses them.                                            *)

\* A failed unsubscribe makes the worker return at once, as if it had drained.
UnsubscribeFailedOk ==
  /\ pc = "stopping"
  /\ End("ok", msg)
  /\ UNCHANGED <<channel, accepting, late>>

-----------------------------------------------------------------------------
(* The loop.                                                               *)

Drained ==
  /\ pc = "signal"
  /\ ~accepting
  /\ InFlight = {}
  /\ End("ok", msg)
  /\ UNCHANGED <<channel, accepting, late>>

PollSignal ==
  /\ pc = "signal"
  /\ accepting \/ InFlight # {}
  /\ IF accepting /\ signal # "running"
       THEN accepting' = FALSE /\ pc' = "stopping"
       ELSE pc' = "flight" /\ UNCHANGED accepting
  /\ UNCHANGED <<channel, subscribed, msg, result, late>>

Unsubscribed ==
  /\ pc = "stopping"
  /\ pc' = "signal"
  /\ subscribed' = FALSE
  /\ UNCHANGED <<channel, accepting, msg, result, late>>

\* `unsubscribe().await?`: the worker ends, and drops the handlers it holds.
UnsubscribeFailed ==
  /\ pc = "stopping"
  /\ End("error", msg)
  /\ UNCHANGED <<channel, accepting, late>>

Handled(m) ==
  /\ pc = "flight"
  /\ msg[m] = "ready"
  /\ msg' = [msg EXCEPT ![m] = "handled"]
  /\ pc' = "signal"
  /\ UNCHANGED <<channel, accepting, subscribed, result, late>>

\* The handler's ErrorReply becomes the error of the whole worker.
HandlerFailed(m) ==
  /\ pc = "flight"
  /\ msg[m] = "ready"
  /\ End("error", [msg EXCEPT ![m] = "failed"])
  /\ UNCHANGED <<channel, accepting, late>>

Panicked(m) ==
  /\ pc = "flight"
  /\ msg[m] = "ready"
  /\ LET after == [msg EXCEPT ![m] = "panicked"]
     IN  CASE policy = "LogAndContinue" ->
                pc' = "signal" /\ msg' = after /\ UNCHANGED <<result, subscribed>>
           [] policy = "FailWorker" -> End("error", after)
           [] policy = "Propagate" -> End("panic", after)
  /\ UNCHANGED <<channel, accepting, late>>

NoneReady ==
  /\ pc = "flight"
  /\ With("ready") = {}
  /\ pc' = IF accepting /\ Cardinality(InFlight) < Concurrency THEN "incoming" ELSE "signal"
  /\ UNCHANGED <<channel, accepting, subscribed, msg, result, late>>

Admit(m) ==
  /\ pc = "incoming"
  /\ msg[m] = "queued"
  /\ msg' = [msg EXCEPT ![m] = "running"]
  /\ late' = IF signal = "running" THEN late ELSE late + 1
  /\ pc' = "signal"
  /\ UNCHANGED <<channel, accepting, subscribed, result>>

EndOfStream ==
  /\ pc = "incoming"
  /\ With("queued") = {}
  /\ ~streamOpen
  /\ End("error", msg)
  /\ UNCHANGED <<channel, accepting, late>>

Sleep ==
  /\ pc = "incoming"
  /\ With("queued") = {}
  /\ streamOpen
  /\ pc' = "signal"
  /\ UNCHANGED <<channel, accepting, subscribed, msg, result, late>>
-----------------------------------------------------------------------------
Environment ==
  \/ \E m \in Messages : Publish(m) \/ HandlerReady(m)
  \/ Signal
  \/ StreamEnds
  \/ Abort

Loop ==
  \/ Drained
  \/ PollSignal
  \/ Unsubscribed
  \/ UnsubscribeFailed
  \/ \E m \in Messages : Handled(m) \/ HandlerFailed(m) \/ Panicked(m) \/ Admit(m)
  \/ NoneReady
  \/ EndOfStream
  \/ Sleep

Terminated == pc = "ended" /\ UNCHANGED vars

Next == Environment \/ Loop \/ Terminated

Spec == Init /\ [][Next]_vars

-----------------------------------------------------------------------------
(* Properties.                                                             *)

\* The worker never holds more handlers than its effective concurrency.
ConcurrencyBound == Cardinality(InFlight) <= Concurrency

\* At most one message is taken after the shutdown was requested.
LateAdmission == late <= 1

\* The loop implements the promise common to the workers.
Abstract == INSTANCE BoundedWorker WITH
  phase <- CASE pc # "ended" /\ accepting -> "serving"
             [] pc # "ended" /\ ~accepting -> "draining"
             [] pc = "ended" /\ result = "ok" -> "drained"
             [] OTHER -> "broken",
  active <- InFlight,
  settled <- With("handled") \cup With("failed") \cup With("panicked"),
  dropped <- With("cancelled")

ImplementsBoundedWorker == Abstract!Spec
=============================================================================
