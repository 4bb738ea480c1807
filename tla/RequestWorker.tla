---------------------------- MODULE RequestWorker ----------------------------
(***************************************************************************)
(* The request worker (runtime/request_worker.rs): one task that takes     *)
(* requests from a service endpoint, keeps up to Concurrency handler       *)
(* futures in a FuturesUnordered, and watches the shutdown channel.  Each  *)
(* turn of its loop is one biased `select!`: the shutdown channel first,   *)
(* then a finished handler, then the endpoint stream.  The three polls are *)
(* separate steps here, because the channel may change between them.       *)
(*                                                                         *)
(* Handlers run inside the worker's task: they are polled only where       *)
(* pc = "flight", not while the worker waits for endpoint.stop().          *)
(***************************************************************************)
EXTENDS Integers, FiniteSets

CONSTANTS Requests,      \* requests sent to the endpoint's subject
          Concurrency,   \* effective concurrency of the endpoint
          PanicPolicies  \* the values of AppConfig.handler_panic to consider

ASSUME WorkerAssumption ==
  /\ IsFiniteSet(Requests)
  /\ Concurrency \in Nat \ {0}
  /\ PanicPolicies \subseteq {"FailWorker", "LogAndContinue", "Propagate"}

VARIABLES
  policy,      \* the panic policy this worker was started with; never changes
  signal,      \* the shutdown watch: "running", "requested" or "closed"
  pc,          \* where the loop is: the poll it makes next
  accepting,   \* the loop's flag of the same name
  subscribed,  \* the server routes requests to this endpoint
  streamOpen,  \* endpoint.next() can still yield requests
  req,         \* what has become of each request
  result,      \* what the worker's future returned
  gauge,       \* sum of the RequestsInFlight samples
  overCap,     \* requests counted under RejectedOverCapacity
  late         \* requests admitted after the shutdown signal (history)

vars == <<policy, signal, pc, accepting, subscribed, streamOpen, req, result, gauge, overCap, late>>
channel == <<policy, signal, streamOpen>>
metrics == <<gauge, overCap, late>>

(***************************************************************************)
(* A request is idle (not sent), queued (delivered, in the endpoint's      *)
(* stream), running (its handler is pending), ready (the next poll of its  *)
(* handler finishes it); then it is replied to (with a response or with an *)
(* error reply), unpublished (the reply could not be published), panicked, *)
(* cancelled (its handler dropped half way), abandoned (never taken from   *)
(* the stream) or refused (no endpoint was subscribed).                    *)
(***************************************************************************)
Status == {"idle", "queued", "running", "ready", "replied", "unpublished",
           "panicked", "cancelled", "abandoned", "refused"}

InFlight == {r \in Requests : req[r] \in {"running", "ready"}}
With(s) == {r \in Requests : req[r] = s}

TypeOK ==
  /\ policy \in PanicPolicies
  /\ signal \in {"running", "requested", "closed"}
  /\ pc \in {"signal", "flight", "incoming", "stopping", "ended"}
  /\ accepting \in BOOLEAN
  /\ subscribed \in BOOLEAN
  /\ streamOpen \in BOOLEAN
  /\ req \in [Requests -> Status]
  /\ result \in {"none", "ok", "error", "panic", "aborted"}
  /\ gauge \in 0..Cardinality(Requests)
  /\ overCap \in SUBSET Requests
  /\ late \in Nat

Init ==
  /\ policy \in PanicPolicies
  /\ signal = "running"
  /\ pc = "signal"
  /\ accepting = TRUE
  /\ subscribed = TRUE
  /\ streamOpen = TRUE
  /\ req = [r \in Requests |-> "idle"]
  /\ result = "none"
  /\ gauge = 0
  /\ overCap = {}
  /\ late = 0
-----------------------------------------------------------------------------
(* The worker's surroundings.                                              *)

\* A client sends a request; with no subscription the server answers it.
Send(r) ==
  /\ req[r] = "idle"
  /\ req' = [req EXCEPT ![r] = IF subscribed /\ streamOpen THEN "queued" ELSE "refused"]
  /\ UNCHANGED <<channel, pc, accepting, subscribed, result, metrics>>

\* What the handler of r waits for arrives: its next poll will finish it.
HandlerReady(r) ==
  /\ req[r] = "running"
  /\ req' = [req EXCEPT ![r] = "ready"]
  /\ UNCHANGED <<channel, pc, accepting, subscribed, result, metrics>>

\* Somebody requests the shutdown, or every sender of the channel is dropped.
Signal ==
  /\ signal = "running"
  /\ signal' \in {"requested", "closed"}
  /\ UNCHANGED <<policy, pc, accepting, subscribed, streamOpen, req, result, metrics>>

\* The connection goes away: the endpoint's stream ends after what it holds.
StreamEnds ==
  /\ streamOpen
  /\ streamOpen' = FALSE
  /\ UNCHANGED <<policy, signal, pc, accepting, subscribed, req, result, metrics>>
-----------------------------------------------------------------------------
(* The worker's future is gone: returned, unwound by a panic or aborted.   *)
(* Its endpoint goes with it, and so do the handlers still in its hands;   *)
(* what the stream still held is never taken.                              *)
DropAll(f) ==
  [r \in Requests |-> CASE f[r] \in {"running", "ready"} -> "cancelled"
                        [] f[r] = "queued" -> "abandoned"
                        [] OTHER -> f[r]]

End(how, f) ==
  /\ pc' = "ended"
  /\ result' = how
  /\ subscribed' = FALSE
  /\ req' = DropAll(f)

\* The drain deadline of the application passed: the task is aborted where it
\* is suspended, with the channel the next thing it polls, or in stop().
Abort ==
  /\ pc \in {"signal", "stopping"}
  /\ signal = "requested"
  /\ End("aborted", req)
  /\ UNCHANGED <<channel, accepting, metrics>>
-----------------------------------------------------------------------------
(* Deviations.  Slips that the properties below must be able to tell from  *)
(* the loop; no action of the specification uses them.                     *)

\* A select without `biased`: the channel may lose against the other arms.
PollSignalUnbiased ==
  /\ pc = "signal"
  /\ accepting \/ InFlight # {}
  /\ \/ accepting /\ signal # "running" /\ accepting' = FALSE /\ pc' = "stopping"
     \/ pc' = "flight" /\ UNCHANGED accepting
  /\ UNCHANGED <<channel, subscribed, req, result, metrics>>

\* The select of the full worker without its shutdown arm.
PollSignalWithFreeSlot ==
  /\ pc = "signal"
  /\ accepting \/ InFlight # {}
  /\ IF accepting /\ signal # "running" /\ Cardinality(InFlight) < Concurrency
       THEN accepting' = FALSE /\ pc' = "stopping"
       ELSE pc' = "flight" /\ UNCHANGED accepting
  /\ UNCHANGED <<channel, subscribed, req, result, metrics>>

\* The shutdown arm without `if accepting`.
PollSignalAgain ==
  /\ pc = "signal"
  /\ accepting \/ InFlight # {}
  /\ IF signal # "running"
       THEN accepting' = FALSE /\ pc' = "stopping"
       ELSE pc' = "flight" /\ UNCHANGED accepting
  /\ UNCHANGED <<channel, subscribed, req, result, metrics>>

\* The reply's gauge sample is forgotten.
RepliedUnmetered(r) ==
  /\ pc = "flight"
  /\ req[r] = "ready"
  /\ req' = [req EXCEPT ![r] = "replied"]
  /\ pc' = "signal"
  /\ UNCHANGED <<channel, accepting, subscribed, result, metrics>>

\* The stream is polled although the worker no longer accepts.
NoneReadyWhileDraining ==
  /\ pc = "flight"
  /\ With("ready") = {}
  /\ pc' = IF Cardinality(InFlight) < Concurrency THEN "incoming" ELSE "signal"
  /\ UNCHANGED <<channel, accepting, subscribed, req, result, metrics>>
-----------------------------------------------------------------------------
(* The loop.                                                               *)

\* Top of the loop: a drained worker returns.
Drained ==
  /\ pc = "signal"
  /\ ~accepting
  /\ InFlight = {}
  /\ End("ok", req)
  /\ UNCHANGED <<channel, accepting, metrics>>

\* First arm of the select: shutdown.changed(), polled while accepting.
PollSignal ==
  /\ pc = "signal"
  /\ accepting \/ InFlight # {}
  /\ IF accepting /\ signal # "running"
       THEN accepting' = FALSE /\ pc' = "stopping"
       ELSE pc' = "flight" /\ UNCHANGED accepting
  /\ UNCHANGED <<channel, subscribed, req, result, metrics>>

\* endpoint.stop() returns; its error is only logged, and then the server may
\* go on routing requests to a stream that nobody reads any more.
StopEndpoint ==
  /\ pc = "stopping"
  /\ pc' = "signal"
  /\ subscribed' \in {FALSE, subscribed}
  /\ UNCHANGED <<channel, accepting, req, result, metrics>>

\* Second arm: a handler finished, and its reply, good or bad, was published.
Replied(r) ==
  /\ pc = "flight"
  /\ req[r] = "ready"
  /\ req' = [req EXCEPT ![r] = "replied"]
  /\ gauge' = gauge - 1
  /\ pc' = "signal"
  /\ UNCHANGED <<channel, accepting, subscribed, result, overCap, late>>

\* ... or publishing the reply failed, which ends the worker.
ReplyFailed(r) ==
  /\ pc = "flight"
  /\ req[r] = "ready"
  /\ End("error", [req EXCEPT ![r] = "unpublished"])
  /\ gauge' = gauge - 1
  /\ UNCHANGED <<channel, accepting, overCap, late>>

\* ... or it panicked.  The panic skips the rest of the processing future, the
\* gauge sample included; the policy decides what becomes of the worker.
Panicked(r) ==
  /\ pc = "flight"
  /\ req[r] = "ready"
  /\ LET after == [req EXCEPT ![r] = "panicked"]
     IN  CASE policy = "LogAndContinue" ->
                pc' = "signal" /\ req' = after /\ UNCHANGED <<result, subscribed>>
           [] policy = "FailWorker" -> End("error", after)
           [] policy = "Propagate" -> End("panic", after)
  /\ UNCHANGED <<channel, accepting, metrics>>

\* No handler is ready.  The stream is polled only below the limit.
NoneReady ==
  /\ pc = "flight"
  /\ With("ready") = {}
  /\ pc' = IF accepting /\ Cardinality(InFlight) < Concurrency THEN "incoming" ELSE "signal"
  /\ UNCHANGED <<channel, accepting, subscribed, req, result, metrics>>

\* Third arm: a request is taken.  It is counted as over capacity when it fills
\* the last slot, although it is accepted like any other.
Admit(r) ==
  /\ pc = "incoming"
  /\ req[r] = "queued"
  /\ req' = [req EXCEPT ![r] = "running"]
  /\ gauge' = gauge + 1
  /\ overCap' = IF Cardinality(InFlight) + 1 >= Concurrency THEN overCap \cup {r} ELSE overCap
  /\ late' = IF signal = "running" THEN late ELSE late + 1
  /\ pc' = "signal"
  /\ UNCHANGED <<channel, accepting, subscribed, result>>

\* ... or the stream has ended, which a worker that accepts does not survive.
EndOfStream ==
  /\ pc = "incoming"
  /\ With("queued") = {}
  /\ ~streamOpen
  /\ End("error", req)
  /\ UNCHANGED <<channel, accepting, metrics>>

\* ... or nothing has arrived: the task sleeps until something wakes it.
Sleep ==
  /\ pc = "incoming"
  /\ With("queued") = {}
  /\ streamOpen
  /\ pc' = "signal"
  /\ UNCHANGED <<channel, accepting, subscribed, req, result, metrics>>
-----------------------------------------------------------------------------
Environment ==
  \/ \E r \in Requests : Send(r) \/ HandlerReady(r)
  \/ Signal
  \/ StreamEnds
  \/ Abort

Loop ==
  \/ Drained
  \/ PollSignal
  \/ StopEndpoint
  \/ \E r \in Requests : Replied(r) \/ ReplyFailed(r) \/ Panicked(r) \/ Admit(r)
  \/ NoneReady
  \/ EndOfStream
  \/ Sleep

\* The task is over; its record stays.
Terminated == pc = "ended" /\ UNCHANGED vars

Next == Environment \/ Loop \/ Terminated

Spec == Init /\ [][Next]_vars

(***************************************************************************)
(* The runtime keeps polling a task that can move (Loop).  That handlers   *)
(* come to an end is the application's promise, assumed only where named.  *)
(***************************************************************************)
FairSpec == Spec /\ WF_vars(Loop)
HandlersReturn == \A r \in Requests : WF_vars(HandlerReady(r))
-----------------------------------------------------------------------------
(* Properties.                                                             *)

\* The worker never holds more handlers than its effective concurrency, although
\* the limit is tested two polls before the request is taken (lines 156-173).
ConcurrencyBound == Cardinality(InFlight) <= Concurrency

\* The select is biased to the shutdown channel, so at most the one request
\* whose poll was already under way is taken after the shutdown was requested.
LateAdmission == late <= 1

\* A worker returns Ok only for a shutdown, and only when each request it took
\* was answered or, under LogAndContinue, lost to its own handler's panic: a
\* graceful exit drops no request half way (lines 152-154).
CleanExit ==
  result = "ok" =>
    /\ signal # "running"
    /\ InFlight \cup With("cancelled") \cup With("unpublished") = {}
    /\ policy # "LogAndContinue" => With("panicked") = {}

\* What the RequestsInFlight gauge really measures: the handlers in flight, and
\* for ever after every handler that panicked or was dropped, because the -1
\* sample follows the handler inside the same future (lines 225-268).
GaugeAccounting ==
  gauge = Cardinality(InFlight) + Cardinality(With("panicked")) + Cardinality(With("cancelled"))

\* The gauge is named nats_micro.requests.in_flight (telemetry.rs).  The code does
\* not keep this: a panic that the worker survives leaves the gauge one too high.
GaugeMatchesInFlight == pc # "ended" => gauge = Cardinality(InFlight)

\* The counter is named nats_micro.requests.rejected_over_capacity (telemetry.rs).
\* The code does not keep this either: it counts a request that it serves.
RejectedAreNotServed == overCap \cap (InFlight \cup With("replied")) = {}

\* A shutdown request stops the intake even when every slot is taken by a handler
\* that never returns: the full worker still polls the channel (lines 278-289).
ShutdownSeen == (signal # "running") ~> (~accepting \/ pc = "ended")

\* If handlers return, a worker told to shut down does end.
DrainEnds == HandlersReturn => ((signal # "running") ~> (pc = "ended"))

\* The loop implements the promise common to the workers.
Abstract == INSTANCE BoundedWorker WITH
  Messages <- Requests,
  phase <- CASE pc # "ended" /\ accepting -> "serving"
             [] pc # "ended" /\ ~accepting -> "draining"
             [] pc = "ended" /\ result = "ok" -> "drained"
             [] OTHER -> "broken",
  active <- InFlight,
  settled <- With("replied") \cup With("unpublished") \cup With("panicked"),
  dropped <- With("cancelled")

ImplementsBoundedWorker == Abstract!Spec
=============================================================================
