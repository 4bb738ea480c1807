---------------------------- MODULE ConsumerWorker ----------------------------
(***************************************************************************)
(* The JetStream push-consumer worker (runtime/consumer_worker.rs) and the *)
(* durable consumer it is bound to.  The loop is that of the other workers *)
(* but each handler also sends a progress acknowledgement every third of   *)
(* ack_wait, and ends by settling its delivery: Ack, Nak, delayed Nak or   *)
(* Term.  The server is external: it redelivers what is not settled in     *)
(* time, up to max_deliver deliveries of a message.                        *)
(*                                                                         *)
(* Time is counted in ticks that only the timers see: the server's, one    *)
(* per message, and the progress interval, one per handler.  A handler in  *)
(* flight is polled before the next tick when it is ready or its progress  *)
(* is due (the worker's task is never starved for a whole tick), and the   *)
(* server acts on an expired timer before the next tick.                   *)
(***************************************************************************)
EXTENDS Integers, FiniteSets

CONSTANTS Messages,      \* messages of the stream that match the consumer
          Concurrency,   \* effective concurrency of the consumer
          MaxDeliver,    \* max_deliver of the durable consumer
          AckWait,       \* ticks the server waits for a settlement
          Period,        \* ticks between two progress acknowledgements
          PanicPolicies  \* the values of AppConfig.handler_panic to consider

ASSUME ConsumerAssumption ==
  /\ IsFiniteSet(Messages)
  /\ Concurrency \in Nat \ {0}
  /\ MaxDeliver \in Nat \ {0}
  /\ AckWait \in Nat \ {0}
  /\ Period \in 1..(AckWait - 1)
  /\ PanicPolicies \subseteq {"FailWorker", "LogAndContinue", "Propagate"}

VARIABLES
  policy,      \* the panic policy this worker was started with; never changes
  signal,      \* the shutdown watch: "running", "requested" or "closed"
  pc,          \* the poll the loop makes next
  accepting,   \* the loop's flag of the same name
  streamOpen,  \* messages.next() can still yield deliveries
  stored,      \* what the server holds of each message
  attempt,     \* how often the server has delivered each message
  timer,       \* ticks left before the server gives up on the last delivery
  dlv,         \* what has become of each delivery
  due,         \* ticks left before a running handler's next progress
  timely,      \* deliveries in flight admitted with over a Period left (history)
  result,      \* what the worker's future returned
  late         \* deliveries admitted after the shutdown signal (history)

vars == <<policy, signal, pc, accepting, streamOpen, stored, attempt, timer,
          dlv, due, timely, result, late>>
channel == <<policy, signal, streamOpen>>
server == <<stored, attempt, timer>>

Deliveries == Messages \X (1..MaxDeliver)
Message(d) == d[1]

(***************************************************************************)
(* A delivery is none (not made yet), buffered (in the worker's stream),   *)
(* running, ready (the next poll of the handler finishes it); then it is   *)
(* settled with the outcome of its handler, unsettled (sending the         *)
(* settlement failed), panicked, cancelled (its handler was dropped half   *)
(* way) or abandoned (left in the stream).                                 *)
(***************************************************************************)
Outcome == {"ack", "nack", "nackAfter", "term", "error"}
Status == {"none", "buffered", "running", "ready", "unsettled", "panicked",
           "cancelled", "abandoned"} \cup Outcome

InFlight == {d \in Deliveries : dlv[d] \in {"running", "ready"}}
With(S) == {d \in Deliveries : dlv[d] \in S}

TypeOK ==
  /\ policy \in PanicPolicies
  /\ signal \in {"running", "requested", "closed"}
  /\ pc \in {"signal", "flight", "incoming", "ended"}
  /\ accepting \in BOOLEAN
  /\ streamOpen \in BOOLEAN
  /\ stored \in [Messages -> {"pending", "outstanding", "acked", "termed", "exhausted"}]
  /\ attempt \in [Messages -> 0..MaxDeliver]
  /\ timer \in [Messages -> 0..AckWait]
  /\ dlv \in [Deliveries -> Status]
  /\ due \in [Deliveries -> 0..AckWait]
  /\ timely \in SUBSET Deliveries
  /\ result \in {"none", "ok", "error", "panic", "aborted"}
  /\ late \in Nat

Init ==
  /\ policy \in PanicPolicies
  /\ signal = "running"
  /\ pc = "signal"
  /\ accepting = TRUE
  /\ streamOpen = TRUE
  /\ stored = [m \in Messages |-> "pending"]
  /\ attempt = [m \in Messages |-> 0]
  /\ timer = [m \in Messages |-> 0]
  /\ dlv = [d \in Deliveries |-> "none"]
  /\ due = [d \in Deliveries |-> 0]
  /\ timely = {}
  /\ result = "none"
  /\ late = 0
-----------------------------------------------------------------------------
(* The server.                                                             *)

\* A push consumer delivers while somebody listens on its deliver subject; the
\* worker listens until it ends, also while it drains.
Deliver(m) ==
  /\ stored[m] = "pending"
  /\ streamOpen /\ pc # "ended"
  /\ stored' = [stored EXCEPT ![m] = "outstanding"]
  /\ attempt' = [attempt EXCEPT ![m] = @ + 1]
  /\ timer' = [timer EXCEPT ![m] = AckWait]
  /\ dlv' = [dlv EXCEPT ![<<m, attempt[m] + 1>>] = "buffered"]
  /\ UNCHANGED <<channel, pc, accepting, due, timely, result, late>>

\* What a message becomes that is to be delivered again.
Requeued(m) == IF attempt[m] < MaxDeliver THEN "pending" ELSE "exhausted"

Expire(m) ==
  /\ stored[m] = "outstanding"
  /\ timer[m] = 0
  /\ stored' = [stored EXCEPT ![m] = Requeued(m)]
  /\ UNCHANGED <<channel, pc, accepting, attempt, timer, dlv, due, timely, result, late>>

\* The server's answer to a settlement.  It goes by the message, whichever of its
\* deliveries is settled, and is ignored once the message is done with.
Settlement(m, action) ==
  IF stored[m] \notin {"pending", "outstanding"}
    THEN UNCHANGED <<stored, timer>>
    ELSE CASE action = "ack"  -> stored' = [stored EXCEPT ![m] = "acked"] /\ timer' = [timer EXCEPT ![m] = 0]
           [] action = "term" -> stored' = [stored EXCEPT ![m] = "termed"] /\ timer' = [timer EXCEPT ![m] = 0]
           [] action = "nack" ->
                /\ stored' = [stored EXCEPT ![m] = IF @ = "outstanding" THEN Requeued(m) ELSE @]
                /\ timer' = [timer EXCEPT ![m] = 0]
           [] action = "nackAfter" ->
                /\ timer' = [timer EXCEPT ![m] = IF stored[m] = "outstanding" THEN 1 ELSE @]
                /\ UNCHANGED stored
-----------------------------------------------------------------------------
(* The rest of the worker's surroundings.                                  *)

\* A tick passes for all timers: those of the messages that are out, and the
\* progress intervals of the handlers in flight.
Tick ==
  /\ \E m \in Messages : stored[m] = "outstanding"
  /\ \A m \in Messages : stored[m] = "outstanding" => timer[m] > 0
  /\ With({"ready"}) = {}
  /\ \A d \in With({"running"}) : due[d] > 0
  /\ timer' = [m \in Messages |-> IF stored[m] = "outstanding" THEN timer[m] - 1 ELSE timer[m]]
  /\ due' = [d \in Deliveries |-> IF dlv[d] = "running" THEN due[d] - 1 ELSE due[d]]
  /\ UNCHANGED <<channel, pc, accepting, stored, attempt, dlv, timely, result, late>>

HandlerReady(d) ==
  /\ dlv[d] = "running"
  /\ dlv' = [dlv EXCEPT ![d] = "ready"]
  /\ due' = [due EXCEPT ![d] = 0]
  /\ UNCHANGED <<channel, server, pc, accepting, timely, result, late>>

Signal ==
  /\ signal = "running"
  /\ signal' \in {"requested", "closed"}
  /\ UNCHANGED <<policy, server, pc, accepting, streamOpen, dlv, due, timely, result, late>>

StreamEnds ==
  /\ streamOpen
  /\ streamOpen' = FALSE
  /\ UNCHANGED <<policy, signal, server, pc, accepting, dlv, due, timely, result, late>>

\* The worker's future is gone; nothing is said to the server about what it held.
DropAll(f) ==
  [d \in Deliveries |-> CASE f[d] \in {"running", "ready"} -> "cancelled"
                          [] f[d] = "buffered" -> "abandoned"
                          [] OTHER -> f[d]]

End(how, f) ==
  /\ pc' = "ended"
  /\ result' = how
  /\ dlv' = DropAll(f)
  /\ due' = [d \in Deliveries |-> 0]
  /\ timely' = {}

\* The drain deadline passed while the task was suspended.
Abort ==
  /\ pc = "signal"
  /\ signal = "requested"
  /\ End("aborted", dlv)
  /\ UNCHANGED <<channel, server, accepting, late>>
-----------------------------------------------------------------------------
\* Deviation (see below): a handler's error settles the delivery as if it had been handled.
ActionOfAcked(outcome) == IF outcome \in {"error", "ack"} THEN "ack" ELSE outcome

\* The acknowledgement a handler's outcome turns into: an error is a Nak.
ActionOf(outcome) == IF outcome = "error" THEN "nack" ELSE outcome

(* Deviations: slips the properties must tell from the loop; no action of  *)
(* the specification uses them.                                            *)

\* The shutdown arm without `if accepting`.
PollSignalAgain ==
  /\ pc = "signal"
  /\ accepting \/ InFlight # {}
  /\ IF signal # "running"
       THEN accepting' = FALSE /\ pc' = "signal"
       ELSE pc' = "flight" /\ UNCHANGED accepting
  /\ UNCHANGED <<channel, server, dlv, due, timely, result, late>>

\* Off by one: a worker whose slots are taken polls its stream.
NoneReadyWhileFull ==
  /\ pc = "flight"
  /\ With({"ready"}) = {}
  /\ \A d \in With({"running"}) : due[d] > 0
  /\ pc' = IF accepting /\ Cardinality(InFlight) <= Concurrency THEN "incoming" ELSE "signal"
  /\ UNCHANGED <<channel, server, accepting, dlv, due, timely, result, late>>

\* The progress interval is a whole ack_wait.
ProgressTooSlow(d) ==
  /\ pc = "flight"
  /\ dlv[d] = "running"
  /\ due[d] = 0
  /\ due' = [due EXCEPT ![d] = AckWait]
  /\ timer' = [timer EXCEPT ![Message(d)] = IF stored[Message(d)] = "outstanding" THEN AckWait ELSE @]
  /\ UNCHANGED <<channel, pc, accepting, stored, attempt, dlv, timely, result, late>>

\* Under LogAndContinue a handler that panicked is tried again at once.
PanickedRetried(d) ==
  /\ pc = "flight"
  /\ dlv[d] = "ready"
  /\ LET after == [dlv EXCEPT ![d] = "panicked"]
     IN  CASE policy = "LogAndContinue" ->
                /\ pc' = "signal" /\ dlv' = [dlv EXCEPT ![d] = "running"]
                /\ due' = [due EXCEPT ![d] = Period]
                /\ UNCHANGED <<timely, result>>
           [] policy = "FailWorker" -> End("error", after)
           [] policy = "Propagate" -> End("panic", after)
  /\ UNCHANGED <<channel, server, accepting, late>>

-----------------------------------------------------------------------------
(* The loop.                                                               *)

Drained ==
  /\ pc = "signal"
  /\ ~accepting
  /\ InFlight = {}
  /\ End("ok", dlv)
  /\ UNCHANGED <<channel, server, accepting, late>>

\* Nothing is unsubscribed: the worker merely stops reading its stream.
PollSignal ==
  /\ pc = "signal"
  /\ accepting \/ InFlight # {}
  /\ IF accepting /\ signal # "running"
       THEN accepting' = FALSE /\ pc' = "signal"
       ELSE pc' = "flight" /\ UNCHANGED accepting
  /\ UNCHANGED <<channel, server, dlv, due, timely, result, late>>

\* A handler is polled, is not ready, and its interval has fired.
Progress(d) ==
  /\ pc = "flight"
  /\ dlv[d] = "running"
  /\ due[d] = 0
  /\ due' = [due EXCEPT ![d] = Period]
  /\ timer' = [timer EXCEPT ![Message(d)] = IF stored[Message(d)] = "outstanding" THEN AckWait ELSE @]
  /\ UNCHANGED <<channel, pc, accepting, stored, attempt, dlv, timely, result, late>>

\* ... and the progress cannot be sent: the handler is dropped, the worker fails.
ProgressFailed(d) ==
  /\ pc = "flight"
  /\ dlv[d] = "running"
  /\ due[d] = 0
  /\ End("error", dlv)
  /\ UNCHANGED <<channel, server, accepting, late>>

\* A handler finished and its delivery is settled.
Settle(d, outcome) ==
  /\ pc = "flight"
  /\ dlv[d] = "ready"
  /\ dlv' = [dlv EXCEPT ![d] = outcome]
  /\ Settlement(Message(d), ActionOf(outcome))
  /\ timely' = timely \ {d}
  /\ pc' = "signal"
  /\ UNCHANGED <<channel, accepting, attempt, due, result, late>>

\* ... or the settlement cannot be sent, which ends the worker.
SettleFailed(d) ==
  /\ pc = "flight"
  /\ dlv[d] = "ready"
  /\ End("error", [dlv EXCEPT ![d] = "unsettled"])
  /\ UNCHANGED <<channel, server, accepting, late>>

\* ... or the handler panicked: the delivery is left to expire.
Panicked(d) ==
  /\ pc = "flight"
  /\ dlv[d] = "ready"
  /\ LET after == [dlv EXCEPT ![d] = "panicked"]
     IN  CASE policy = "LogAndContinue" ->
                /\ pc' = "signal" /\ dlv' = after
                /\ timely' = timely \ {d}
                /\ UNCHANGED <<due, result>>
           [] policy = "FailWorker" -> End("error", after)
           [] policy = "Propagate" -> End("panic", after)
  /\ UNCHANGED <<channel, server, accepting, late>>

NoneReady ==
  /\ pc = "flight"
  /\ With({"ready"}) = {}
  /\ \A d \in With({"running"}) : due[d] > 0
  /\ pc' = IF accepting /\ Cardinality(InFlight) < Concurrency THEN "incoming" ELSE "signal"
  /\ UNCHANGED <<channel, server, accepting, dlv, due, timely, result, late>>

\* The server would accept a settlement of d, and not expire it within a Period.
InTime(d) == /\ stored[Message(d)] = "outstanding"
             /\ attempt[Message(d)] = d[2]
             /\ timer[Message(d)] > Period

\* A delivery is taken from the stream, where it may have waited for long; its
\* progress interval starts now.
Admit(d) ==
  /\ pc = "incoming"
  /\ dlv[d] = "buffered"
  /\ dlv' = [dlv EXCEPT ![d] = "running"]
  /\ due' = [due EXCEPT ![d] = Period]
  /\ timely' = IF InTime(d) THEN timely \cup {d} ELSE timely
  /\ late' = IF signal = "running" THEN late ELSE late + 1
  /\ pc' = "signal"
  /\ UNCHANGED <<channel, server, accepting, result>>

EndOfStream ==
  /\ pc = "incoming"
  /\ With({"buffered"}) = {}
  /\ ~streamOpen
  /\ End("error", dlv)
  /\ UNCHANGED <<channel, server, accepting, late>>

\* Nothing has arrived, or an error that is only logged.
Sleep ==
  /\ pc = "incoming"
  /\ With({"buffered"}) = {}
  /\ streamOpen
  /\ pc' = "signal"
  /\ UNCHANGED <<channel, server, accepting, dlv, due, timely, result, late>>
-----------------------------------------------------------------------------
Environment ==
  \/ \E m \in Messages : Deliver(m) \/ Expire(m)
  \/ Tick
  \/ \E d \in Deliveries : HandlerReady(d)
  \/ Signal
  \/ StreamEnds
  \/ Abort

Loop ==
  \/ Drained
  \/ PollSignal
  \/ \E d \in Deliveries : Progress(d) \/ ProgressFailed(d)
  \/ \E d \in Deliveries, o \in Outcome : Settle(d, o)
  \/ \E d \in Deliveries : SettleFailed(d) \/ Panicked(d) \/ Admit(d)
  \/ NoneReady
  \/ EndOfStream
  \/ Sleep

Terminated == pc = "ended" /\ UNCHANGED vars

Next == Environment \/ Loop \/ Terminated

Spec == Init /\ [][Next]_vars

(***************************************************************************)
(* The runtime polls a task that can move, time passes, handlers come to   *)
(* an end, and the server keeps delivering what it may deliver.            *)
(***************************************************************************)
FairSpec ==
  /\ Spec
  /\ WF_vars(Loop)
  /\ WF_vars(Tick)
  /\ \A d \in Deliveries : WF_vars(HandlerReady(d))
  /\ \A m \in Messages : WF_vars(Deliver(m)) /\ WF_vars(Expire(m))
-----------------------------------------------------------------------------
(* Properties.                                                             *)

\* The worker never holds more handlers than its effective concurrency, counting
\* the redeliveries of a message whose earlier delivery is still being handled.
ConcurrencyBound == Cardinality(InFlight) <= Concurrency

\* At most one delivery is taken after the shutdown was requested.
LateAdmission == late <= 1

\* A worker that returns Ok was told to stop, and every delivery it took it also
\* settled, but for those whose handler panicked under LogAndContinue.
CleanExit ==
  result = "ok" =>
    /\ signal # "running"
    /\ InFlight \cup With({"cancelled", "unsettled"}) = {}
    /\ policy # "LogAndContinue" => With({"panicked"}) = {}

\* A message leaves the stream only because one of its handlers said so: an error,
\* a panic, a dropped handler or a failed settlement never acknowledges or
\* terminates it (lines 284-349).
OnlyHandlersSettle ==
  \A m \in Messages :
    /\ stored[m] = "acked"  => \E d \in With({"ack"})  : Message(d) = m
    /\ stored[m] = "termed" => \E d \in With({"term"}) : Message(d) = m

\* Progress keeps the server from redelivering a message while its handler runs:
\* two handlers of one message overlap only when the earlier delivery had waited
\* in the stream too long to be saved, or another of its deliveries was rejected.
NoOverlap ==
  \A d, e \in InFlight :
    (Message(d) = Message(e) /\ d[2] < e[2]) =>
      \/ d \notin timely
      \/ \E f \in With({"nack", "nackAfter", "error"}) : Message(f) = Message(d)

\* If handlers return, a worker told to shut down does end, although the server
\* keeps delivering to it.
DrainEnds == (signal # "running") ~> (pc = "ended")

\* While the worker lives, every message is settled or runs out of deliveries.
EveryMessageSettles ==
  \A m \in Messages :
    (stored[m] \in {"pending", "outstanding"}) ~>
      (stored[m] \in {"acked", "termed", "exhausted"} \/ pc = "ended" \/ ~accepting)

\* The loop implements the promise common to the workers, one delivery of a message
\* being one of its messages.
Abstract == INSTANCE BoundedWorker WITH
  Messages <- Deliveries,
  phase <- CASE pc # "ended" /\ accepting -> "serving"
             [] pc # "ended" /\ ~accepting -> "draining"
             [] pc = "ended" /\ result = "ok" -> "drained"
             [] OTHER -> "broken",
  active <- InFlight,
  settled <- With(Outcome \cup {"unsettled", "panicked"}),
  dropped <- With({"cancelled"})

ImplementsBoundedWorker == Abstract!Spec
=============================================================================
