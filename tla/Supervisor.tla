------------------------------ MODULE Supervisor ------------------------------
(***************************************************************************)
(* The task that owns one worker (supervise_request, -_encrypted_request,  *)
(* -_subscription and -_consumer in app/typed_runtime.rs: four loops that  *)
(* differ only in the worker they run and in how they register it again),  *)
(* with the RestartTracker that grants its restarts.                       *)
(*                                                                         *)
(* The worker itself is reduced to the ways it can end: RequestWorker,     *)
(* SubscriptionWorker and ConsumerWorker say when it does.  Time is a      *)
(* counter; a sleep may end late but not early.                            *)
(***************************************************************************)
EXTENDS Integers, Sequences

CONSTANTS InitialBackoff,  \* the fields of WorkerFailurePolicy::Restart ...
          MaxBackoff,
          MaxRestarts,
          Window,
          Policies,        \* the values of AppConfig.worker_failure to consider
          MaxTime          \* bound: the clock stops here

\* What AppConfig::validate ensures before a runtime exists.
ASSUME ConfigAssumption ==
  /\ InitialBackoff \in Nat \ {0}
  /\ MaxBackoff \in Nat
  /\ MaxBackoff >= InitialBackoff
  /\ MaxRestarts \in Nat \ {0}
  /\ Window \in Nat \ {0}
  /\ Policies \subseteq {"Ignore", "ShutdownApp", "Restart"}
  /\ MaxTime \in Nat

VARIABLES
  policy,         \* RestartTracker.policy; never changes
  signal,         \* the shutdown watch: "running", "requested" or "closed"
  pc,             \* "working", "backoff", "registering" or "ended"
  result,         \* what the supervisor's task returned
  now,            \* the clock
  windowStarted,  \* the other fields of the tracker ...
  restarts,
  nextBackoff,
  wakeAt,         \* when the sleep of wait_backoff is over
  grants,         \* the restarts granted: when, and after which delay (history)
  late            \* restarts begun after the shutdown was requested (history)

vars == <<policy, signal, pc, result, now, windowStarted, restarts, nextBackoff, wakeAt, grants, late>>
tracker == <<windowStarted, restarts, nextBackoff, wakeAt, grants>>

Grant == [at : Nat, delay : Nat]

TypeOK ==
  /\ policy \in Policies
  /\ signal \in {"running", "requested", "closed"}
  /\ pc \in {"working", "backoff", "registering", "ended"}
  /\ result \in {"none", "ok", "gave up", "unregistered", "panic", "aborted"}
  /\ now \in Nat
  /\ windowStarted \in Nat
  /\ restarts \in 0..MaxRestarts
  /\ nextBackoff \in 0..MaxBackoff
  /\ wakeAt \in Nat
  /\ grants \in Seq(Grant)
  /\ late \in Nat

Init ==
  /\ policy \in Policies
  /\ signal = "running"
  /\ pc = "working"
  /\ result = "none"
  /\ now = 0
  /\ windowStarted = 0
  /\ restarts = 0
  /\ nextBackoff = IF policy = "Restart" THEN InitialBackoff ELSE 0
  /\ wakeAt = 0
  /\ grants = <<>>
  /\ late = 0
-----------------------------------------------------------------------------
Tick ==
  /\ pc # "ended"
  /\ now < MaxTime
  /\ now' = now + 1
  /\ UNCHANGED <<policy, signal, pc, result, tracker, late>>

\* Somebody requests the shutdown; or the runtime is dropped before it ran.
Signal ==
  /\ signal = "running"
  /\ signal' \in {"requested", "closed"}
  /\ UNCHANGED <<policy, pc, result, now, tracker, late>>

End(how) == pc' = "ended" /\ result' = how

\* The runtime's drain deadline passed.
Abort ==
  /\ pc # "ended"
  /\ signal = "requested"
  /\ End("aborted")
  /\ UNCHANGED <<policy, signal, now, tracker, late>>
-----------------------------------------------------------------------------
(* RestartTracker::next_delay.                                             *)

WindowOver == now - windowStarted > Window

\* Restarts already granted in the window, and the delay that would come next.
Used == IF WindowOver THEN 0 ELSE restarts
Delay == IF WindowOver THEN InitialBackoff ELSE nextBackoff

Doubled(d) == IF 2 * d < MaxBackoff THEN 2 * d ELSE MaxBackoff

(* Deviations: slips the properties must tell from the code; no action of  *)
(* the specification uses them.                                            *)

\* The window is counted anew, but still from the start of the first one.
NextDelayStaleWindow ==
  /\ policy = "Restart"
  /\ Used < MaxRestarts
  /\ restarts' = Used + 1
  /\ nextBackoff' = Doubled(Delay)
  /\ wakeAt' = now + Delay
  /\ grants' = Append(grants, [at |-> now, delay |-> Delay])
  /\ pc' = "backoff"
  /\ UNCHANGED <<windowStarted, result>>

\* The budget ends one restart too early.
NoDelayEarly ==
  /\ policy = "Restart" => Used + 1 >= MaxRestarts
  /\ pc' = "ended" /\ result' = "gave up"
  /\ UNCHANGED tracker

\* wait_backoff looks only for the closed channel.
BackoffInterruptedByClose ==
  /\ pc = "backoff"
  /\ signal = "closed"
  /\ End("ok")
  /\ UNCHANGED <<policy, signal, now, tracker, late>>

\* A worker that was registered again earns its budget back.
RegisteredForgiving ==
  /\ pc = "registering"
  /\ pc' = "working"
  /\ restarts' = 0
  /\ UNCHANGED <<policy, signal, result, now, windowStarted, nextBackoff, wakeAt, grants, late>>
-----------------------------------------------------------------------------
\* next_delay returns Some(delay): the supervisor goes to sleep for it.
NextDelay ==
  /\ policy = "Restart"
  /\ Used < MaxRestarts
  /\ windowStarted' = IF WindowOver THEN now ELSE windowStarted
  /\ restarts' = Used + 1
  /\ nextBackoff' = Doubled(Delay)
  /\ wakeAt' = now + Delay
  /\ grants' = Append(grants, [at |-> now, delay |-> Delay])
  /\ pc' = "backoff"
  /\ UNCHANGED result

\* next_delay returns None: the supervisor returns the worker's error.
NoDelay ==
  /\ policy = "Restart" => Used >= MaxRestarts
  /\ End("gave up")
  /\ UNCHANGED tracker

\* Deviation: a worker that returns Ok is taken at its word.
WorkerReturnsTrusted ==
  /\ pc = "working"
  /\ \/ End("ok") /\ UNCHANGED tracker
     \/ signal # "requested" /\ (NextDelay \/ NoDelay)
  /\ UNCHANGED <<policy, signal, now, late>>

\* Any worker that ends while the application runs has failed, with an error or
\* with none; after a shutdown request its result is not looked at.
WorkerReturns ==
  /\ pc = "working"
  /\ IF signal = "requested"
       THEN End("ok") /\ UNCHANGED tracker
       ELSE NextDelay \/ NoDelay
  /\ UNCHANGED <<policy, signal, now, late>>

\* Under HandlerPanicPolicy::Propagate a handler's panic unwinds this task too.
WorkerPanics ==
  /\ pc = "working"
  /\ End("panic")
  /\ UNCHANGED <<policy, signal, now, tracker, late>>

\* wait_backoff: the sleep is over ...
BackoffOver ==
  /\ pc = "backoff"
  /\ now >= wakeAt
  /\ pc' = "registering"
  /\ late' = IF signal = "requested" THEN late + 1 ELSE late
  /\ UNCHANGED <<policy, signal, result, now, tracker>>

\* ... or the channel changes, or is closed; with both the select picks either.
BackoffInterrupted ==
  /\ pc = "backoff"
  /\ signal # "running"
  /\ End("ok")
  /\ UNCHANGED <<policy, signal, now, tracker, late>>

\* register_request, subscribe or bind_consumer: the worker starts again ...
Registered ==
  /\ pc = "registering"
  /\ pc' = "working"
  /\ UNCHANGED <<policy, signal, result, now, tracker, late>>

\* ... or not, and `?` ends the supervisor, whatever is left of its budget.
RegistrationFailed ==
  /\ pc = "registering"
  /\ End("unregistered")
  /\ UNCHANGED <<policy, signal, now, tracker, late>>

Supervise ==
  \/ WorkerReturns
  \/ WorkerPanics
  \/ BackoffOver
  \/ BackoffInterrupted
  \/ Registered
  \/ RegistrationFailed

Terminated == pc = "ended" /\ UNCHANGED vars

Next == Tick \/ Signal \/ Abort \/ Supervise \/ Terminated

Spec == Init /\ [][Next]_vars

(***************************************************************************)
(* Liveness: the runtime polls the supervisor where it is suspended in the *)
(* backoff, a registration is answered, and a worker that is told to stop  *)
(* does (DrainEnds of the worker modules).  A worker may run for ever      *)
(* otherwise, and nothing is assumed of the clock.                         *)
(***************************************************************************)
FairSpec ==
  /\ Spec
  /\ WF_vars(BackoffOver \/ BackoffInterrupted)
  /\ WF_vars(Registered \/ RegistrationFailed)
  /\ WF_vars(signal = "requested" /\ WorkerReturns)
(* The supervisor as the runtime sees it: a task, and what becomes of it.  *)

Outcome ==
  CASE result = "none" -> "running"
    [] result = "panic" -> "panicked"
    [] result \in {"gave up", "unregistered"} -> "failed"
    [] OTHER -> result

Self == INSTANCE WorkerTask WITH watch <- signal, task <- Outcome

-----------------------------------------------------------------------------
(* Properties.                                                             *)

\* The budget of MaxRestarts is per window, and a window starts only with the
\* first failure after the last one: in no interval as long as the window are
\* more than twice MaxRestarts restarts granted (lines 712-722).
RestartRate ==
  \A i \in DOMAIN grants :
    i + 2 * MaxRestarts \in DOMAIN grants =>
      grants[i + 2 * MaxRestarts].at - grants[i].at > Window

\* A supervisor whose registrations succeed gives up only when MaxRestarts
\* restarts were granted to it within the last Window (lines 717-719).
GivesUpWhenExhausted ==
  (result = "gave up" /\ policy = "Restart") =>
    /\ Len(grants) >= MaxRestarts
    /\ now - grants[Len(grants) - MaxRestarts + 1].at <= Window

\* A restart is granted only when the delay granted before it is over (lines 727-734).
BackoffRespected ==
  \A i \in DOMAIN grants :
    i + 1 \in DOMAIN grants => grants[i + 1].at >= grants[i].at + grants[i].delay

\* Delays double from the initial to the maximal backoff, and no more than once in
\* a Window do they start anew (the first window starts with the supervisor).
BackoffGrows ==
  /\ \A i \in DOMAIN grants :
       i + 1 \in DOMAIN grants => grants[i + 1].delay \in {Doubled(grants[i].delay), InitialBackoff}
  /\ \A i, j \in {k \in DOMAIN grants : grants[k].delay = InitialBackoff} :
       (i < j /\ InitialBackoff < MaxBackoff) =>
         grants[j].at - (IF i = 1 THEN 0 ELSE grants[i].at) > Window

\* After a shutdown request the worker is started at most once more: the select of
\* wait_backoff may prefer a sleep that ended, but the worker started then stops
\* and its supervisor looks at the channel (lines 419-421, 441-444).
LateRestart == late <= 1

\* A supervisor returns Ok only for a shutdown: a worker that just ends, even with
\* Ok, is a failure (lines 419-427).
OkMeansShutdown == result = "ok" => signal # "running"

\* The supervisor keeps its contract with the runtime, restarts and backoffs included:
\* it ends once, and with Ok only when it was told to (lines 419-444).
ImplementsWorkerTask == Self!Spec

\* A shutdown request ends the supervisor from wherever it is.
StopsOnShutdown == (signal = "requested") ~> (pc = "ended")
=============================================================================
