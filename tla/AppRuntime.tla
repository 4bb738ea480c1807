------------------------------ MODULE AppRuntime ------------------------------
(***************************************************************************)
(* The life of an application: App::start (app/typed.rs) runs the startup  *)
(* hook, registers the services and spawns their workers; Runtime::run     *)
(* (app/typed_runtime.rs) watches the workers until a shutdown, then runs  *)
(* the shutdown hook, drains the workers up to a deadline, stops the       *)
(* services and drains the client; RunningApp is its owner's handle.       *)
(*                                                                         *)
(* A worker is the task of Supervisor, reduced to how it can end.  What    *)
(* Supervisor has too is named for the application here (AppInit, ...), so *)
(* that one module can be about both.                                      *)
(***************************************************************************)
EXTENDS Integers, Sequences, FiniteSets

CONSTANTS Workers,       \* the workers of all services
          Services,      \* the service registrations
          Startup,       \* the order in which start_all registers and spawns them
          ServiceOf,     \* the registration a request worker holds, or None
          None,
          WorkerFailures \* the values of AppConfig.worker_failure to consider

\* start_all starts a service before the workers of that service, each once.
ASSUME StartupAssumption ==
  /\ IsFiniteSet(Workers)
  /\ IsFiniteSet(Services)
  /\ Workers \cap Services = {}
  /\ None \notin Services
  /\ Startup \in Seq(Workers \cup Services)
  /\ \A i, j \in DOMAIN Startup : Startup[i] = Startup[j] => i = j
  /\ ServiceOf \in [Workers -> Services \cup {None}]
  /\ WorkerFailures \subseteq {"Ignore", "ShutdownApp", "Restart"}

VARIABLES
  workerFailure, \* AppConfig.worker_failure; never changes
  stage,     \* how far start and run have come
  startedTo, \* how many steps of Startup are done
  starting,  \* App::start has not returned, so its future may be dropped
  failedStart, \* App::start will return an error
  shutdown,  \* the shutdown watch: "running", "requested", "draining" or "closed"
  task,      \* what has become of each worker's task
  joined,    \* workers whose JoinHandle the runtime has seen end
  expired,   \* the drain deadline has passed
  service,   \* what has become of each service registration
  client,    \* "open" or "drained"
  failure,   \* first_failure: where it came from
  asked      \* the owner asked for the shutdown

appVars == <<workerFailure, stage, startedTo, starting, failedStart, shutdown, task, joined,
          expired, service, client, failure, asked>>

Stages == {"hook", "starting", "running", "shutdownHook", "draining", "aborting",
           "stopping", "draining client", "done", "dropped"}
Alive == {"running", "aborting"}   \* the tasks that hold what they captured
Ended == {"ok", "failed", "panicked", "aborted"}
With(S) == {w \in Workers : task[w] \in S}
Holders(s) == {w \in With(Alive) : ServiceOf[w] = s}

AppTypeOK ==
  /\ workerFailure \in WorkerFailures
  /\ stage \in Stages
  /\ startedTo \in 0..Len(Startup)
  /\ starting \in BOOLEAN
  /\ failedStart \in BOOLEAN
  /\ shutdown \in {"running", "requested", "draining", "closed"}
  /\ task \in [Workers -> {"absent"} \cup Alive \cup Ended]
  /\ joined \in SUBSET Workers
  /\ expired \in BOOLEAN
  /\ service \in [Services -> {"absent", "registered", "stopped", "referenced", "dropped"}]
  /\ client \in {"open", "drained"}
  /\ failure \in {"none", "worker", "hook", "drain", "service", "client"}
  /\ asked \in BOOLEAN

AppInit ==
  /\ workerFailure \in WorkerFailures
  /\ stage = "hook"
  /\ startedTo = 0
  /\ starting = TRUE
  /\ failedStart = FALSE
  /\ shutdown = "running"
  /\ task = [w \in Workers |-> "absent"]
  /\ joined = {}
  /\ expired = FALSE
  /\ service = [s \in Services |-> "absent"]
  /\ client = "open"
  /\ failure = "none"
  /\ asked = FALSE

Requested == shutdown \in {"requested", "draining"}
First(f) == IF failure = "none" THEN f ELSE failure
-----------------------------------------------------------------------------
(* Deviations: slips the properties must tell from the code; no action of  *)
(* the specification uses them.                                            *)

\* The timeout is not reported when the tasks are gone.
AbortUnreported ==
  /\ stage = "aborting"
  /\ With(Alive) = {}
  /\ stage' = "stopping"
  /\ UNCHANGED <<workerFailure, startedTo, starting, failedStart, shutdown, task, joined, expired,
                 service, client, failure, asked>>

\* The timeout is that of one wait: the next wait starts with a new deadline.
DrainTimeoutRenewed ==
  /\ stage = "draining"
  /\ expired
  /\ ~(With(Alive \cup Ended) \subseteq joined)
  /\ expired' = FALSE
  /\ UNCHANGED <<workerFailure, stage, startedTo, starting, failedStart, shutdown, task, joined,
                 service, client, failure, asked>>

\* Only ShutdownApp is acted upon, Restart is left to the supervisors.
JoinRestartIgnored(w) ==
  /\ stage = "running"
  /\ ~Requested
  /\ task[w] \in Ended
  /\ w \notin joined
  /\ joined' = joined \cup {w}
  /\ IF workerFailure # "ShutdownApp"
       THEN UNCHANGED <<stage, shutdown, failure>>
       ELSE stage' = "shutdownHook" /\ shutdown' = "requested" /\ failure' = "worker"
  /\ UNCHANGED <<workerFailure, startedTo, starting, failedStart, task, expired, service, client, asked>>

\* A hook that succeeds covers up the failure that brought the application down.
HookDoneForgetting ==
  /\ stage = "shutdownHook"
  /\ failure' \in {"none", First("hook")}
  /\ stage' = "draining"
  /\ shutdown' = "draining"
  /\ UNCHANGED <<workerFailure, startedTo, starting, failedStart, task, joined, expired, service, client, asked>>

\* The workers of a failed start are not told to stop when the runtime is dropped.
DropRuntimeUnsignalled ==
  /\ stage' = "dropped"
  /\ service' = [s \in Services |-> IF service[s] = "registered" THEN "dropped" ELSE service[s]]
  /\ UNCHANGED <<workerFailure, startedTo, starting, failedStart, shutdown, task, joined, expired,
                 client, failure, asked>>
-----------------------------------------------------------------------------
(* App::start.                                                             *)

\* A startup hook or start_all that fails or times out: shutdown_after_failed_start.
\* Its run() starts with the shutdown requested.
FailStart ==
  /\ failedStart' = TRUE
  /\ shutdown' = "requested"
  /\ stage' = "running"
  /\ UNCHANGED <<workerFailure, startedTo, starting, task, joined, expired, service, client, failure, asked>>

StartupHookDone ==
  /\ stage = "hook"
  /\ stage' = "starting"
  /\ UNCHANGED <<workerFailure, startedTo, starting, failedStart, shutdown, task, joined, expired,
                 service, client, failure, asked>>

StartupHookFailed == stage = "hook" /\ FailStart

\* start_service, or a spawn_ function: registered with the server, then spawned.
StartNext ==
  /\ stage = "starting"
  /\ startedTo < Len(Startup)
  /\ LET x == Startup[startedTo + 1]
     IN  IF x \in Services
           THEN service' = [service EXCEPT ![x] = "registered"] /\ UNCHANGED task
           ELSE task' = [task EXCEPT ![x] = "running"] /\ UNCHANGED service
  /\ startedTo' = startedTo + 1
  /\ UNCHANGED <<workerFailure, stage, starting, failedStart, shutdown, joined, expired, client, failure, asked>>

StartFailed == stage = "starting" /\ FailStart

\* App::start spawns run() and returns the handle.
StartDone ==
  /\ stage = "starting"
  /\ startedTo = Len(Startup)
  /\ stage' = "running"
  /\ starting' = FALSE
  /\ UNCHANGED <<workerFailure, startedTo, failedStart, shutdown, task, joined, expired, service,
                 client, failure, asked>>

\* The Runtime is dropped: the JoinHandles in it detach their tasks, the services
\* lose its reference, and the shutdown channel the last of its senders.
DropRuntime ==
  /\ stage' = "dropped"
  /\ shutdown' = IF shutdown = "running" THEN "closed" ELSE shutdown
  /\ service' = [s \in Services |-> IF service[s] = "registered" THEN "dropped" ELSE service[s]]
  /\ UNCHANGED <<workerFailure, startedTo, starting, failedStart, task, joined, expired, client, failure, asked>>

\* The caller gives up on the future of App::start.
StartAbandoned ==
  /\ starting
  /\ stage \notin {"done", "dropped"}
  /\ DropRuntime
-----------------------------------------------------------------------------
(* The workers and the owner.                                              *)

\* A supervisor returns Ok only for a shutdown (OkMeansShutdown in Supervisor).
WorkerEnds(w, how) ==
  /\ task[w] \in Alive
  /\ how = "ok" => shutdown # "running"
  /\ task' = [task EXCEPT ![w] = how]
  /\ UNCHANGED <<workerFailure, stage, startedTo, starting, failedStart, shutdown, joined, expired,
                 service, client, failure, asked>>

\* A task that was told to abort does so where it is suspended.
Aborted(w) ==
  /\ task[w] = "aborting"
  /\ task' = [task EXCEPT ![w] = "aborted"]
  /\ UNCHANGED <<workerFailure, stage, startedTo, starting, failedStart, shutdown, joined, expired,
                 service, client, failure, asked>>

\* RunningApp::shutdown, or the shutdown signal of run_until.  It overwrites
\* whatever the channel holds, a draining state included.
RequestShutdown ==
  /\ ~starting /\ ~asked
  /\ asked' = TRUE
  /\ shutdown' = "requested"
  /\ UNCHANGED <<workerFailure, stage, startedTo, starting, failedStart, task, joined, expired,
                 service, client, failure>>

DeadlinePasses ==
  /\ stage = "draining"
  /\ ~expired
  /\ expired' = TRUE
  /\ UNCHANGED <<workerFailure, stage, startedTo, starting, failedStart, shutdown, task, joined,
                 service, client, failure, asked>>
-----------------------------------------------------------------------------
(* Runtime::run.                                                           *)

\* The loop sees the shutdown, at its top or in the select.
SeeShutdown ==
  /\ stage = "running"
  /\ Requested
  /\ stage' = "shutdownHook"
  /\ UNCHANGED <<workerFailure, startedTo, starting, failedStart, shutdown, task, joined, expired,
                 service, client, failure, asked>>

\* A worker has ended, which is a failure whatever it returned: a panicked task too.
Join(w) ==
  /\ stage = "running"
  /\ ~Requested
  /\ task[w] \in Ended
  /\ w \notin joined
  /\ joined' = joined \cup {w}
  /\ IF workerFailure = "Ignore"
       THEN UNCHANGED <<stage, shutdown, failure>>
       ELSE stage' = "shutdownHook" /\ shutdown' = "requested" /\ failure' = "worker"
  /\ UNCHANGED <<workerFailure, startedTo, starting, failedStart, task, expired, service, client, asked>>

\* ... but when the shutdown came in between, its failure is thrown away.
JoinDiscarded(w) ==
  /\ stage = "running"
  /\ Requested
  /\ task[w] \in Ended
  /\ w \notin joined
  /\ joined' = joined \cup {w}
  /\ stage' = "shutdownHook"
  /\ UNCHANGED <<workerFailure, startedTo, starting, failedStart, shutdown, task, expired, service,
                 client, failure, asked>>

\* The shutdown hook returns, with or without an error; the deadline starts now.
HookDone ==
  /\ stage = "shutdownHook"
  /\ failure' \in {failure, First("hook")}
  /\ stage' = "draining"
  /\ shutdown' = "draining"
  /\ UNCHANGED <<workerFailure, startedTo, starting, failedStart, task, joined, expired, service, client, asked>>

\* ... or panics, and unwinds run().
HookPanics == stage = "shutdownHook" /\ DropRuntime

\* drain_workers: what a worker returns now is not looked at.
DrainJoin(w) ==
  /\ stage = "draining"
  /\ ~expired
  /\ task[w] \in Ended
  /\ w \notin joined
  /\ joined' = joined \cup {w}
  /\ UNCHANGED <<workerFailure, stage, startedTo, starting, failedStart, shutdown, task, expired,
                 service, client, failure, asked>>

Drained ==
  /\ stage = "draining"
  /\ With(Alive \cup Ended) \subseteq joined
  /\ stage' = "stopping"
  /\ UNCHANGED <<workerFailure, startedTo, starting, failedStart, shutdown, task, joined, expired,
                 service, client, failure, asked>>

DrainTimeout ==
  /\ stage = "draining"
  /\ expired
  /\ ~(With(Alive \cup Ended) \subseteq joined)
  /\ task' = [w \in Workers |-> IF task[w] = "running" THEN "aborting" ELSE task[w]]
  /\ stage' = "aborting"
  /\ UNCHANGED <<workerFailure, startedTo, starting, failedStart, shutdown, joined, expired,
                 service, client, failure, asked>>

\* The JoinHandles of the aborted tasks are awaited to the last.
AbortDone ==
  /\ stage = "aborting"
  /\ With(Alive) = {}
  /\ joined' = With(Ended)
  /\ stage' = "stopping"
  /\ failure' = First("drain")
  /\ UNCHANGED <<workerFailure, startedTo, starting, failedStart, shutdown, task, expired, service, client, asked>>

\* Arc::try_unwrap succeeds when nobody else holds the registration; the error of
\* its stop() is only logged.
StopService(s) ==
  /\ stage = "stopping"
  /\ service[s] = "registered"
  /\ IF Holders(s) = {}
       THEN service' = [service EXCEPT ![s] = "stopped"] /\ UNCHANGED failure
       ELSE service' = [service EXCEPT ![s] = "referenced"] /\ failure' = First("service")
  /\ UNCHANGED <<workerFailure, stage, startedTo, starting, failedStart, shutdown, task, joined,
                 expired, client, asked>>

ServicesStopped ==
  /\ stage = "stopping"
  /\ \A s \in Services : service[s] # "registered"
  /\ stage' = "draining client"
  /\ UNCHANGED <<workerFailure, startedTo, starting, failedStart, shutdown, task, joined, expired,
                 service, client, failure, asked>>

DrainClient ==
  /\ stage = "draining client"
  /\ failure' \in {failure, First("client")}
  /\ client' = "drained"
  /\ stage' = "done"
  /\ UNCHANGED <<workerFailure, startedTo, starting, failedStart, shutdown, task, joined, expired, service, asked>>
-----------------------------------------------------------------------------
Start == StartupHookDone \/ StartupHookFailed \/ StartNext \/ StartFailed \/ StartDone \/ StartAbandoned

Run ==
  \/ SeeShutdown
  \/ \E w \in Workers : Join(w) \/ JoinDiscarded(w) \/ DrainJoin(w)
  \/ HookDone \/ HookPanics
  \/ Drained \/ DrainTimeout \/ AbortDone
  \/ \E s \in Services : StopService(s)
  \/ ServicesStopped
  \/ DrainClient

Surroundings ==
  \/ \E w \in Workers, how \in {"ok", "failed", "panicked"} : WorkerEnds(w, how)
  \/ \E w \in Workers : Aborted(w)
  \/ RequestShutdown
  \/ DeadlinePasses

AppTerminated == stage \in {"done", "dropped"} /\ With(Alive) = {} /\ UNCHANGED appVars

AppNext == Start \/ Run \/ Surroundings \/ AppTerminated

AppSpec == AppInit /\ [][AppNext]_appVars

(***************************************************************************)
(* Liveness.  Tokio polls run(), the clock reaches the deadline, and an    *)
(* aborted task goes away at its next suspension: FairSpec.  It includes   *)
(* that the shutdown hook and the client's drain return, which nothing     *)
(* enforces: they run without a timeout.  That workers stop when they are  *)
(* told to (StopsOnShutdown of Supervisor) is assumed only where named.    *)
(***************************************************************************)
AppFairSpec ==
  /\ AppSpec
  /\ WF_appVars(Run)
  /\ WF_appVars(DeadlinePasses)
  /\ \A w \in Workers : WF_appVars(Aborted(w))

WorkersStop ==
  \A w \in Workers : WF_appVars(shutdown # "running" /\ \E how \in {"ok", "failed", "panicked"} : WorkerEnds(w, how))
-----------------------------------------------------------------------------
(* The application as its owner sees it.                                   *)

Phase ==
  IF stage \in {"hook", "starting"} THEN "starting"
  ELSE IF stage = "running" /\ ~failedStart THEN "serving"
  ELSE IF stage = "done" THEN "stopped"
  ELSE IF stage = "dropped" THEN "dropped"
  ELSE "stopping"

Blame ==
  {c \in {"owner", "start", "failure"} :
     \/ c = "owner" /\ asked
     \/ c = "start" /\ failedStart
     \/ c = "failure" /\ failure # "none"}

\* A registration that its task still refers to when it is to be stopped is not stopped.
InUse == With(Alive) \cup {s \in Services : service[s] \in {"registered", "referenced"}}

\* What run() returns; App::start returns an error of its own.
Returned ==
  IF stage # "done" THEN "none" ELSE IF failedStart \/ failure # "none" THEN "error" ELSE "ok"

Owner == INSTANCE Lifecycle WITH
           Users <- Workers \cup Services,
           phase <- Phase,
           blame <- Blame,
           users <- InUse,
           connection <- client,
           result <- Returned

\* ... and as one of its workers sees it: a receiver of the channel, and a task.
Channel == IF shutdown = "draining" THEN "requested" ELSE shutdown

Worker(w) == INSTANCE WorkerTask WITH
               watch <- Channel,
               task <- IF task[w] = "aborting" THEN "running" ELSE task[w]

-----------------------------------------------------------------------------
(* Properties.                                                             *)

\* Nothing uses the connection any more when the client is drained: no task is
\* left and no service is registered, after a failed start too (lines 309-334).
ClientDrainedLast ==
  client = "drained" => /\ With(Alive) = {}
                        /\ \A s \in Services : service[s] # "registered"

\* The error branch of Arc::try_unwrap is dead: when the services are stopped, each
\* supervisor has given up its reference, however it ended (lines 318-333).
ServicesReleased == \A s \in Services : service[s] # "referenced"

\* Only a worker that outlived the drain deadline is aborted, and an application
\* that aborted one does not end in Ok.
AbortsReported ==
  With({"aborting", "aborted"}) # {} =>
    /\ expired
    /\ stage \in {"stopping", "draining client", "done"} => failure # "none"

\* An application that started returns Ok only when its owner asked it to stop: it
\* never goes down on its own and calls that a success (lines 278-289).
OkMeansAsked == (stage = "done" /\ ~failedStart /\ failure = "none") => asked

\* What the owner is promised: no stop without a reason, no reason forgotten, nobody on
\* a connection that is drained, and no drop in the middle of serving (lines 240-348).
ImplementsLifecycle == Owner!Spec

\* What the runtime promises each worker: it is spawned once and before any shutdown,
\* no request is taken back, and none is aborted that was not asked first (lines 240-348).
KeepsWorkerTasks ==
  /\ \A w \in Workers : Worker(w)!Init
  /\ [][\A w \in Workers : [Worker(w)!Next]_(Worker(w)!vars)]_appVars

\* A requested shutdown comes to its end whatever the workers do.
ShutdownCompletes ==
  (stage = "running" /\ Requested) ~> (stage \in {"done", "dropped"})

\* Unless failures are ignored, one worker that ends for good takes the running
\* application down with it.
FailureStopsApp ==
  (stage = "running" /\ workerFailure # "Ignore" /\ With(Ended) # {}) ~> (stage \in {"done", "dropped"})

\* If workers stop when told to, none survives its runtime, not even when App::start is abandoned half way
\* or the shutdown hook panics.
NoOrphans == WorkersStop => ((stage \in {"done", "dropped"}) ~> (With(Alive) = {}))
=============================================================================
