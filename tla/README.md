# TLA+ project for nats-micro

nats-micro is a Rust framework for NATS services: an application declares services with
request endpoints, plain subscriptions and JetStream consumers, and the framework starts them,
keeps one worker per operation running, restarts workers that fail and takes everything down in
order. This directory holds TLA+ modules of its runtime, of what its macros generate, of its clients
with their encryption, and of the simulator, the transport and the live server its tests use, TLC
configurations that check them on small instances, and TLAPS proofs about them.

    tlc -workers 2 -config MCRequestWorker.cfg MCRequestWorker.tla
    tlapm RequestWorkerProofs.tla

`PROJECT.json` maps every definition to the source lines it models and lists the runs, the
deviations used to test the properties, the hazards, the findings and the theorems.

## 1. Inventory

Paths are relative to `nats-micro/src` unless they start with another crate.

| Component | State | Operations | What is hard |
|---|---|---|---|
| Request worker (`runtime/request_worker.rs`) | `in_flight`, `accepting`, the endpoint, two metrics | one biased select per turn: shutdown, completion, next request | admission racing the shutdown, a full worker, a failing reply with siblings in flight, panics |
| Subscription worker (`runtime/subscription_worker.rs`) | the same, with a subscriber | the same; `unsubscribe` on shutdown may fail | as above; a failed unsubscribe leaves at once |
| Consumer worker (`runtime/consumer_worker.rs`) | the same, with a JetStream message stream; per handler a progress interval | progress, settlement (Ack, Nak, delayed Nak, Term) | redelivery while a handler runs, a delivery that aged in the stream, lost settlements, draining while the server still delivers |
| Supervision (`app/typed_runtime.rs`: `supervise_*`, `RestartTracker`, `wait_backoff`) | restart count, window start, next backoff | run worker, grant or refuse a restart, sleep, register again | failures around the end of a window, a shutdown during the backoff, a registration that fails |
| Application (`app/typed.rs`, `Runtime` in `app/typed_runtime.rs`, `shutdown_signal.rs`) | shutdown channel, join handles, service handles, first failure | start, run, drain, abort, stop services, drain client; `RunningApp` | partial startup, abandoned startup, a drain that times out, a panicking hook, several failures at once |
| Configuration (`app/typed_config.rs`, `app/config.rs`) | data | `for_profile`, `validate`, `effective_concurrency` | values that would make the supervisor spin |
| Service set (`app/services.rs`) | validator's maps | `validate_all`, `start_all` | order of startup; conflicts between services |
| JetStream simulator and its loop (`nats-micro-testing/src/jetstream.rs`, `TestHarness::run_until_idle` in `testing.rs`) | queue, attempts, planned timeouts, dead letters | publish, next_due, consume_timeout, complete, advance | several loops at a time, retries overtaking, the last attempt |
| In-memory transport, event log, fault plan (`testing.rs`, `nats-micro-testing/src/lib.rs`) | planned faults, recorded events | start, publish, request, plan and clear faults | faults consumed by the wrong call or twice, overlapping routes |
| Typed client (`client/`) | the call being sent | call, publish, decoding of a reply | an absent value against an empty one, errors in the clear on encrypted operations |
| Encryption (`encryption/`) | keys, per-request context | build a request, prepare it, encrypt and decrypt the response | what is signed against what is verified, headers by reserved names, names that differ in case |
| Subjects (`subject.rs`) | data | match, extract, render | wildcards |
| Request, response, error, codec, extractors, auth, shared wire types | data | conversions | none that keeps state |
| Telemetry (`telemetry.rs`) | data | metric samples, spans | samples skipped when a future is dropped |
| Contract and deployment (`contract.rs`, `deployment.rs`) | data | derive, validate, render, compare | what one accepts and the other refuses |
| Live harness (`testing/live.rs`, `#[live_test]`) and server helper (`nats-server`) | who holds the server, its process, log, pid file and store; port and flags across restarts | start, restart, shutdown, drop | a start that fails half way, a drop on each kind of runtime, a timeout that strikes at awaits only, a blocking task nobody waits for |
| Service macro (`nats-micro-macros/src/service`) | the model of an impl block | classify, validate; generate specs, client, dispatch | two sides generated apart that must agree: subjects, codecs, absent values, authentication |
| Error macro (`nats-micro-macros/src/service_error`) | the model of an enum | validate; encode and decode an error | kinds that collide, details with fields missing, internal errors |
| Command line tool (`nats-micro-cli`) | none | prints contracts and deployments | |

Interactions. `App::start` registers services and spawns one supervisor task per worker; the
task owns its worker's future and calls it again after a failure. All tasks share one
`watch` channel for the shutdown. Handlers are futures inside the worker's task: they make
progress only when the worker polls them, and they disappear with it. `Runtime::run` awaits the
tasks' join handles; request supervisors share the service's registration with it through an
`Arc`. Consumers talk to a JetStream durable outside the program.

What makes each component correct:

* workers: never more handlers than the effective concurrency; nothing admitted once the
  shutdown is seen; no exit with `Ok` that dropped a message; every shutdown comes to its end;
* consumer: a message is settled by its handlers only, and not handled twice at a time as long
  as progress gets through;
* supervisor: a bounded rate of restarts, growing delays, no restart storm after a shutdown;
* application: the client is drained after everything that uses it, each registration stopped,
  the first failure reported, no task left behind;
* simulator: no delivery lost or doubled, dead letters exact, order of first attempts;
* transport and client: a request reaches the operation its subject means, a planned fault strikes
  one call, and the caller gets what the handler returned;
* macros: what they accept starts, the published authentication is the one that is enforced, and
  the generated client and the generated server understand each other;
* live harness: the server goes with the test that started it, not before the application is done
  with it except where it is named, and the test ends if the server answers;
* encryption: what was sealed for the service and not altered is accepted, nothing else is, and
  the handler reads what the caller gave.

## 2. Modules

| Module | Models | Remarks |
|---|---|---|
| `BoundedWorker` | the promise common to the three workers | abstract; four phases, three sets of messages |
| `WorkerTask` | the contract between the runtime and the task that owns a worker | abstract; the shutdown channel and what becomes of the task |
| `Lifecycle` | what an application promises its owner | abstract; phase, reasons to stop, who uses the connection, result |
| `DurableConsumer` | a durable consumer as its handlers know it | abstract; of each item where it is and how often it was delivered |
| `RequestWorker` | `runtime/request_worker.rs` | implements `BoundedWorker` |
| `SubscriptionWorker` | `runtime/subscription_worker.rs` | implements `BoundedWorker` |
| `ConsumerWorker` | `runtime/consumer_worker.rs` and an external durable | implements `BoundedWorker`, a delivery being its message |
| `Supervisor` | `supervise_*`, `RestartTracker`, `wait_backoff` | a worker is reduced to the ways it ends; implements `WorkerTask` |
| `AppRuntime` | `App::start`, `Runtime::run`, `RunningApp` | a worker's task is reduced to how the supervisor ends; implements `Lifecycle`, and `WorkerTask` with each worker |
| `JetStreamSimulator` | `jetstream.rs`, `run_until_idle` | implements `DurableConsumer` |
| `SealedMessage` | `encryption/`: `build_for_subject`, `prepare`, the header overlay, the response | operators, no state |
| `LocalTransport` | `TestApp::start`, `LocalTransport` and `FaultPlan`, and the `send()` of the clients | uses `SealedMessage` for encrypted operations |
| `LiveHarness` | `testing/live.rs`, one server of `nats-server`, the timeout of `#[live_test]` | the server process beside the test; the application as `AppRuntime` promises it |
| `ServiceMacro` | `#[service]`: model, validation, specs; `contract.rs`, `from_contract` of `deployment.rs` | operators |
| `ServiceError` | `#[service_error]`: validation, both directions of the wire | operators |
| `GeneratedService` | the generated client and dispatch around one call | extends `ServiceMacro`, uses `ServiceError` |
| `RequestWorkerProofs`, `SubscriptionWorkerProofs`, `ConsumerWorkerProofs`, `JetStreamSimulatorProofs`, `LiveHarnessProofs`, `LocalTransportProofs`, `GeneratedServiceProofs` | theorems | section 4; each extends the module it is named after |
| `ApplicationProofs` | theorems about `Supervisor` and `AppRuntime` | section 4; extends both |

The runtime is modelled in three layers. Each layer assumes of the one below what is checked
there: `Supervisor` lets a worker return at any time and, for liveness, assumes that one told to
stop does (`DrainEnds`); `AppRuntime` lets a supervisor end with `Ok` only after a shutdown
(`OkMeansShutdown`, proved) and, where it is named, that one told to stop does (`StopsOnShutdown`).
`WorkerTask` is the joint between the two upper layers: `Supervisor` implements it from within, `AppRuntime` with each
of its tasks from without, and `SupervisorFits` shows that what `AppRuntime` lets a task do is what a supervisor
does. `DurableConsumer` says what the simulator stands for in a test: a durable consumer, except that a delivery is lost
when its handler goes away, where a server would deliver again.

**Worker loops.** `pc` is the poll the loop makes next. A biased `select!` is not one step: the
poll of the channel (`PollSignal`), of the handlers (`Replied`, `Panicked`, ... or `NoneReady`)
and of the stream (`Admit`, `EndOfStream`, `Sleep`) are separate, because the channel may change
between them. The second select, which a full worker runs, is the same loop without the last
poll. Handlers are `running` until what they wait for arrives (`HandlerReady`) and finish at the
next poll. While the request worker awaits `endpoint.stop()` it polls no handler. A future that
is dropped takes its handlers with it (`DropAll`). A panic follows `HandlerPanicPolicy`. What a
handler computes is abstracted to when it returns and whether its reply, acknowledgement or
result makes the worker go on.

**Time.** `Supervisor` has a clock: a sleep may end late, not early. In `ConsumerWorker` only the
timers count: a tick is not taken while a handler in flight is ready or its progress is due, nor
while the server has an expired timer to act on. That is the assumption that the worker's task is
not starved for as long as a tick; without it no protocol of progress messages keeps a server
from redelivering. The simulator stores what is left of each delay.

**Messages.** Cryptography is symbolic in `SealedMessage`: a key is the pair of the service and the
call it was derived for, an envelope opens under its key, a signature is its key and transcript.
Kept exactly is which header is inserted over which, what the transcript takes from the headers
and what from the builder, and the order of the service's checks. A header map sends a name to
its values; only names whose spelling matters are told apart. In `LocalTransport` a call runs
in one step up to the next lock or suspension: a publication is two steps because the plan and the
log have a lock each, a request two because its handler may wait, be timed out, or be dropped.
The payload is the call it came from, so that an answer to another call would show. The event log is
a set because a call publishes once. The loop of `subject_matches` ends at the first token where it does not go on
(`Stop`), and returns what it has to there (`Matches`); a map the code fills service after service and that refuses a
key it has is `AllFresh`: the validator's two (`Validated`) and the simulator's, whose key is the durable name alone
(`Registered`). The model is of a build with `test-jetstream`, without which nothing is registered. A service tries its requests in order (`DispatchLocal`), and the services are asked in order (`RouteOf`).

**The live server.** `owner` is where the value of type `Server` lies: a blocking task, the frame of
`start`, the harness, a task that shuts down. Whoever drops it runs `DropServer`. A future that is
dropped drops its locals, so every way `start` can end early is `Unwind`: an error, a panic, the
timeout. A step of the test ends at an await or at a call that blocks its thread. While `client_url` or `client_port` waits
for INFO (`greeting` in `start`, `asking` in the body) the timeout cannot strike, the server need not answer,
and its death ends the read. The process makes its files and lines of its log when it likes, because `Drop for Server`
reads what to remove in the log.

**Generated code.** A type is the tuple of its names from the outside in, a subject a tuple of
tokens, an impl block a record with what the macro looks at: `ServiceMacro` is the macro's own
functions over them. `GeneratedService` runs the result: `Expand` refuses what the macro or rustc
refuses, the client calls or someone else sends, the server binds one argument a step in the order
of the method's signature, the handler returns or fails, the client decodes. A body is a value and
its codec, or no bytes; every type has a value that protobuf, raw bytes and text write as no bytes.
The macros' features are `json`, `protobuf` and `encryption`, without `napi`. An encrypted call that
reaches an encrypted operation is opened: `LocalTransport` has what can go wrong with that.

**Deviations.** Next to the actions stand variants of them, each a plausible slip (a dropped
guard, a missing reset). No specification uses them; each property the runs check is shown to fail when
one replaces its original, which tells that the property depends on the code.

## 3. Runs

| Run | Instance | Shows |
|---|---|---|
| `MCRequestWorker` | 3 requests, 2 slots, all panic policies; 106 k states | `LateAdmission` (at most one after the shutdown), `GaugeAccounting`, `ImplementsBoundedWorker`, `ShutdownSeen` with handlers that may hang, `DrainEnds` when they return |
| `MCRequestWorkerGauge`, `MCRequestWorkerRejected` | 2 requests | violations, section 5 |
| `MCSubscriptionWorker` | 3 messages, 2 slots; 39 k states | `ImplementsBoundedWorker`: the limit of handlers, late admissions, and an exit with Ok that dropped nothing in spite of failing handlers and unsubscribes |
| `MCConsumerWorker` | 1 message, 3 deliveries, 2 slots, `AckWait` 3, `Period` 1; 390 k states | `ImplementsBoundedWorker`, `OnlyHandlersSettle`, `NoOverlap`, `DrainEnds`, `EveryMessageSettles` |
| `MCSupervisor` | backoff 1 to 3, 2 restarts in a window of 9, 22 time units; 557 k states | `RestartRate`, `GivesUpWhenExhausted`, `BackoffGrows`, `ImplementsWorkerTask`, and `StopsOnShutdown` |
| `MCAppRuntime` | 2 services, 3 request workers, 1 consumer; 288 k states | `ImplementsLifecycle` (why it stops, in what order, and what it returns), `AbortsReported`, `NoOrphans`, `ShutdownCompletes`, `FailureStopsApp` |
| `MCJetStreamSimulator` | 2 runners, 2 durables, 3 copies; 65 k states | no copy lost or doubled, dead letters, order, `ImplementsDurable`; the run stops when the test has nothing left to do, so deadlock is not checked |
| `MCLocalTransport` | 2 calls of 18 shapes, 7 applications, 2 faults on 2 subjects; 192 k states (symmetric in the calls) | `RoutesExact` (validation, registration and dispatch against what patterns mean), `FaultsExact`, `HandlerSeesTheCall`, `RefusedOnlyForCause` (if and only if), `OutcomeIsTheHandlers` |
| `MCLocalTransportId` | the same | violation, section 5 |
| `MCLiveHarness` | 25 kinds of test, 2 ports, 2 restarts; 14 k states | `NothingLeft`, `UrlStays`, `ServerOutlivesApp`, `EveryTestEnds` |
| `MCGeneratedService` | 482 impl blocks, one call each; 63 k states; a call that is over stops the run, so deadlock is not checked | `AcceptedIsServable`, `AuthEnforced`, `ArgumentsArrive`, `ResponsesArrive`, `ErrorsArrive` |

Why the bounds are enough. The third request is the one that finds both slots taken; two slots
allow a sibling to be in flight when one handler fails. In the consumer the overlap of two
handlers needs one message and more than one slot, and with three deliveries the last ages in the
stream behind the two that hold the slots. In the supervisor, `RestartRate` relates grants that are
`2 * MaxRestarts` apart, which are 4 of the grants that fit into 22 units at a delay of 1 to 3,
over more than two windows. `MaxTime` is the only bound in its guards; `MaxTimeouts` (timeouts
planned at a time) the only one in the simulator. In the transport, calls meet only in the plan and
the log, so two calls and two faults show every order in which they are taken; each of the 18 shapes
puts a header in one more place (default, per call, sealed, twice, in another case, by a reserved
name) or breaks one thing (recipient, body, request id); the applications overlap their patterns, repeat a
subject or a durable, in one stream or two, name a stream that is not declared, or lack the key. `MaxFaults` bounds the faults planned in a test. `MaxRestarts` bounds the restarts of a live test:
the second is the first whose port was not read from the log. The impl blocks of `MCGeneratedService`
differ from a plain one in one part each: every kind of payload under every default codec, every
kind of response with and without an override, every policy against every set of arguments and
defaults, pairs of subjects that overlap, nest or repeat, and every attribute of an error's variant
beside a plain variant. The parts do not interact in the macro, except where two methods or two
variants are compared, and there the pairs are made for it. The run stops when
both calls have ended; the test can still clear the log, so there is no deadlock.

Fairness. `WF` on the loop of a worker, on `Run` of the application and on the steps of the
supervisor: tokio polls a task that was woken. `WF` on `HandlerReady`: handlers return; this is
the application's promise, so in `MCRequestWorker` it is a premise (`HandlersReturn`) of `DrainEnds`, and `ShutdownSeen` does without. `WF` on `Tick`, `Deliver` and `Expire`:
time passes and the server delivers. `WF` on `DeadlinePasses` and `Aborted`: a timer fires, and
an aborted task is dropped at its next suspension. The shutdown hook and the client's drain run
without a timeout in the code, so that they return is part of `FairSpec` of `AppRuntime` and not
a result. In `LiveHarness` a thread that is not blocked goes on, a read ends with its connection, and an
application that was told to stop does (`ShutdownCompletes`). The timer is strongly fair: a body that goes from one blocking
call to the next passes an await again and again. The body of the test and the server process owe nothing. That
`nats-server --version` ends and that who listens sends INFO is `ServerAnswers`, the premise of
`EveryTestEnds`: without either the test hangs (section 5). `WorkersStop` is a premise of `NoOrphans` alone.

## 4. Proofs

`RequestWorkerProofs`: for every finite set of requests, every concurrency and every panic policy,
type correctness, `ConcurrencyBound`, `LateAdmission`, `CleanExit`, `GaugeAccounting`, and that
the worker implements `BoundedWorker`. The inductive invariant says in addition where the loop
can be: at the stream poll the worker is accepting and has a free slot (which the poll of the
handlers may only enlarge), a request is late only if the stream poll is under way or done,
a worker that returned `Ok` has nothing in flight, and requests and gauge change together. The
bound does not follow from the test of the capacity alone: it needs that nothing is pushed
between the test and the stream poll. The refinement maps `accepting` and the result to the phase
of `BoundedWorker`; a reply that fails maps to `Break` with the request as the one that is
settled.

`ApplicationProofs`, the supervisor: for every configuration `validate` accepts (the assumption
`ConfigAssumption`), with no bound on the number of restarts and for every bound on the clock:
type correctness, `RestartRate`, `GivesUpWhenExhausted`, `BackoffGrows`, `BackoffRespected`,
`LateRestart`, `OkMeansShutdown`. None of the first four is inductive: the tracker keeps three
numbers and they speak of the history. The invariant ties the two together (`WindowInv`): the
last `restarts` grants lie in the window, the earlier ones before it, and all but the last
`MaxRestarts` of those more than a `Window` before its start. A new window can only begin more
than a `Window` after the last one began, which is why the pair of grants `2 * MaxRestarts` apart
is that far apart. `DelayInv` says that a delay equal to the initial one starts a window, because
doubling grows (`DoubledGrows`) below the maximum; `SleepInv` that the last delay was waited for.

`SubscriptionWorkerProofs`: for every finite set of messages and every concurrency, the limit, the
late admission, and that the worker implements `BoundedWorker`. The invariant is the request
worker's, without the gauge, and with the unsubscribe: a message whose handler failed, or that was
cancelled, is found only in a worker that did not return `Ok`, so the failed unsubscribe maps to
`Break` and never to a clean exit.

`ConsumerWorkerProofs`: for all messages, attempts, concurrencies and every `Period` below `AckWait`
(`ConsumerAssumption`), besides the limit, the clean exit and the refinement of `BoundedWorker` with
the deliveries as its messages: `OnlyHandlersSettle` and `NoOverlap`. The invariant has two halves.
`LoopInv` is the worker's alone. `ServerInv` ties the worker to the server: a delivery taken in time
is `Held`, that is, it is the last the server counted and the server will wait longer
(`timer`) than the worker until its next progress (`due`), or some delivery of its message was rejected.
`NoOverlap` is not inductive because it says nothing of the two timers; `Held` makes the later
of two deliveries impossible, since only one of them can be the last one counted. The refusal of a tick while
progress is due (section 2, Time) is where the proof uses that the worker's task is not starved.

`ApplicationProofs`, the runtime: for every startup order, set of services and of workers, `ClientDrainedLast`,
`ServicesReleased`, `AbortsReported` and `OkMeansAsked`. None of these speaks of a supervisor's state: the
module extends both `Supervisor` and `AppRuntime`, which name apart what they both have (`Spec`, `AppSpec`). The
invariant says of each stage what those before it have settled: from the stop of the services on no task is
alive, after it none is registered, and whatever brought the application down (its owner, a failed start, a
failure that is kept) is on record from the moment it begins to go down. `ServicesReleased` follows from the
first of these: the error branch for a registration that is still referenced cannot be reached.

`ApplicationProofs`, the refinements. `KeepsPromises`: `AppRuntime` implements `Lifecycle`. The mapping reads the
phase off the stage, the reasons off `asked`, `failedStart` and `failure`, and the users of the connection off the tasks and
registrations. `Stop` wants a reason that is on record and `Finish` that nobody uses the connection, both from
the invariant above; `HandleInv` adds that there is a handle to ask with only after a start that succeeded, and that
nothing is kept as a failure before. `RuntimeKeepsTasks`: every worker is spawned once, before any
request, and aborted only after one, which needs that a startup names each worker once (`StartupAssumption`) and that
those whose turn has not come are absent (`TaskInv`). `SupervisorKeepsTask` is the other side, and `SupervisorFits` puts the two together.
Its hypotheses are a supervisor's step and an application's state whose channel and task are the
supervisor's; an abort of the one is the abort of the other.

`LiveHarnessProofs`: for all tests, ports and numbers of restarts, `NothingLeft`, `UrlStays` and
`ServerOutlivesApp`, whose four exceptions are in its statement: `start` gives up on an application that is starting or
getting ready, the timeout strikes in `shutdown`, there is no runtime, or a runtime of one thread ends
over the task that should have waited. `AppInv` says where the test is while there is no application yet, and that a task holds the server on one thread only, which leaves no fifth. `OwnerInv` gives the owner of the server at each await; that it is the frame that
is unwound there is what makes one `DropServer` on each way out, and one only. `DiskInv` says that what the
harness believes of the log (`inner.keep`, the lines in it) agrees with what the process did to the disk. `PortInv` is inductive
only with the port the next process will be given: while one boots, `inner.port` is the port of the
first, which a restart asked the running process for if it was dynamic.

`JetStreamSimulatorProofs`: for any consumers, messages, runners and delays, without a bound on how
much is queued: `OnePlace`, `DeadLettersExact`, `FirstAttemptsInOrder`. `OnePlace` counts; what is inductive is that the
copies in the queue, with the runners and done with are three disjoint sets that make up `owed` (`PlaceInv`), none of them
twice in its place (`Distinct`, `RunnerInv`, `EndInv`), and that what was not published is nowhere: a message is published
once, so a new copy is like no other. The numbers follow from bijections. The order needs that a first attempt is due from the start
(`FirstInv`); then `next_due`, which takes the first that is due, cannot pass one by. That the
queue loses a copy in `Take` only is proved with each step (`Keeps`). `SimulatesDurable`: the simulator implements
`DurableConsumer`. `Place` says where a copy is; because the three places are disjoint and hold nothing twice (`Inv`), it
can be read off any one of them (`PlacesKnown`), and a step about one copy leaves the `Place` of every other alone (`Untouched`).
The limit needs `BoundInv`, that nothing is queued for an attempt beyond `max_deliver`: `next_due` does not look,
it relies on `retry` having looked.

`LocalTransportProofs`: for all applications, requests and calls at a time, everything the runs check of the transport:
`RoutesExact`, `FaultsExact`, `RefusedOnlyForCause`, `OutcomeIsTheHandlers` and `HandlerSeesTheCall`. The assumptions are
`ApplicationsAssumption`, which says what a service and its operations are (`>` is the last token of a subject or none,
which `validate_subject` sees to), and `RequestsAssumption`: header values are texts, and no
header is sealed by a reserved name, which `encrypted_header` refuses. `FrameHeaders` says what the builder makes of a call,
`SignatureMeans` what a frame that passes `Refusal` proves: it was signed for this service by
the owner of its ephemeral key, with its body and its id. From this every excuse leads to a refusal
(`ExcuseRefuses`), and without one each test of `Refusal` passes (`OnlyExcusesRefuse`). It also makes the keys of the reply
agree (`ReplyOpens`), so a call that reached its own operation never ends in `decrypt`. What a handler
sees is settled name by name (`HeadersGiven`): a sealed name is in the overlay in one of its spellings, with the last
value given for that spelling; any other name has the frame's value. The invariant has a part per call (`CallInv`), and a
step of one call leaves those of the others alone (`OneCall`).

For the routes three loops had to be understood for sequences of any length. `MatchesMeans`: what
`subject_matches` returns where it stops is what the pattern means. `RouteIsFirst`: the loops of `dispatch` and
`dispatch_local` together find the first operation that takes the subject. `StartableIsUnique`: the three loops of the startup, which fail at the first
repetition they meet in their maps, accept services in which no two places hold the same, and no others; that durable names
are unique makes the validator's pairs of stream and durable unique too. That needs induction over the services,
which the library's theorems cannot give here (they take an operator); `LeastExists`, from the well-foundedness of the
numbers, gives it for sets (`Inductively`) and for recursive functions (`Recursively`). For the faults `PlanInv` keeps the plan's books: the ids
waiting are in increasing order, so the first fault that is due is the least, and what has struck for an operation and
subject is below whatever waits for it. `FaultsExact` alone is not inductive, because it says nothing of that order.
`Own` says of a call why it failed: by its fault, by its timeout, or because there was no route for its subject.

`GeneratedServiceProofs`: for all impl blocks, enums of errors, tokens and error values (`ServicesAssumption`),
everything the runs check of the generated code: `AcceptedIsServable`, `AuthEnforced`, `ArgumentsArrive`,
`ResponsesArrive` and `ErrorsArrive`. The five compare what one side gives with what the other side gets, so the
invariant says where every value of a call comes from: the request is what the client's method makes of the caller's arguments
(`Sends`), what is bound is what the extractors make of that request (`Binds`), and the reply is what the dispatch makes
of the handler's outcome (`Handles`). The first two theorems rest on what `Expand` accepts: the validations of the macro imply
each test that the application's start makes of the specs. `ArgumentsArrive` is about two walks over the same
template: the client replaces a segment by a value, the server takes the token at the parameter's first position.
`Flattened` shows that a subject with as many tokens as its template has segments was made of values
of one token each; the names of the parameters are distinct, so the first position is the only one (`SegmentOf`).
`ResponsesArrive` is `WrittenIsRead`, that each codec reads what it wrote, with no bytes where the type allows them.
`ErrorsArrive` needs the kinds of the variants to differ (`KindsDiffer`), so that the first arm that fits is the
variant's own (`ArmOfVariant`), and that every field is found under its own name (`FieldsArrive`).

Every invariant the runs check is stated by one of these theorems, and every action property and refinement too. Some
theorems state more than the runs ask: `ClientDrainedLast`, `ServicesReleased` and `OkMeansAsked`, which `ImplementsLifecycle`
takes in (a run that breaks one of them breaks it), `KeepsWorkerTasks`, and `ConcurrencyBound`, `CleanExit`,
`BackoffRespected`, `LateRestart` and `OkMeansShutdown`. Only
model-checked are the liveness properties (`DrainEnds`, `ShutdownSeen`, `EveryMessageSettles`, `StopsOnShutdown`,
`ShutdownCompletes`, `FailureStopsApp`, `NoOrphans`, `EveryCopySettles`, `EveryTestEnds`), since liveness under fairness is out of the prover's reach.

## 5. Findings

* The gauge `nats_micro.requests.in_flight` is decremented after the handler in the handler's own
  future (`request_worker.rs:234`). A panic that the worker survives under `LogAndContinue`, and
  every handler dropped with its worker, leaves it too high for good (`MCRequestWorkerGauge`).
  What it does measure is `GaugeAccounting`.
* The counter `nats_micro.requests.rejected_over_capacity` counts requests that are served: the
  test comes after the request's own admission, and a full worker refuses nothing
  (`MCRequestWorkerRejected`).
* An encrypted call whose `x-request-id` is not well formed is refused as `SignatureInvalid`: the
  client signs the header as it stands (`encryption/mod.rs:631`), the service verifies with
  `request_id().existing()`, which drops the id (`encryption/request.rs:87`). A plain call with the
  same id is served under a generated one, as the test at `request.rs:237` has it for invalid
  values (`MCLocalTransportId`).

Met on the way, where no document says otherwise:

* A registration that fails once during a restart ends the supervisor with budget left.
* Under a backoff list the server waits `backoff[0]`, from which the progress period is not computed.
* After `restart()`, `client_url` reads the first address in a log that the new process appends to:
  it may connect before the new process listens, and panics. The address is polled for 50 seconds
  (100 times 500 ms), the comment says 10. A store that the process made and did not log is left behind;
  if the directory the server logs lies inside `--store_dir`, so is the empty directory around it.
* `client_url`, `client_port` (`lib.rs:84`, `98`) and `is_server_available` (`lib.rs:159`) block the test's thread without a
  limit. A server that listens and sends no INFO hangs a live test for good: its timeout strikes at awaits only.
* On a runtime of one thread a harness dropped without `shutdown()` leaves the server to a task
  (`live.rs:289`) that goes with the runtime; the application is then cut off, not drained.
* The simulator refuses a durable name used in two streams, which `ServiceSetValidator` accepts
  (`jetstream.rs:154`, `services.rs:121`): such an application starts, but not under test.
* Neither the macro nor `ContractDocument::validate` looks for two consumers with one stream and
  durable; only `ServiceSetValidator` does, when the application starts.
* A value with dots in a parameter changes the number of tokens of the subject: the call reaches
  another operation or none (`ArgumentsArrive` says no more than that).
* An optional payload that encodes to no bytes (`Some("")`, an empty protobuf message) arrives as
  `None`: requests have no header for an absent value, responses do.
* A `response = ()` over a handler that returns something else sends no bytes. A response that borrows needs an override
  (`validate.rs:360`), but the test looks for a reference inside `Option` only: `Encrypted<&'static ()>` is accepted,
  sends no bytes too, and there the client reads JSON (`ResponsesArrive` excludes both by their wire type).
* The client types an error by its code and kind alone. A framework error that has those of a
  variant (403 `FORBIDDEN`, say) is read as the variant, which the handler never returned. The
  instance has no such enum.
* An `#[error("...")]` text with the word `code` in it is taken for options and refused.

## 6. What is not modelled, and what would come next

Not modelled: the command line tool, which prints what others compute; `run_cluster` of the server
helper, three servers that keep no more state than one; the napi client, texts of errors and the
syntax of attributes in the macros; rendering and comparison of deployments; the profiles of
`typed_config.rs` (values of `Supervisor`'s constants) and `effective_concurrency`; the NATS
transport of the client; tracing, spans and the metrics other than the two above; the cryptography
itself. `status` in `PROJECT.json` has the details.

Next, in this order:

1. `BoundConsumer`: `bind_consumer` with the consumer worker and the supervisor, restarts while
   the durable keeps its count, and the progress period against `backoff[0]`.
2. Compatibility of two deployments as operators, against what a durable keeps of its configuration.
3. A composition of `AppRuntime` with one `Supervisor` for each worker, over `SupervisorFits`, in which
   `StopsOnShutdown` replaces the premise `WorkersStop`.
