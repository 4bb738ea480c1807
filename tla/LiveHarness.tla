------------------------------ MODULE LiveHarness ------------------------------
(***************************************************************************)
(* One live test: LiveTestApp::start and the harness (testing/live.rs), the *)
(* server it starts (nats-server/src/lib.rs) with its process and files,    *)
(* and the timeout #[live_test] puts around the body.  The process runs     *)
(* beside the test: it makes its files and lines of its log when it likes.  *)
(* Of the application only what the harness sees of AppRuntime is left.     *)
(* A step of the test reaches to its next await or to the next call that    *)
(* blocks its thread; the timeout strikes at awaits only.                   *)
(***************************************************************************)
EXTENDS Integers, Sequences, FiniteSets, SequencesExt

CONSTANTS Tests,       \* flavour, services, flags: see MCLiveHarness
          Ports,       \* ports the system may hand out
          MaxRestarts, \* bound: restarts a test asks for
          None

ASSUME HarnessAssumption ==
  \A t \in Tests : t.flavour \in {"multi_thread", "current_thread", "outside"} /\ t.keepLogs \in BOOLEAN

VARIABLES
  test,    \* what the test is; never changes
  phase,   \* where its future is
  verdict, \* how its body ended, "pending" before
  owner,   \* who holds the Server: a frame, the harness, a task; "no one" once dropped
  proc,    \* the child: "none", "booting", "listening" or "dead"
  bound,   \* the port it listens on
  files,   \* what exists of {"log", "pid", "store"}
  log,     \* lines the processes have logged: "store" and "client"
  streams, \* what the store holds: the subjects of each stream
  inner,   \* Server.inner: port and keep_logs
  url,     \* port in server_url
  app,     \* the application: "none", "running", "draining", "done" or "cut off"
  asked,   \* did the test last ask to keep the log? (history)
  restarts

disk == <<files, log, streams>>
vars == <<test, phase, verdict, owner, proc, bound, disk, inner, url, app, asked, restarts>>

Awaiting == {"spawning", "connecting", "creating", "starting", "readying", "body", "shutting"}

\* client_url or client_port is connected and waits for INFO: in start(), in the body.
Reading == {"greeting", "asking"}

TypeOK ==
  /\ test \in Tests
  /\ phase \in Awaiting \cup Reading \cup {"probing", "locating", "restarting", "dropping", "over", "gone"}
  /\ verdict \in {"pending", "ok", "error", "skipped", "panic", "timeout"}
  /\ owner \in {"no one", "blocking task", "start", "harness", "shutdown task"}
  /\ proc \in {"none", "booting", "listening", "dead"}
  /\ bound \in Ports \cup {None}
  /\ files \subseteq {"log", "pid", "store"}
  /\ log \subseteq {"store", "client"}
  /\ inner \in [port : Ports \cup {None}, keep : BOOLEAN]
  /\ url \in Ports \cup {None}
  /\ app \in {"none", "running", "draining", "done", "cut off"}
  /\ restarts \in 0..MaxRestarts

Init ==
  /\ test \in Tests
  /\ phase = "probing"
  /\ verdict = "pending"
  /\ owner = "no one"
  /\ proc = "none"
  /\ bound = None
  /\ files = {}
  /\ log = {}
  /\ streams = << >>
  /\ inner = [port |-> None, keep |-> FALSE]
  /\ url = None
  /\ app = "none"
  /\ asked = test.keepLogs
  /\ restarts = 0
-----------------------------------------------------------------------------
(* The services' streams.                                                  *)

AddConsumer(map, consumer) ==
  [s \in DOMAIN map \cup {consumer.stream} |->
    (IF s \in DOMAIN map THEN map[s] ELSE {})
      \cup (IF s = consumer.stream THEN {consumer.filter} ELSE {})]

\* collect_streams over the set of services.
Collected == FoldLeft(AddConsumer, << >>, FlattenSeq(test.services))

WithJetStream == test.jetstream \/ DOMAIN Collected # {}
-----------------------------------------------------------------------------
(* The end of a Server, and of whoever holds it.                           *)

\* Drop for Server: kill, wait, clean up what the log names.
DropServer ==
  /\ proc' = IF proc = "none" THEN proc ELSE "dead"
  /\ bound' = None
  /\ files' = files \ ({"pid"} \cup (IF inner.keep THEN {} ELSE {"log"})
                               \cup (IF "store" \in log THEN {"store"} ELSE {}))
  /\ streams' = IF "store" \in log THEN << >> ELSE streams
  /\ owner' = "no one"
  /\ UNCHANGED <<log, inner>>

HoldServer == UNCHANGED <<owner, proc, bound, disk, inner>>

\* request_shutdown, and the drop of a RunningApp: what still runs is told to stop.
AskApp == app' = IF app = "running" THEN "draining" ELSE app

\* Deviation: the harness lets go of the server before it waits.
DropHarnessServerFirst ==
  CASE test.flavour = "multi_thread" -> DropServer /\ phase' = "dropping"
    [] test.flavour = "current_thread" ->
         /\ owner' = "shutdown task"
         /\ phase' = "over"
         /\ UNCHANGED <<proc, bound, disk, inner>>
    [] OTHER -> DropServer /\ phase' = "over"

\* Drop for LiveTestHarness with its application: on a runtime with several threads it blocks, on
\* one thread a task does the rest, without a runtime the server goes at once.
DropHarness ==
  CASE test.flavour = "multi_thread" -> HoldServer /\ phase' = "dropping"
    [] test.flavour = "current_thread" ->
         /\ owner' = "shutdown task"
         /\ phase' = "over"
         /\ UNCHANGED <<proc, bound, disk, inner>>
    [] OTHER -> DropServer /\ phase' = "over"

\* The body's future is done for: its locals go, in the order of their declaration backwards.
Unwind(as) ==
  /\ verdict' = as
  /\ \/ /\ phase \in {"probing", "spawning"}
        /\ HoldServer /\ phase' = "over" /\ UNCHANGED app
     \/ /\ phase \in {"locating", "greeting", "connecting", "creating", "starting", "readying", "shutting"}
        /\ DropServer /\ phase' = "over"
        /\ IF phase = "starting" THEN app' \in {"none", "draining"} ELSE AskApp
     \/ phase \in {"body", "asking", "restarting"} /\ DropHarness /\ AskApp
  /\ UNCHANGED <<test, url, asked, restarts>>
-----------------------------------------------------------------------------
(* The process, beside the test.                                           *)

Process(p, b, f, l) ==
  /\ proc' = p /\ bound' = b /\ files' = f /\ log' = l
  /\ UNCHANGED <<test, phase, verdict, owner, streams, inner, url, app, asked, restarts>>

OpenFiles == proc = "booting" /\ "pid" \notin files /\ Process(proc, None, files \cup {"log", "pid"}, log)

MakeStore ==
  /\ proc = "booting" /\ "pid" \in files /\ WithJetStream /\ "store" \notin files
  /\ Process(proc, None, files \cup {"store"}, log)

LogStore == proc = "booting" /\ {"log", "store"} \subseteq files /\ "store" \notin log /\ Process(proc, None, files, log \cup {"store"})

Listen ==
  /\ proc = "booting" /\ "log" \in files
  /\ WithJetStream => "store" \in log
  /\ \E p \in IF inner.port = None THEN Ports ELSE {inner.port} : Process("listening", p, files, log)

LogAddress == proc = "listening" /\ "client" \notin log /\ Process(proc, bound, files, log \cup {"client"})

\* The configuration is refused, another process took the port, or it is killed.
Dies == proc \in {"booting", "listening"} /\ Process("dead", None, files, log)
-----------------------------------------------------------------------------
(* start().                                                                *)

\* missing_server: #[live_test] passes over the error of a test that may be skipped.
Missing == Unwind(IF test.required THEN "error" ELSE "skipped")

Probe ==
  /\ phase = "probing"
  /\ \/ Missing
     \/ /\ phase' = "spawning" /\ owner' = "blocking task"
        /\ UNCHANGED <<test, verdict, proc, bound, disk, inner, url, app, asked, restarts>>

\* The blocking task: do_run and preserve_logs.
TaskSpawns ==
  /\ owner = "blocking task" /\ proc = "none"
  /\ proc' = "booting"
  /\ inner' = [port |-> None, keep |-> test.keepLogs]
  /\ UNCHANGED <<test, phase, verdict, owner, bound, disk, url, app, asked, restarts>>

TaskFails ==
  /\ owner = "blocking task" /\ proc = "none"
  /\ owner' = "no one"
  /\ IF phase = "spawning"
       THEN phase' = "over" /\ verdict' = IF test.required THEN "error" ELSE "skipped"
       ELSE UNCHANGED <<phase, verdict>>
  /\ UNCHANGED <<test, proc, bound, disk, inner, url, app, asked, restarts>>

\* The task's output goes to start(), or is dropped where it lies if no one waits.
TaskEnds ==
  /\ owner = "blocking task" /\ proc # "none"
  /\ IF phase = "spawning"
       THEN /\ phase' = "locating" /\ owner' = "start"
            /\ UNCHANGED <<proc, bound, disk, inner>>
       ELSE DropServer /\ UNCHANGED phase
  /\ UNCHANGED <<test, verdict, url, app, asked, restarts>>

\* client_url: the address in the first line that has one; nobody may listen there.
Locate ==
  /\ phase = "locating" /\ "client" \in log
  /\ IF proc = "listening"
       THEN /\ phase' = "greeting"
            /\ HoldServer /\ UNCHANGED <<test, verdict, url, app, asked, restarts>>
       ELSE Unwind("panic")

\* INFO, with the port that goes into the url.
Greeted ==
  /\ phase \in Reading /\ proc = "listening"
  /\ IF phase = "greeting" THEN phase' = "connecting" /\ url' = bound ELSE phase' = "body" /\ UNCHANGED url
  /\ HoldServer /\ UNCHANGED <<test, verdict, app, asked, restarts>>

\* The connection ends, or another line comes.
NotGreeted == phase \in Reading /\ Unwind("panic")

\* Deviation: the polls of client_addr go on for as long as the process is there.
NoAddressWhileAlive == phase = "locating" /\ proc = "dead" /\ Unwind("panic")

\* The last poll of client_addr found nothing.
NoAddress == phase = "locating" /\ "client" \notin log /\ Unwind("panic")

Connect ==
  /\ phase = "connecting"
  /\ \/ Unwind("error")
     \/ /\ proc = "listening" /\ phase' = IF WithJetStream THEN "creating" ELSE "starting"
        /\ HoldServer /\ UNCHANGED <<test, verdict, url, app, asked, restarts>>

\* get_or_create_stream, one stream at a time.
CreateStream ==
  /\ phase = "creating" /\ proc = "listening"
  /\ \E s \in DOMAIN Collected \ DOMAIN streams :
       streams' = [t \in DOMAIN streams \cup {s} |-> IF t = s THEN Collected[s] ELSE streams[t]]
  /\ UNCHANGED <<test, phase, verdict, owner, proc, bound, files, log, inner, url, app, asked, restarts>>

CreateFails == phase = "creating" /\ Unwind("error")

StreamsCreated ==
  /\ phase = "creating" /\ DOMAIN Collected \subseteq DOMAIN streams
  /\ phase' = "starting"
  /\ HoldServer /\ UNCHANGED <<test, verdict, url, app, asked, restarts>>

StartApp ==
  /\ phase = "starting"
  /\ \/ Unwind("error")
     \/ /\ proc = "listening" /\ phase' = "readying" /\ app' = "running"
        /\ HoldServer /\ UNCHANGED <<test, verdict, url, asked, restarts>>

Ready ==
  /\ phase = "readying"
  /\ \/ Unwind("error")
     \/ /\ phase' = "body" /\ owner' = "harness"
        /\ UNCHANGED <<test, verdict, proc, bound, disk, inner, url, app, asked, restarts>>
-----------------------------------------------------------------------------
(* The body, with the harness in its hands.                                *)

PreserveLogs ==
  /\ phase = "body" /\ \E keep \in BOOLEAN : asked' = keep /\ inner' = [inner EXCEPT !.keep = keep]
  /\ UNCHANGED <<test, phase, verdict, owner, proc, bound, disk, url, app, restarts>>

\* client_url or client_port again: after a restart the first line is that of the process before.
AskServer ==
  /\ phase = "body" /\ "client" \in log
  /\ IF proc = "listening"
       THEN /\ phase' = "asking"
            /\ HoldServer /\ UNCHANGED <<test, verdict, url, app, asked, restarts>>
       ELSE Unwind("panic")

\* Deviation: only a port that was asked for is remembered.
RestartKillPortless ==
  /\ phase = "body" /\ restarts < MaxRestarts /\ proc # "none"
  /\ phase' = "restarting" /\ proc' = "dead" /\ bound' = None
  /\ restarts' = restarts + 1
  /\ UNCHANGED <<test, verdict, owner, disk, inner, url, app, asked>>

\* restart() keeps the port; a dynamic one it has just asked the process for.
RestartKill ==
  /\ restarts < MaxRestarts
  /\ \/ phase = "body" /\ inner.port # None
     \/ phase = "asking" /\ inner.port = None /\ proc = "listening"
  /\ phase' = "restarting" /\ proc' = "dead" /\ bound' = None
  /\ inner' = [inner EXCEPT !.port = IF @ = None THEN bound ELSE @]
  /\ restarts' = restarts + 1
  /\ UNCHANGED <<test, verdict, owner, disk, url, app, asked>>

\* Deviation: the new process starts with the flags of a new Server.
RestartSpawnAnew ==
  /\ phase = "restarting"
  /\ \/ Unwind("panic")
     \/ /\ phase' = "body" /\ proc' = "booting" /\ inner' = [inner EXCEPT !.keep = FALSE]
        /\ UNCHANGED <<test, verdict, owner, bound, disk, url, app, asked, restarts>>

\* do_run under the same id, and keep_logs carried over; a spawn that fails panics.
RestartSpawn ==
  /\ phase = "restarting"
  /\ \/ Unwind("panic")
     \/ /\ phase' = "body" /\ proc' = "booting"
        /\ UNCHANGED <<test, verdict, owner, bound, disk, inner, url, app, asked, restarts>>

\* The body returns or panics with the harness still there.
BodyEnds == phase = "body" /\ \E as \in {"ok", "error", "panic"} : Unwind(as)

\* harness.shutdown().
Shutdown ==
  /\ phase = "body"
  /\ phase' = "shutting" /\ AskApp
  /\ HoldServer /\ UNCHANGED <<test, verdict, url, asked, restarts>>

ShutdownDone ==
  /\ phase = "shutting" /\ app = "done"
  /\ DropServer /\ phase' = "over"
  /\ \E as \in {"ok", "error"} : verdict' = as
  /\ UNCHANGED <<test, url, app, asked, restarts>>

\* What the drop of the harness waited for.
DropDone ==
  /\ phase = "dropping" /\ app = "done"
  /\ IF owner = "no one" THEN HoldServer ELSE DropServer
  /\ phase' = "over"
  /\ UNCHANGED <<test, verdict, url, app, asked, restarts>>

ShutdownTaskDone ==
  /\ owner = "shutdown task" /\ app = "done"
  /\ DropServer
  /\ UNCHANGED <<test, phase, verdict, url, app, asked, restarts>>

TimeOut == test.flavour = "multi_thread" /\ phase \in Awaiting /\ Unwind("timeout")

\* The application stops, because it was told to or by itself.
AppEnds ==
  /\ app \in {"running", "draining"} /\ app' = "done"
  /\ UNCHANGED <<test, phase, verdict, owner, proc, bound, disk, inner, url, asked, restarts>>

\* The runtime goes with the tasks on it, but waits for a blocking task that has begun.
RuntimeGone ==
  /\ phase = "over" /\ (owner = "blocking task" => proc = "none")
  /\ phase' = "gone"
  /\ app' = IF app \in {"running", "draining"} THEN "cut off" ELSE app
  /\ IF owner = "no one" THEN HoldServer ELSE DropServer
  /\ UNCHANGED <<test, verdict, url, asked, restarts>>
-----------------------------------------------------------------------------
Child == OpenFiles \/ MakeStore \/ LogStore \/ Listen \/ LogAddress \/ Dies

Starting ==
  \/ Probe \/ Locate \/ NoAddress \/ Greeted \/ NotGreeted
  \/ Connect \/ CreateStream \/ CreateFails \/ StreamsCreated \/ StartApp \/ Ready

Task == TaskSpawns \/ TaskFails \/ TaskEnds \/ ShutdownTaskDone

Body == PreserveLogs \/ AskServer \/ RestartKill \/ BodyEnds \/ Shutdown

Ending == RestartSpawn \/ ShutdownDone \/ DropDone \/ TimeOut \/ RuntimeGone

Done == phase = "gone" /\ UNCHANGED vars

Next == Child \/ Starting \/ Task \/ Body \/ Ending \/ AppEnds \/ Done

Spec == Init /\ [][Next]_vars

\* A thread that is not blocked goes on, a read ends with its connection, the application stops
\* when told to (ShutdownCompletes of AppRuntime), and the timer fires: a body that goes from
\* call to call comes to an await again and again.  The body and the process owe nothing.
FairSpec ==
  /\ Spec
  /\ WF_vars(Locate) /\ WF_vars(NoAddress) /\ WF_vars(proc = "dead" /\ NotGreeted)
  /\ WF_vars(TaskSpawns \/ TaskFails) /\ WF_vars(TaskEnds)
  /\ WF_vars(Ending) /\ SF_vars(TimeOut) /\ WF_vars(app = "draining" /\ AppEnds)

\* `nats-server --version` comes to an end, and who listens sends INFO: the source waits for
\* both in calls that block, without a timeout.
ServerAnswers == WF_vars(Probe) /\ WF_vars(Greeted)
-----------------------------------------------------------------------------
(* Whoever drops the Server, and whenever (an error or a panic at any step of start(), the timeout,
   a restart that failed, the end of the runtime), the process is gone, its pid file and its store
   are, and the log is there if the test asked for it last.  A store that the process had made but
   not yet logged is left behind: Drop for Server reads its name in the log.  The store is the
   directory the server logs, not the one around it if that is named by --store_dir.              *)
NothingLeft ==
  owner = "no one" =>
    /\ proc \in {"none", "dead"}
    /\ "pid" \notin files
    /\ "store" \in files => "store" \notin log
    /\ "log" \in files => asked
    /\ asked /\ log # {} => "log" \in files

(* The url clients were given stays true: whatever process listens after restarts does so on the
   port of the first, a dynamic one too.                                                          *)
UrlStays == proc = "listening" /\ url # None => bound = url

(* The server goes when the application is done with it or never ran: by an error, a panic or the
   timeout in the body, by a restart that failed, by shutdown().  There are four exceptions: start()
   gives up on an application that is starting or getting ready; the timeout strikes in shutdown();
   the harness is dropped outside a runtime; a runtime of one thread ends over the task that should
   have waited, and then the application is cut off in the same step.                              *)
ServerOutlivesApp ==
  [][owner # "no one" /\ owner' = "no one" /\ app' \notin {"none", "done"} =>
       \/ phase \in {"starting", "readying"}
       \/ phase = "shutting" /\ verdict' = "timeout"
       \/ test.flavour = "outside" /\ phase \in {"body", "asking", "restarting"}
       \/ test.flavour = "current_thread" /\ phase' = "gone" /\ app' = "cut off"]_vars

(* If the server answers, a live test ends and takes its runtime with it, although its body waits
   for ever, its streams or the application do not get ready, the server never logs its address or
   dies.  Nothing but the read of INFO and `--version` can be without an end: not the polls for the
   address, not the drop of the harness, not the blocking task a timeout left behind.              *)
EveryTestEnds == ServerAnswers => (test.flavour = "multi_thread" => <>(phase = "gone"))
=============================================================================
