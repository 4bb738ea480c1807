--------------------------- MODULE LiveHarnessProofs ---------------------------
(***************************************************************************)
(* Proofs about the live harness, for any tests, ports and number of       *)
(* restarts: whoever drops the server leaves nothing behind that it knew   *)
(* of, the url stays, and the server outlives the application.             *)
(***************************************************************************)
EXTENDS LiveHarness, TLAPS

\* Who holds the server in each phase of the test.
OwnerInv ==
  /\ test \in Tests
  /\ phase \in Awaiting \cup Reading \cup {"probing", "locating", "restarting", "dropping", "over", "gone"}
  /\ phase \in {"probing", "gone"} => owner = "no one"
  /\ phase = "spawning" <=> owner = "blocking task" /\ phase # "over"
  /\ phase \in {"locating", "greeting", "connecting", "creating", "starting", "readying"} <=> owner = "start"
  /\ phase \in {"body", "asking", "restarting", "shutting", "dropping"} <=> owner = "harness"
  /\ owner \in {"no one", "blocking task", "start", "harness", "shutdown task"}

\* What a process leaves on disk, and what the harness knows of it.
DiskInv ==
  /\ proc \in {"none", "booting", "listening", "dead"}
  /\ owner = "no one" => proc \in {"none", "dead"}
  /\ phase = "probing" => proc = "none"
  /\ owner \in {"start", "harness", "shutdown task"} => proc # "none"
  /\ proc = "none" => files = {} /\ log = {} /\ asked = test.keepLogs
  /\ proc # "none" => inner.keep = asked
  /\ owner # "no one" /\ log # {} => "log" \in files
  /\ proc = "listening" => "log" \in files
  /\ inner = [port |-> inner.port, keep |-> inner.keep]

Inv == OwnerInv /\ DiskInv /\ NothingLeft

\* The port of the first process is the one of all that follow.
PortInv ==
  /\ proc = "listening" => inner.port \in {None, bound}
  /\ url # None =>
       /\ proc # "none"
       /\ inner.port \in {None, url}
       /\ proc = "booting" => inner.port = url
       /\ phase = "restarting" => inner.port = url
       /\ proc = "listening" => bound = url
-----------------------------------------------------------------------------
LEMMA InitInv == Init => Inv /\ PortInv
BY DEF Init, Inv, OwnerInv, DiskInv, NothingLeft, PortInv, Awaiting

\* The drop of the server, whoever does it, leaves what NothingLeft says.
LEMMA DropLeavesNothing ==
  ASSUME Inv, owner # "no one", DropServer, UNCHANGED <<test, asked>>, phase' # "probing"
  PROVE  /\ NothingLeft' /\ DiskInv' /\ owner' = "no one"
<1>1. /\ proc' = IF proc = "none" THEN proc ELSE "dead"
      /\ owner' = "no one" /\ UNCHANGED <<log, inner>>
      /\ "pid" \notin files'
      /\ "store" \in files' => "store" \notin log
      /\ "log" \in files' <=> "log" \in files /\ inner.keep
      /\ files' \subseteq files
  BY DEF DropServer
<1>2. CASE proc = "none"
  BY <1>1, <1>2 DEF Inv, DiskInv, NothingLeft
<1>3. CASE proc # "none"
  BY <1>1, <1>3 DEF Inv, DiskInv, NothingLeft
<1>4. QED
  BY <1>1, <1>2, <1>3

\* A step that leaves the server to whoever has it.
LEMMA HoldInv ==
  ASSUME Inv, PortInv, HoldServer, UNCHANGED <<test, url, asked>>,
         phase' \notin {"probing", "restarting"},
         OwnerInv'
  PROVE  Inv' /\ PortInv'
BY DEF HoldServer, disk, Inv, DiskInv, NothingLeft, PortInv

\* A step that drops the server.
LEMMA DropInv ==
  ASSUME Inv, PortInv, owner # "no one", DropServer, UNCHANGED <<test, url, asked>>,
         phase' = "over" \/ phase' = "gone" \/ (phase' = phase /\ phase \in {"over", "gone"})
  PROVE  Inv' /\ PortInv'
<1>1. NothingLeft' /\ DiskInv' /\ owner' = "no one"
  BY DropLeavesNothing
<1>2. OwnerInv'
  BY <1>1 DEF Inv, OwnerInv, Awaiting
<1>3. PortInv'
  BY <1>2 DEF DropServer, PortInv, Inv, DiskInv
<1>4. QED
  BY <1>1, <1>2, <1>3 DEF Inv

\* However the body's future ends, what it held goes the right way.
LEMMA UnwindInv == ASSUME Inv, PortInv, NEW as, Unwind(as) PROVE Inv' /\ PortInv'
<1>1. UNCHANGED <<test, url, asked>>
  BY DEF Unwind
<1>2. CASE phase \in {"probing", "spawning"}
  <2>1. HoldServer /\ phase' = "over"
    BY <1>2 DEF Unwind
  <2>2. OwnerInv'
    BY <1>1, <1>2, <2>1 DEF Inv, OwnerInv, HoldServer, Awaiting
  <2>3. QED
    BY <1>1, <2>1, <2>2, HoldInv
<1>3. CASE phase \in {"locating", "greeting", "connecting", "creating", "starting", "readying", "shutting"}
  <2>1. DropServer /\ phase' = "over" /\ owner # "no one"
    BY <1>3 DEF Unwind, Inv, OwnerInv
  <2>2. QED
    BY <1>1, <2>1, DropInv
<1>4. CASE phase \in {"body", "asking", "restarting"}
  <2>1. DropHarness /\ owner = "harness" /\ test \in Tests
    BY <1>4 DEF Unwind, Inv, OwnerInv
  <2>2. CASE test.flavour = "multi_thread"
    <3>1. HoldServer /\ phase' = "dropping"
      BY <2>1, <2>2 DEF DropHarness
    <3>2. OwnerInv'
      BY <1>1, <2>1, <3>1 DEF Inv, OwnerInv, HoldServer, Awaiting
    <3>3. QED
      BY <1>1, <3>1, <3>2, HoldInv
  <2>3. CASE test.flavour = "current_thread"
    <3>1. owner' = "shutdown task" /\ phase' = "over" /\ UNCHANGED <<proc, bound, disk, inner>>
      BY <2>1, <2>3 DEF DropHarness
    <3>2. OwnerInv'
      BY <1>1, <2>1, <3>1 DEF Inv, OwnerInv, Awaiting
    <3>3. QED
      BY <1>1, <2>1, <3>1, <3>2 DEF disk, Inv, DiskInv, NothingLeft, PortInv
  <2>4. CASE test.flavour = "outside"
    <3>1. DropServer /\ phase' = "over"
      BY <2>1, <2>4 DEF DropHarness
    <3>2. QED
      BY <1>1, <2>1, <3>1, DropInv
  <2>5. QED
    BY <2>1, <2>2, <2>3, <2>4, HarnessAssumption
<1>5. QED
  BY <1>2, <1>3, <1>4 DEF Unwind

LEMMA ChildInv == ASSUME Inv, PortInv, Child PROVE Inv' /\ PortInv'
<1>1. /\ UNCHANGED <<test, phase, verdict, owner, streams, inner, url, app, asked, restarts>>
      /\ proc \in {"booting", "listening"}
  BY DEF Child, OpenFiles, MakeStore, LogStore, Listen, LogAddress, Dies, Process
<1>2. OwnerInv' /\ owner # "no one"
  BY <1>1 DEF Inv, OwnerInv, DiskInv
<1>3. CASE OpenFiles \/ MakeStore \/ LogStore \/ LogAddress \/ Dies
  <2>1. DiskInv' /\ PortInv'
    BY <1>1, <1>3
    DEF OpenFiles, MakeStore, LogStore, LogAddress, Dies, Process, Inv, DiskInv, PortInv
  <2>2. QED
    BY <1>1, <1>2, <2>1 DEF Inv, NothingLeft
<1>4. CASE Listen
  <2>1. PICK p \in IF inner.port = None THEN Ports ELSE {inner.port} : Process("listening", p, files, log)
    BY <1>4 DEF Listen
  <2>2. DiskInv' /\ PortInv'
    BY <1>1, <1>4, <2>1 DEF Listen, Process, Inv, DiskInv, PortInv
  <2>3. QED
    BY <1>1, <1>2, <2>2 DEF Inv, NothingLeft
<1>5. QED
  BY <1>3, <1>4 DEF Child

LEMMA StartingInv == ASSUME Inv, PortInv, Starting PROVE Inv' /\ PortInv'
<1>1. CASE \E as \in {"error", "skipped", "panic"} : Unwind(as)
  BY <1>1, UnwindInv
<1>2. CASE Probe /\ ~\E as \in {"error", "skipped", "panic"} : Unwind(as)
  <2>1. /\ phase = "probing" /\ phase' = "spawning" /\ owner' = "blocking task"
        /\ UNCHANGED <<test, verdict, proc, bound, disk, inner, url, app, asked, restarts>>
    BY <1>2 DEF Probe, Missing
  <2>2. OwnerInv'
    BY <2>1 DEF Inv, OwnerInv, Awaiting
  <2>3. QED
    BY <2>1, <2>2 DEF disk, Inv, DiskInv, OwnerInv, NothingLeft, PortInv
<1>3. CASE Locate /\ ~\E as \in {"error", "skipped", "panic"} : Unwind(as)
  <2>1. phase = "locating" /\ phase' = "greeting" /\ HoldServer /\ UNCHANGED <<test, url, asked>>
    BY <1>3 DEF Locate
  <2>2. OwnerInv'
    BY <2>1 DEF Inv, OwnerInv, HoldServer, Awaiting, Reading
  <2>3. QED
    BY <2>1, <2>2, HoldInv
<1>4. CASE Greeted
  <2>1. CASE phase = "greeting"
    <3>1. /\ proc = "listening" /\ phase' = "connecting" /\ url' = bound
          /\ HoldServer /\ UNCHANGED <<test, verdict, app, asked, restarts>>
      BY <1>4, <2>1 DEF Greeted
    <3>2. OwnerInv'
      BY <2>1, <3>1 DEF Inv, OwnerInv, HoldServer, Awaiting
    <3>3. QED
      BY <2>1, <3>1, <3>2 DEF HoldServer, disk, Inv, DiskInv, NothingLeft, PortInv
  <2>2. CASE phase = "asking"
    <3>1. phase' = "body" /\ HoldServer /\ UNCHANGED <<test, url, asked>>
      BY <1>4, <2>2 DEF Greeted
    <3>2. OwnerInv'
      BY <2>2, <3>1 DEF Inv, OwnerInv, HoldServer, Awaiting
    <3>3. QED
      BY <3>1, <3>2, HoldInv
  <2>3. QED
    BY <1>4, <2>1, <2>2 DEF Greeted, Reading
<1>5. CASE (Connect \/ StreamsCreated \/ StartApp) /\ ~\E as \in {"error", "skipped", "panic"} : Unwind(as)
  <2>1. /\ phase \in {"connecting", "creating", "starting"}
        /\ phase' \in {"creating", "starting", "readying"}
        /\ HoldServer /\ UNCHANGED <<test, url, asked>>
    BY <1>5 DEF Connect, StreamsCreated, StartApp
  <2>2. OwnerInv'
    BY <2>1 DEF Inv, OwnerInv, HoldServer, Awaiting
  <2>3. QED
    BY <2>1, <2>2, HoldInv
<1>6. CASE CreateStream
  BY <1>6 DEF CreateStream, Inv, OwnerInv, DiskInv, NothingLeft, PortInv
<1>7. CASE Ready /\ ~\E as \in {"error", "skipped", "panic"} : Unwind(as)
  <2>1. /\ phase = "readying" /\ phase' = "body" /\ owner' = "harness"
        /\ UNCHANGED <<test, verdict, proc, bound, disk, inner, url, app, asked, restarts>>
    BY <1>7 DEF Ready
  <2>2. OwnerInv' /\ owner = "start"
    BY <2>1 DEF Inv, OwnerInv, Awaiting
  <2>3. QED
    BY <2>1, <2>2 DEF disk, Inv, DiskInv, NothingLeft, PortInv
<1>8. CASE NoAddress \/ NotGreeted \/ CreateFails
  BY <1>8, UnwindInv DEF NoAddress, NotGreeted, CreateFails
<1>9. QED
  BY <1>1, <1>2, <1>3, <1>4, <1>5, <1>6, <1>7, <1>8 DEF Starting

LEMMA TaskInv == ASSUME Inv, PortInv, Task PROVE Inv' /\ PortInv'
<1>1. CASE TaskSpawns
  <2>1. /\ owner = "blocking task" /\ proc = "none" /\ proc' = "booting"
        /\ inner' = [port |-> None, keep |-> test.keepLogs]
        /\ UNCHANGED <<test, phase, owner, bound, files, log, url, asked>>
    BY <1>1 DEF TaskSpawns, disk
  <2>2. OwnerInv' /\ url = None /\ phase # "probing"
    BY <2>1 DEF Inv, OwnerInv, PortInv
  <2>3. QED
    BY <2>1, <2>2 DEF Inv, DiskInv, NothingLeft, PortInv
<1>2. CASE TaskFails
  <2>1. /\ owner = "blocking task" /\ proc = "none" /\ owner' = "no one"
        /\ phase' = IF phase = "spawning" THEN "over" ELSE phase
        /\ UNCHANGED <<test, proc, bound, files, log, inner, url, asked>>
    BY <1>2 DEF TaskFails, disk
  <2>2. OwnerInv'
    BY <2>1 DEF Inv, OwnerInv, Awaiting
  <2>3. QED
    BY <2>1, <2>2 DEF Inv, DiskInv, NothingLeft, PortInv
<1>3. CASE TaskEnds /\ phase = "spawning"
  <2>1. /\ owner = "blocking task" /\ proc # "none" /\ phase' = "locating" /\ owner' = "start"
        /\ UNCHANGED <<test, proc, bound, files, log, inner, url, asked>>
    BY <1>3 DEF TaskEnds, disk
  <2>2. OwnerInv'
    BY <1>3, <2>1 DEF Inv, OwnerInv, Awaiting
  <2>3. QED
    BY <2>1, <2>2 DEF Inv, DiskInv, NothingLeft, PortInv
<1>4. CASE TaskEnds /\ phase # "spawning"
  <2>1. DropServer /\ owner = "blocking task" /\ UNCHANGED <<test, url, asked, phase>>
    BY <1>4 DEF TaskEnds
  <2>2. phase = "over"
    BY <1>4, <2>1 DEF Inv, OwnerInv
  <2>3. QED
    BY <2>1, <2>2, DropInv
<1>5. CASE ShutdownTaskDone
  <2>1. DropServer /\ owner = "shutdown task" /\ UNCHANGED <<test, url, asked, phase>>
    BY <1>5 DEF ShutdownTaskDone
  <2>2. phase = "over"
    BY <2>1 DEF Inv, OwnerInv, Awaiting, Reading
  <2>3. QED
    BY <2>1, <2>2, DropInv
<1>6. QED
  BY <1>1, <1>2, <1>3, <1>4, <1>5 DEF Task

LEMMA BodyInv == ASSUME Inv, PortInv, Body PROVE Inv' /\ PortInv'
<1>1. CASE PreserveLogs
  <2>1. PICK keep \in BOOLEAN : asked' = keep /\ inner' = [inner EXCEPT !.keep = keep]
    BY <1>1 DEF PreserveLogs
  <2>2. /\ phase = "body"
        /\ UNCHANGED <<test, phase, owner, proc, bound, files, log, url>>
    BY <1>1 DEF PreserveLogs, disk
  <2>3. OwnerInv' /\ owner = "harness" /\ proc # "none"
    BY <2>2 DEF Inv, OwnerInv, DiskInv
  <2>4. inner'.keep = keep /\ inner'.port = inner.port /\ inner' = [port |-> inner'.port, keep |-> inner'.keep]
    BY <2>1 DEF Inv, DiskInv
  <2>5. QED
    BY <2>1, <2>2, <2>3, <2>4 DEF Inv, DiskInv, NothingLeft, PortInv
<1>2. CASE BodyEnds \/ (AskServer /\ proc # "listening")
  BY <1>2, UnwindInv DEF AskServer, BodyEnds
<1>3. CASE RestartKill
  <2>1. /\ phase \in {"body", "asking"} /\ phase' = "restarting" /\ proc' = "dead"
        /\ inner' = [inner EXCEPT !.port = IF inner.port = None THEN bound ELSE inner.port]
        /\ inner.port = None => proc = "listening"
        /\ UNCHANGED <<test, owner, files, log, url, asked>>
    BY <1>3 DEF RestartKill, disk
  <2>2. OwnerInv' /\ owner = "harness" /\ proc # "none"
    BY <2>1 DEF Inv, OwnerInv, DiskInv, Awaiting
  <2>3. /\ inner'.port = IF inner.port = None THEN bound ELSE inner.port
        /\ inner'.keep = inner.keep /\ inner' = [port |-> inner'.port, keep |-> inner'.keep]
    BY <2>1 DEF Inv, DiskInv
  <2>4. QED
    BY <2>1, <2>2, <2>3 DEF Inv, DiskInv, NothingLeft, PortInv
<1>4. CASE Shutdown
  <2>1. phase = "body" /\ phase' = "shutting" /\ HoldServer /\ UNCHANGED <<test, url, asked>>
    BY <1>4 DEF Shutdown
  <2>2. OwnerInv'
    BY <2>1 DEF Inv, OwnerInv, HoldServer, Awaiting
  <2>3. QED
    BY <2>1, <2>2, HoldInv
<1>5. CASE AskServer /\ proc = "listening"
  <2>1. phase = "body" /\ phase' = "asking" /\ HoldServer /\ UNCHANGED <<test, url, asked>>
    BY <1>5 DEF AskServer
  <2>2. OwnerInv'
    BY <2>1 DEF Inv, OwnerInv, HoldServer, Reading
  <2>3. QED
    BY <2>1, <2>2, HoldInv
<1>6. QED
  BY <1>1, <1>2, <1>3, <1>4, <1>5 DEF Body

LEMMA EndingInv == ASSUME Inv, PortInv, Ending PROVE Inv' /\ PortInv'
<1>1. CASE RestartSpawn /\ phase' = "body" /\ proc' = "booting"
  <2>1. /\ phase = "restarting"
        /\ UNCHANGED <<test, owner, bound, files, log, inner, url, asked>>
    BY <1>1 DEF RestartSpawn, disk, Unwind, DropHarness, DropServer, HoldServer
  <2>2. OwnerInv' /\ owner = "harness" /\ proc # "none"
    BY <1>1, <2>1 DEF Inv, OwnerInv, DiskInv, Awaiting
  <2>3. QED
    BY <1>1, <2>1, <2>2 DEF Inv, DiskInv, NothingLeft, PortInv
<1>2. CASE \E as \in {"panic", "timeout"} : Unwind(as)
  BY <1>2, UnwindInv
<1>3. CASE ShutdownDone
  <2>1. DropServer /\ phase' = "over" /\ UNCHANGED <<test, url, asked>> /\ owner # "no one"
    BY <1>3 DEF ShutdownDone, Inv, OwnerInv
  <2>2. QED
    BY <2>1, DropInv
<1>4. CASE DropDone
  <2>1. DropServer /\ phase' = "over" /\ UNCHANGED <<test, url, asked>> /\ owner # "no one"
    BY <1>4 DEF DropDone, Inv, OwnerInv
  <2>2. QED
    BY <2>1, DropInv
<1>5. CASE RuntimeGone
  <2>1. phase = "over" /\ phase' = "gone" /\ UNCHANGED <<test, url, asked>>
    BY <1>5 DEF RuntimeGone
  <2>2. CASE owner = "no one"
    <3>1. HoldServer
      BY <1>5, <2>2 DEF RuntimeGone
    <3>2. OwnerInv'
      BY <2>1, <2>2, <3>1 DEF Inv, OwnerInv, HoldServer, Awaiting
    <3>3. QED
      BY <2>1, <3>1, <3>2, HoldInv
  <2>3. CASE owner # "no one"
    <3>1. DropServer
      BY <1>5, <2>3 DEF RuntimeGone
    <3>2. QED
      BY <2>1, <2>3, <3>1, DropInv
  <2>4. QED
    BY <2>2, <2>3
<1>6. QED
  BY <1>1, <1>2, <1>3, <1>4, <1>5 DEF Ending, RestartSpawn, TimeOut

LEMMA NextInv == Inv /\ PortInv /\ [Next]_vars => Inv' /\ PortInv'
<1>1. SUFFICES ASSUME Inv, PortInv, [Next]_vars PROVE Inv' /\ PortInv'
  OBVIOUS
<1>2. CASE AppEnds \/ Done \/ UNCHANGED vars
  <2>1. UNCHANGED <<test, phase, owner, proc, bound, files, log, inner, url, asked>>
    BY <1>2 DEF AppEnds, Done, vars, disk
  <2>2. OwnerInv' /\ DiskInv' /\ PortInv'
    BY <1>1, <2>1 DEF Inv, OwnerInv, DiskInv, PortInv
  <2>3. NothingLeft'
    BY <1>1, <2>1 DEF Inv, NothingLeft
  <2>4. QED
    BY <2>2, <2>3 DEF Inv
<1>3. QED
  BY <1>1, <1>2, ChildInv, StartingInv, TaskInv, BodyInv, EndingInv DEF Next

\* The invariant holds in every state of every live test.
THEOREM Invariance == Spec => [](Inv /\ PortInv)
BY InitInv, NextInv, PTL DEF Spec
-----------------------------------------------------------------------------
(* What follows from the invariant.                                        *)

\* Whoever drops the server and whenever, process, pid file and logged store are gone, and
\* the log is kept exactly when the test asked for it last.
THEOREM ServerLeavesNothing == Spec => []NothingLeft
<1>1. Inv => NothingLeft
  BY DEF Inv
<1>2. QED
  BY <1>1, Invariance, PTL

\* However often the server is restarted, it listens where its clients were told.
THEOREM UrlIsStable == Spec => []UrlStays
<1>1. PortInv => UrlStays
  BY DEF PortInv, UrlStays
<1>2. QED
  BY <1>1, Invariance, PTL

\* There is no application before start() has brought it up; only a runtime of one thread
\* has a shutdown task.
AppInv ==
  /\ app \in {"none", "running", "draining", "done", "cut off"}
  /\ phase \in {"probing", "spawning", "locating", "greeting", "connecting", "creating", "starting"} => app = "none"
  /\ owner = "blocking task" => app = "none"
  /\ owner = "shutdown task" => test.flavour = "current_thread"

LEMMA AppKept ==
  ASSUME Inv, AppInv, [Next]_vars
  PROVE  AppInv'
<1>1. CASE \E as : Unwind(as)
  <2>1. PICK as : Unwind(as)
    BY <1>1
  <2>2. UNCHANGED test
    BY <2>1 DEF Unwind
  <2>3. CASE phase \in {"probing", "spawning"}
    BY <2>1, <2>2, <2>3 DEF Unwind, HoldServer, AppInv
  <2>4. CASE phase \in {"locating", "greeting", "connecting", "creating", "starting", "readying", "shutting"}
    BY <2>1, <2>2, <2>4 DEF Unwind, DropServer, AskApp, AppInv
  <2>5. CASE phase \in {"body", "asking", "restarting"}
    <3>1. DropHarness /\ owner = "harness" /\ test \in Tests
      BY <2>1, <2>5 DEF Unwind, Inv, OwnerInv
    <3>2. phase' \in {"dropping", "over"} /\ (owner' = "shutdown task" => test.flavour = "current_thread")
          /\ owner' # "blocking task"
      BY <3>1, HarnessAssumption DEF DropHarness, HoldServer, DropServer
    <3>3. QED
      BY <2>1, <2>2, <2>5, <3>2 DEF Unwind, AskApp, AppInv
  <2>6. QED
    BY <2>1, <2>3, <2>4, <2>5 DEF Unwind
<1>2. CASE Child
  BY <1>2 DEF Child, OpenFiles, MakeStore, LogStore, Listen, LogAddress, Dies, Process, AppInv
<1>3. CASE Starting /\ ~\E as : Unwind(as)
  <2>1. UNCHANGED test
    BY <1>3 DEF Starting, Probe, Missing, Locate, Greeted, NotGreeted, NoAddress, Connect, CreateStream,
                CreateFails, StreamsCreated, StartApp, Ready
  <2>2. CASE StartApp \/ Ready
    BY <1>3, <2>1, <2>2 DEF StartApp, Ready, HoldServer, Inv, OwnerInv, AppInv
  <2>3. CASE ~StartApp /\ ~Ready
    BY <1>3, <2>1, <2>3 DEF Starting, Probe, Missing, Locate, Greeted, NotGreeted, NoAddress, Connect,
       CreateStream, CreateFails, StreamsCreated, HoldServer, Reading, AppInv
  <2>4. QED
    BY <2>2, <2>3
<1>4. CASE Task
  BY <1>4 DEF Task, TaskSpawns, TaskFails, TaskEnds, ShutdownTaskDone, DropServer, HoldServer, AppInv
<1>5. CASE Body /\ ~\E as : Unwind(as)
  BY <1>5 DEF Body, PreserveLogs, AskServer, RestartKill, BodyEnds, Shutdown, HoldServer, AskApp, AppInv
<1>6. CASE Ending /\ ~\E as : Unwind(as)
  BY <1>6 DEF Ending, RestartSpawn, ShutdownDone, DropDone, TimeOut, RuntimeGone, HoldServer, DropServer,
              Inv, OwnerInv, AppInv
<1>7. CASE AppEnds \/ Done \/ UNCHANGED vars
  BY <1>7 DEF AppEnds, Done, vars, AppInv
<1>8. QED
  BY <1>1, <1>2, <1>3, <1>4, <1>5, <1>6, <1>7 DEF Next

\* Whoever holds the server keeps it until the application is done with it, but for the
\* exceptions ServerOutlivesApp names.
THEOREM ServerOutlives == Spec => ServerOutlivesApp
<1> DEFINE Excepted == \/ phase \in {"starting", "readying"}
                       \/ phase = "shutting" /\ verdict' = "timeout"
                       \/ test.flavour = "outside" /\ phase \in {"body", "asking", "restarting"}
                       \/ test.flavour = "current_thread" /\ phase' = "gone" /\ app' = "cut off"
           Let == owner # "no one" /\ owner' = "no one" /\ app' \notin {"none", "done"} => Excepted
<1>1. Init => AppInv
  BY DEF Init, AppInv
<1>2. Inv /\ AppInv /\ [Next]_vars => [Let]_vars
  <2> SUFFICES ASSUME Inv, AppInv, Next, owner # "no one", owner' = "no one", app' \notin {"none", "done"}
               PROVE  Excepted
    BY DEF vars
  <2>1. CASE \E as : Unwind(as)
    <3>1. PICK as : Unwind(as)
      BY <2>1
    <3>2. CASE phase \in {"probing", "spawning"}
      BY <3>1, <3>2 DEF Unwind, HoldServer
    <3>3. CASE phase \in {"locating", "greeting", "connecting", "creating"}
      BY <3>1, <3>3 DEF Unwind, AskApp, AppInv
    <3>4. CASE phase \in {"starting", "readying"}
      BY <3>4
    <3>5. CASE phase = "shutting"
      <4>1. verdict' = "timeout" \/ ShutdownDone
        BY <3>5 DEF Next, Child, OpenFiles, MakeStore, LogStore, Listen, LogAddress, Dies, Process,
           Starting, Probe, Missing, Locate, Greeted, NotGreeted, Reading, NoAddress, Connect, CreateStream,
           CreateFails, StreamsCreated, StartApp, Ready, Task, TaskSpawns, TaskFails, TaskEnds,
           ShutdownTaskDone, Body, PreserveLogs, AskServer, RestartKill, BodyEnds, Shutdown, Ending,
           RestartSpawn, DropDone, TimeOut, Unwind, RuntimeGone, AppEnds, Done, vars, Inv, OwnerInv
      <4>2. QED
        BY <3>5, <4>1 DEF ShutdownDone
    <3>6. CASE phase \in {"body", "asking", "restarting"}
      <4>1. DropHarness /\ test \in Tests
        BY <3>1, <3>6 DEF Unwind, Inv, OwnerInv
      <4>2. test.flavour = "outside"
        BY <4>1, HarnessAssumption DEF DropHarness, HoldServer
      <4>3. QED
        BY <3>6, <4>2
    <3>7. QED
      BY <3>1, <3>2, <3>3, <3>4, <3>5, <3>6 DEF Unwind
  <2>2. CASE ~\E as : Unwind(as)
    <3>1. ~Child /\ ~Starting /\ ~Body /\ ~AppEnds /\ ~Done
      BY <2>2 DEF Child, OpenFiles, MakeStore, LogStore, Listen, LogAddress, Dies, Process,
         Starting, Probe, Missing, Locate, Greeted, NotGreeted, NoAddress, Connect, CreateStream, CreateFails,
         StreamsCreated, StartApp, Ready, Body, PreserveLogs, AskServer, RestartKill, BodyEnds, Shutdown,
         HoldServer, AppEnds, Done, vars
    <3>2. ~TaskSpawns /\ ~TaskFails /\ ~TaskEnds /\ ~ShutdownTaskDone
      BY DEF TaskSpawns, TaskFails, TaskEnds, ShutdownTaskDone, AppInv
    <3>3. ~RestartSpawn /\ ~ShutdownDone /\ ~DropDone /\ ~TimeOut
      BY <2>2 DEF RestartSpawn, ShutdownDone, DropDone, TimeOut
    <3>4. RuntimeGone
      BY <3>1, <3>2, <3>3 DEF Next, Task, Ending
    <3>5. owner \in {"blocking task", "shutdown task"}
      BY <3>4 DEF RuntimeGone, Inv, OwnerInv, Awaiting
    <3>6. app' = "cut off" /\ app # "none"
      BY <3>4 DEF RuntimeGone, AppInv
    <3>7. QED
      BY <3>4, <3>5, <3>6 DEF RuntimeGone, AppInv
  <2>3. QED
    BY <2>1, <2>2
<1>3. Spec => []AppInv
  BY <1>1, AppKept, Invariance, PTL DEF Spec
<1>4. QED
  BY <1>2, <1>3, Invariance, PTL DEF Spec, ServerOutlivesApp
=============================================================================
