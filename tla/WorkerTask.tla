------------------------------ MODULE WorkerTask ------------------------------
(***************************************************************************)
(* The contract between the runtime and the task that owns a worker: the   *)
(* task is spawned while nobody has asked for a shutdown, it ends once, it *)
(* returns Ok only when it was told to stop, and it is aborted only after  *)
(* it was.  Supervisor is shown to keep it from within, and AppRuntime,    *)
(* which has such a task for every worker, from without.                   *)
(***************************************************************************)
VARIABLES watch,  \* the shutdown channel: "running", "requested" or "closed"
          task    \* "absent", "running", "ok", "failed", "panicked" or "aborted"

vars == <<watch, task>>

TypeOK ==
  /\ watch \in {"running", "requested", "closed"}
  /\ task \in {"absent", "running", "ok", "failed", "panicked", "aborted"}

Init ==
  /\ watch = "running"
  /\ task \in {"absent", "running"}

Spawn ==
  /\ task = "absent"
  /\ watch = "running"
  /\ task' = "running"
  /\ UNCHANGED watch

\* A request is never taken back, nor does a closed channel open again.
Signal ==
  /\ watch = "running"
  /\ watch' \in {"requested", "closed"}
  /\ UNCHANGED task

Return(how) ==
  /\ task = "running"
  /\ how = "ok" => watch # "running"
  /\ task' = how
  /\ UNCHANGED watch

Abort ==
  /\ task = "running"
  /\ watch = "requested"
  /\ task' = "aborted"
  /\ UNCHANGED watch

Next ==
  \/ Spawn
  \/ Signal
  \/ \E how \in {"ok", "failed", "panicked"} : Return(how)
  \/ Abort

Spec == Init /\ [][Next]_vars
=============================================================================
