------------------------------ MODULE Lifecycle ------------------------------
(***************************************************************************)
(* What an application promises its owner, whatever its services do: it    *)
(* starts, serves, stops for a reason, and gives the connection back after *)
(* everything that used it; or it is dropped, but never while it serves.   *)
(* The reasons are kept: what it returns is "ok" only if the owner's       *)
(* request was the only one.  AppRuntime is shown to implement it.         *)
(***************************************************************************)
CONSTANT Users   \* whatever may use the connection: tasks and registrations

VARIABLES phase,      \* "starting", "serving", "stopping", "stopped" or "dropped"
          blame,      \* why it stops: among "owner", "start" and "failure"
          users,      \* those of Users that use the connection now
          connection, \* "open" or "drained"
          result      \* "none", "ok" or "error"

vars == <<phase, blame, users, connection, result>>

TypeOK ==
  /\ phase \in {"starting", "serving", "stopping", "stopped", "dropped"}
  /\ blame \in SUBSET {"owner", "start", "failure"}
  /\ users \in SUBSET Users
  /\ connection \in {"open", "drained"}
  /\ result \in {"none", "ok", "error"}

Init ==
  /\ phase = "starting"
  /\ blame = {}
  /\ users = {}
  /\ connection = "open"
  /\ result = "none"

\* Only an application that is starting takes up something new.
Acquire(u) ==
  /\ phase = "starting"
  /\ users' = users \cup {u}
  /\ UNCHANGED <<phase, blame, connection, result>>

\* A task may end, and a registration be stopped, at any time.
Release(u) ==
  /\ users' = users \ {u}
  /\ UNCHANGED <<phase, blame, connection, result>>

Serve ==
  /\ phase = "starting"
  /\ phase' = "serving"
  /\ UNCHANGED <<blame, users, connection, result>>

FailStart ==
  /\ phase = "starting"
  /\ phase' = "stopping"
  /\ blame' = {"start"}
  /\ UNCHANGED <<users, connection, result>>

\* The owner has a handle to ask with once the start succeeded, and asks once.
Ask ==
  /\ phase # "starting"
  /\ blame \cap {"owner", "start"} = {}
  /\ blame' = blame \cup {"owner"}
  /\ UNCHANGED <<phase, users, connection, result>>

\* It stops serving because it was asked to, or because of a failure.
Stop ==
  /\ phase = "serving"
  /\ phase' = "stopping"
  /\ blame' \in {blame, blame \cup {"failure"}} \ {{}}
  /\ UNCHANGED <<users, connection, result>>

\* Something fails while it stops.
Fault ==
  /\ phase = "stopping"
  /\ blame' = blame \cup {"failure"}
  /\ UNCHANGED <<phase, users, connection, result>>

Finish ==
  /\ phase = "stopping"
  /\ users = {}
  /\ blame' \in {blame, blame \cup {"failure"}}
  /\ phase' = "stopped"
  /\ connection' = "drained"
  /\ result' = IF blame' = {"owner"} THEN "ok" ELSE "error"
  /\ UNCHANGED users

\* Its future is dropped, or unwound: what it still uses keeps the connection open.
Drop ==
  /\ phase \in {"starting", "stopping"}
  /\ phase' = "dropped"
  /\ users' \in SUBSET users
  /\ UNCHANGED <<blame, connection, result>>

Next ==
  \/ \E u \in Users : Acquire(u) \/ Release(u)
  \/ Serve
  \/ FailStart
  \/ Ask
  \/ Stop
  \/ Fault
  \/ Finish
  \/ Drop

Spec == Init /\ [][Next]_vars
=============================================================================
