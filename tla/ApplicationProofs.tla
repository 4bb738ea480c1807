---------------------------- MODULE ApplicationProofs ----------------------------
(***************************************************************************)
(* Proofs about a running application: about the task that owns a worker    *)
(* (Supervisor), and about the runtime that owns the tasks (AppRuntime).    *)
(*                                                                         *)
(* The supervisor, for every backoff, budget and window that                *)
(* AppConfig::validate lets through, and for every bound on the clock.      *)
(* The rate of restarts does not follow from the tracker's fields alone:    *)
(* the invariant ties them to the history.  The last `restarts` grants lie  *)
(* in the window, all others before it, and of those all but MaxRestarts    *)
(* are more than a Window older than the window's start.                    *)
(*                                                                         *)
(* The runtime, for any workers, services, order of startup and policies:   *)
(* what is gone when the client is drained, who is aborted, and what a      *)
(* return value says; that it implements Lifecycle for its owner; and that  *)
(* it and the supervisor keep the contract of WorkerTask on its two sides.  *)
(***************************************************************************)
EXTENDS Supervisor, AppRuntime, TLAPS

N == Len(grants)

Places ==
  /\ policy \in Policies
  /\ signal \in {"running", "requested", "closed"}
  /\ pc \in {"working", "backoff", "registering", "ended"}
  /\ result \in {"none", "ok", "gave up", "unregistered", "panic", "aborted"}

Numbers ==
  /\ now \in Nat
  /\ windowStarted \in Nat
  /\ restarts \in 0..MaxRestarts
  /\ nextBackoff \in 0..MaxBackoff
  /\ wakeAt \in Nat
  /\ grants \in Seq(Grant)
  /\ late \in Nat

\* Where the grants lie with respect to the window.
WindowInv ==
  /\ restarts <= N
  /\ windowStarted <= now
  /\ \A i \in 1..N :
       /\ grants[i].at <= now
       /\ i > N - restarts => grants[i].at >= windowStarted
       /\ i <= N - restarts => grants[i].at <= windowStarted
       /\ i <= N - restarts - MaxRestarts => grants[i].at + Window < windowStarted

\* How the delays came about, and which of them start a series.
DelayInv ==
  /\ \A i \in 1..N : grants[i].delay \in InitialBackoff..MaxBackoff
  /\ policy = "Restart" =>
       nextBackoff = IF N = 0 THEN InitialBackoff ELSE Doubled(grants[N].delay)
  /\ \A i \in 2..N :
       (grants[i].delay = InitialBackoff /\ InitialBackoff < MaxBackoff) =>
         grants[i].at <= windowStarted

\* The last delay granted is waited for before the worker runs again.
SleepInv ==
  N > 0 => /\ pc = "backoff" => wakeAt = grants[N].at + grants[N].delay
           /\ pc \in {"registering", "working"} => now >= grants[N].at + grants[N].delay

Loc ==
  /\ pc = "ended" <=> result # "none"
  /\ pc = "backoff" => N > 0

LateInv ==
  /\ late <= 1
  /\ late = 1 => signal = "requested" /\ pc \in {"registering", "working", "ended"}

\* The inductive invariant.
Inv ==
  /\ Places
  /\ Numbers
  /\ Loc
  /\ WindowInv
  /\ DelayInv
  /\ SleepInv
  /\ LateInv
  /\ RestartRate
  /\ BackoffGrows
  /\ BackoffRespected
  /\ GivesUpWhenExhausted
  /\ OkMeansShutdown

USE ConfigAssumption
-----------------------------------------------------------------------------
\* Doubling stays between what it doubles and the maximum, and does grow.
LEMMA DoubledGrows ==
  ASSUME NEW d \in InitialBackoff..MaxBackoff
  PROVE  /\ Doubled(d) \in InitialBackoff..MaxBackoff
         /\ InitialBackoff < MaxBackoff => Doubled(d) > InitialBackoff
BY DEF Doubled

\* What the types say of the history.
LEMMA History ==
  ASSUME Numbers
  PROVE  /\ N \in Nat
         /\ DOMAIN grants = 1..N
         /\ \A i \in 1..N : /\ grants[i] \in Grant
                             /\ grants[i].at \in Nat
                             /\ grants[i].delay \in Nat
<1>1. N \in Nat /\ DOMAIN grants = 1..N /\ \A i \in 1..N : grants[i] \in Grant
      BY DEF Numbers, N
<1> QED BY <1>1 DEF Grant

\* Everything the invariant says of the history holds before there is one.
LEMMA InitInv == Init => Inv
<1> SUFFICES ASSUME Init PROVE Inv
    OBVIOUS
<1>1. grants \in Seq(Grant) /\ N = 0 /\ DOMAIN grants = {}
      BY DEF Init, N
<1>2. Places /\ Numbers
      BY <1>1 DEF Init, Places, Numbers
<1>3. Loc /\ WindowInv /\ DelayInv /\ SleepInv /\ LateInv
      BY <1>1 DEF Init, Loc, WindowInv, DelayInv, SleepInv, LateInv
<1>4. RestartRate /\ BackoffGrows /\ BackoffRespected
      BY <1>1 DEF RestartRate, BackoffGrows, BackoffRespected
<1>5. GivesUpWhenExhausted /\ OkMeansShutdown
      BY DEF Init, GivesUpWhenExhausted, OkMeansShutdown
<1> QED BY <1>2, <1>3, <1>4, <1>5 DEF Inv

\* A step that leaves the tracker alone disturbs nothing that is said of the
\* history; time may pass under it.  What is left depends on pc, result and signal.
LEMMA SameHistory ==
  ASSUME Inv, UNCHANGED <<policy, tracker>>, now' \in Nat, now' >= now
  PROVE  /\ WindowInv' /\ DelayInv'
         /\ RestartRate' /\ BackoffGrows' /\ BackoffRespected'
         /\ N' = N
<1> USE DEF tracker
<1>1. N' = N
      BY DEF N
<1>2. WindowInv'
      <2>1. now \in Nat /\ windowStarted \in Nat /\ \A i \in 1..N : grants[i].at \in Nat
            BY History DEF Inv, Numbers
      <2> QED BY <1>1, <2>1 DEF Inv, WindowInv
<1>3. DelayInv'
      BY <1>1 DEF Inv, DelayInv, Doubled
<1>4. RestartRate' /\ BackoffGrows' /\ BackoffRespected'
      BY DEF Inv, RestartRate, BackoffGrows, BackoffRespected, Doubled
<1> QED BY <1>1, <1>2, <1>3, <1>4

\* The supervisor ends, for another reason than its budget.
LEMMA EndInv ==
  ASSUME Inv, NEW how \in {"ok", "unregistered", "panic", "aborted"},
         pc # "ended", End(how), how = "ok" => signal # "running",
         UNCHANGED <<policy, signal, now, tracker, late>>
  PROVE  Inv'
<1>1. now' \in Nat /\ now' >= now
      BY DEF Inv, Numbers
<1>2. Places' /\ Numbers'
      BY DEF Inv, Places, Numbers, tracker, End
<1>3. Loc' /\ SleepInv' /\ LateInv'
      BY <1>1, SameHistory DEF Inv, Loc, SleepInv, LateInv, tracker, End
<1>4. GivesUpWhenExhausted' /\ OkMeansShutdown'
      BY DEF GivesUpWhenExhausted, OkMeansShutdown, End
<1> QED BY <1>1, <1>2, <1>3, <1>4, SameHistory DEF Inv
-----------------------------------------------------------------------------
\* Time passes: the grants only get older.
LEMMA TickInv == ASSUME Inv, Tick PROVE Inv'
<1>1. now \in Nat /\ now' = now + 1 /\ UNCHANGED <<policy, signal, pc, result, tracker, late>>
      BY DEF Inv, Numbers, Tick
<1>2. now' \in Nat /\ now' >= now
      BY <1>1
<1>3. Places' /\ Numbers'
      BY <1>1, <1>2 DEF Inv, Places, Numbers, tracker
<1>4. Loc' /\ LateInv'
      BY <1>1, <1>2, SameHistory DEF Inv, Loc, LateInv
<1>5. SleepInv'
      <2>1. N \in Nat /\ (N > 0 => grants[N].at \in Nat /\ grants[N].delay \in Nat)
            BY History DEF Inv
      <2> QED BY <1>1, <1>2, <2>1, SameHistory DEF Inv, SleepInv, tracker
<1>6. GivesUpWhenExhausted' /\ OkMeansShutdown'
      <2>1. result = "none"
            BY DEF Inv, Loc, Tick
      <2> QED BY <1>1, <2>1 DEF GivesUpWhenExhausted, OkMeansShutdown
<1> QED BY <1>1, <1>2, <1>3, <1>4, <1>5, <1>6, SameHistory DEF Inv

LEMMA SignalInv == ASSUME Inv, Signal PROVE Inv'
<1>1. /\ signal = "running" /\ signal' \in {"requested", "closed"}
      /\ UNCHANGED <<policy, pc, result, now, tracker, late>>
      BY DEF Signal
<1>2. now' \in Nat /\ now' >= now
      BY <1>1 DEF Inv, Numbers
<1>3. Places' /\ Numbers'
      BY <1>1 DEF Inv, Places, Numbers, tracker
<1>4. Loc' /\ SleepInv'
      BY <1>1, <1>2, SameHistory DEF Inv, Loc, SleepInv, tracker
<1>5. LateInv'
      BY <1>1 DEF Inv, LateInv
<1>6. GivesUpWhenExhausted' /\ OkMeansShutdown'
      BY <1>1 DEF Inv, GivesUpWhenExhausted, OkMeansShutdown, tracker
<1> QED BY <1>1, <1>2, <1>3, <1>4, <1>5, <1>6, SameHistory DEF Inv
-----------------------------------------------------------------------------
(* The tracker.                                                            *)

\* The delay that comes next lies between the initial and the maximal backoff; it is
\* the initial one only for a first restart or in a new window, if there is a choice.
LEMMA DelayNext ==
  ASSUME Inv, policy = "Restart"
  PROVE  /\ Delay \in InitialBackoff..MaxBackoff
         /\ N > 0 => Delay \in {Doubled(grants[N].delay), InitialBackoff}
         /\ (Delay = InitialBackoff /\ N > 0 /\ InitialBackoff < MaxBackoff) => WindowOver
<1>1. N \in Nat /\ InitialBackoff \in InitialBackoff..MaxBackoff
      BY History DEF Inv
<1>2. N > 0 => /\ grants[N].delay \in InitialBackoff..MaxBackoff
               /\ nextBackoff = Doubled(grants[N].delay)
      BY <1>1 DEF Inv, DelayInv
<1>3. N = 0 => nextBackoff = InitialBackoff
      BY DEF Inv, DelayInv
<1>4. nextBackoff \in InitialBackoff..MaxBackoff
      BY <1>1, <1>2, <1>3, DoubledGrows
<1>5. (N > 0 /\ InitialBackoff < MaxBackoff) => nextBackoff # InitialBackoff
      BY <1>1, <1>2, <1>4, DoubledGrows
<1> QED BY <1>1, <1>2, <1>4, <1>5 DEF Delay

\* What a grant appends.
LEMMA GrantAppended ==
  ASSUME Inv, NextDelay, UNCHANGED now
  PROVE  /\ N' = N + 1
         /\ DOMAIN grants' = 1..(N + 1)
         /\ grants' \in Seq(Grant)
         /\ \A i \in 1..N : grants'[i] = grants[i]
         /\ grants'[N + 1].at = now /\ grants'[N + 1].delay = Delay
<1> DEFINE g == [at |-> now, delay |-> Delay]
<1>1. Delay \in Nat
      BY DelayNext DEF NextDelay
<1>2. now \in Nat /\ grants \in Seq(Grant)
      BY DEF Inv, Numbers
<1>3. g \in Grant
      BY <1>1, <1>2 DEF Grant
<1>4. grants' = Append(grants, g)
      BY DEF NextDelay
<1> HIDE DEF g
<1>5. /\ Len(grants') = Len(grants) + 1 /\ grants' \in Seq(Grant)
      /\ DOMAIN grants' = 1..(Len(grants) + 1)
      /\ \A i \in 1..Len(grants) : grants'[i] = grants[i]
      /\ grants'[Len(grants) + 1] = g
      BY <1>2, <1>3, <1>4
<1> QED BY <1>5 DEF N, g

\* A restart granted in the window keeps what is said of the window ...
LEMMA GrantInWindow ==
  ASSUME Inv, NextDelay, UNCHANGED now, ~WindowOver
  PROVE  WindowInv' /\ RestartRate'
<1>1. /\ now \in Nat /\ windowStarted \in Nat /\ N \in Nat
      /\ restarts \in 0..MaxRestarts
      /\ \A i \in 1..N : grants[i].at \in Nat
      /\ DOMAIN grants = 1..N
      BY History DEF Inv, Numbers
<1>2. windowStarted' = windowStarted /\ restarts' = restarts + 1 /\ restarts < MaxRestarts
      BY DEF NextDelay, Used
<1>3. WindowInv
      BY DEF Inv
<1>4. WindowInv'
      BY <1>1, <1>2, <1>3, GrantAppended DEF WindowInv
<1>5. ASSUME NEW i \in 1..(N + 1), i + 2 * MaxRestarts = N + 1
      PROVE  now - grants'[i].at > Window
      <2>1. i \in 1..N /\ i <= N - restarts - MaxRestarts
            BY <1>1, <1>2, <1>5
      <2>2. grants[i].at + Window < windowStarted /\ windowStarted <= now
            BY <1>3, <2>1 DEF WindowInv
      <2> QED BY <1>1, <2>1, <2>2, GrantAppended
<1>6. RestartRate
      BY DEF Inv
<1>7. RestartRate'
      <2> SUFFICES ASSUME NEW i \in 1..(N + 1), i + 2 * MaxRestarts \in 1..(N + 1)
                   PROVE  grants'[i + 2 * MaxRestarts].at - grants'[i].at > Window
          BY GrantAppended DEF RestartRate
      <2>1. CASE i + 2 * MaxRestarts = N + 1
            BY <1>5, <2>1, GrantAppended
      <2>2. CASE i + 2 * MaxRestarts # N + 1
            <3>1. i \in 1..N /\ i + 2 * MaxRestarts \in 1..N
                  BY <1>1, <2>2
            <3>2. grants[i + 2 * MaxRestarts].at - grants[i].at > Window
                  BY <1>1, <1>6, <3>1 DEF RestartRate
            <3> QED BY <3>1, <3>2, GrantAppended
      <2> QED BY <2>1, <2>2
<1> QED BY <1>4, <1>7

\* ... and so does one that starts a window, which puts the old ones behind it.
LEMMA GrantNewWindow ==
  ASSUME Inv, NextDelay, UNCHANGED now, WindowOver
  PROVE  WindowInv' /\ RestartRate'
<1>1. /\ now \in Nat /\ windowStarted \in Nat /\ N \in Nat
      /\ restarts \in 0..MaxRestarts
      /\ \A i \in 1..N : grants[i].at \in Nat
      /\ DOMAIN grants = 1..N
      BY History DEF Inv, Numbers
<1>2. windowStarted' = now /\ restarts' = 1 /\ now - windowStarted > Window
      BY DEF NextDelay, Used, WindowOver
<1>3. WindowInv
      BY DEF Inv
<1>4. ASSUME NEW i \in 1..N, i <= N - MaxRestarts
      PROVE  grants[i].at + Window < now
      <2>1. grants[i].at <= windowStarted
            BY <1>1, <1>3, <1>4 DEF WindowInv
      <2> QED BY <1>1, <1>2, <2>1
<1>5. WindowInv'
      <2>1. ASSUME NEW i \in 1..(N + 1)
            PROVE  /\ grants'[i].at <= now
                   /\ i > N => grants'[i].at >= now
                   /\ i <= N - MaxRestarts => grants'[i].at + Window < now
            <3>1. CASE i \in 1..N
                  <4>1. grants[i].at <= now /\ grants'[i] = grants[i]
                        BY <1>3, <3>1, GrantAppended DEF WindowInv
                  <4> QED BY <1>1, <1>4, <3>1, <4>1
            <3>2. CASE i = N + 1
                  BY <1>1, <3>2, GrantAppended
            <3> QED BY <1>1, <3>1, <3>2
      <2> QED BY <1>1, <1>2, <2>1, GrantAppended DEF WindowInv
<1>6. RestartRate
      BY DEF Inv
<1>7. RestartRate'
      <2> SUFFICES ASSUME NEW i \in 1..(N + 1), i + 2 * MaxRestarts \in 1..(N + 1)
                   PROVE  grants'[i + 2 * MaxRestarts].at - grants'[i].at > Window
          BY GrantAppended DEF RestartRate
      <2>1. CASE i + 2 * MaxRestarts = N + 1
            <3>1. i \in 1..N /\ i <= N - MaxRestarts
                  BY <1>1, <2>1
            <3>2. grants[i].at + Window < now /\ grants'[i] = grants[i]
                  BY <1>4, <3>1, GrantAppended
            <3>3. grants'[i + 2 * MaxRestarts].at = now
                  BY <2>1, GrantAppended
            <3> QED BY <1>1, <3>1, <3>2, <3>3
      <2>2. CASE i + 2 * MaxRestarts # N + 1
            <3>1. i \in 1..N /\ i + 2 * MaxRestarts \in 1..N
                  BY <1>1, <2>2
            <3>2. grants[i + 2 * MaxRestarts].at - grants[i].at > Window
                  BY <1>1, <1>6, <3>1 DEF RestartRate
            <3> QED BY <3>1, <3>2, GrantAppended
      <2> QED BY <2>1, <2>2
<1> QED BY <1>5, <1>7

\* The delays of a restart that is granted follow from those before it.
LEMMA GrantBackoff ==
  ASSUME Inv, NextDelay, UNCHANGED <<now, policy>>, pc = "working"
  PROVE  DelayInv' /\ BackoffGrows' /\ BackoffRespected' /\ SleepInv'
<1>1. /\ now \in Nat /\ windowStarted \in Nat /\ N \in Nat
      /\ \A i \in 1..N : grants[i].at \in Nat /\ grants[i].delay \in Nat
      /\ DOMAIN grants = 1..N
      BY History DEF Inv, Numbers
<1>2. /\ policy = "Restart" /\ policy' = policy
      /\ windowStarted' = IF WindowOver THEN now ELSE windowStarted
      /\ nextBackoff' = Doubled(Delay) /\ wakeAt' = now + Delay /\ pc' = "backoff"
      BY DEF NextDelay
<1>3. WindowOver => now - windowStarted > Window
      BY DEF WindowOver
<1>4. \A i \in 1..N : grants[i].at <= now
      BY DEF Inv, WindowInv
<1>5. DelayInv'
      <2>1. DelayInv /\ windowStarted <= windowStarted'
            BY <1>1, <1>2, <1>3 DEF Inv, WindowInv
      <2>2. \A i \in 1..(N + 1) : grants'[i].delay \in InitialBackoff..MaxBackoff
            BY <1>1, <1>2, <2>1, DelayNext, GrantAppended DEF DelayInv
      <2>3. nextBackoff' = Doubled(grants'[N + 1].delay) /\ N + 1 # 0
            BY <1>1, <1>2, GrantAppended
      <2>4. ASSUME NEW i \in 2..(N + 1), grants'[i].delay = InitialBackoff, InitialBackoff < MaxBackoff
            PROVE  grants'[i].at <= windowStarted'
            <3>1. CASE i \in 2..N
                  <4>1. grants'[i] = grants[i] /\ grants[i].at <= windowStarted
                        BY <1>1, <2>1, <2>4, <3>1, GrantAppended DEF DelayInv
                  <4> QED BY <1>1, <1>2, <2>1, <3>1, <4>1
            <3>2. CASE i = N + 1
                  <4>1. WindowOver /\ grants'[i].at = now
                        BY <1>1, <1>2, <2>4, <3>2, DelayNext, GrantAppended
                  <4> QED BY <1>1, <1>2, <4>1
            <3> QED BY <1>1, <3>1, <3>2
      <2>5. N' = N + 1
            BY GrantAppended
      <2> QED BY <2>2, <2>3, <2>4, <2>5 DEF DelayInv, Doubled
<1>6. BackoffRespected'
      <2> SUFFICES ASSUME NEW i \in 1..(N + 1), i + 1 \in 1..(N + 1)
                   PROVE  grants'[i + 1].at >= grants'[i].at + grants'[i].delay
          BY GrantAppended DEF BackoffRespected
      <2>1. i \in 1..N /\ grants'[i] = grants[i]
            BY <1>1, GrantAppended
      <2>2. CASE i = N
            <3>1. now >= grants[N].at + grants[N].delay
                  BY <1>1, <2>1 DEF Inv, SleepInv
            <3> QED BY <2>1, <2>2, <3>1, GrantAppended
      <2>3. CASE i # N
            <3>1. i + 1 \in 1..N
                  BY <1>1, <2>1, <2>3
            <3>2. grants[i + 1].at >= grants[i].at + grants[i].delay
                  BY <1>1, <2>1, <3>1 DEF Inv, BackoffRespected
            <3> QED BY <2>1, <3>1, <3>2, GrantAppended
      <2> QED BY <2>2, <2>3
<1>7. ASSUME NEW i \in 1..(N + 1), i + 1 \in 1..(N + 1)
      PROVE  grants'[i + 1].delay \in {Doubled(grants'[i].delay), InitialBackoff}
      <2>1. i \in 1..N /\ grants'[i] = grants[i]
            BY <1>1, <1>7, GrantAppended
      <2>2. CASE i = N
            BY <1>1, <1>2, <2>1, <2>2, DelayNext, GrantAppended
      <2>3. CASE i # N
            <3>1. i + 1 \in 1..N
                  BY <1>1, <2>1, <2>3
            <3>2. grants[i + 1].delay \in {Doubled(grants[i].delay), InitialBackoff}
                  BY <1>1, <2>1, <3>1 DEF Inv, BackoffGrows
            <3> QED BY <2>1, <3>1, <3>2, GrantAppended
      <2> QED BY <2>2, <2>3
<1>8. ASSUME NEW i \in 1..(N + 1), NEW j \in 1..(N + 1), i < j, InitialBackoff < MaxBackoff,
             grants'[i].delay = InitialBackoff, grants'[j].delay = InitialBackoff
      PROVE  grants'[j].at - (IF i = 1 THEN 0 ELSE grants'[i].at) > Window
      <2>1. i \in 1..N /\ grants'[i] = grants[i] /\ grants[i].delay = InitialBackoff
            BY <1>1, <1>8, GrantAppended
      <2>2. CASE j = N + 1
            <3>1. WindowOver /\ grants'[j].at = now
                  BY <1>1, <1>2, <1>8, <2>2, DelayNext, GrantAppended
            <3>2. i # 1 => grants[i].at <= windowStarted
                  <4>1. i # 1 => i \in 2..N
                        BY <1>1, <2>1
                  <4> QED BY <1>8, <2>1, <4>1 DEF Inv, DelayInv
            <3> QED BY <1>1, <1>3, <2>1, <3>1, <3>2
      <2>3. CASE j # N + 1
            <3>1. j \in 1..N /\ grants'[j] = grants[j] /\ grants[j].delay = InitialBackoff
                  BY <1>1, <1>8, <2>3, GrantAppended
            <3>2. grants[j].at - (IF i = 1 THEN 0 ELSE grants[i].at) > Window
                  BY <1>1, <1>8, <2>1, <3>1 DEF Inv, BackoffGrows
            <3> QED BY <2>1, <3>1, <3>2
      <2> QED BY <2>2, <2>3
<1>9. BackoffGrows'
      BY <1>7, <1>8, GrantAppended DEF BackoffGrows, Doubled
<1>10. SleepInv'
      BY <1>2, GrantAppended DEF SleepInv
<1> QED BY <1>5, <1>6, <1>9, <1>10

\* The supervisor gives up only with the budget used up in this window.
LEMMA NoDelayGivesUp ==
  ASSUME Inv, NoDelay, UNCHANGED <<now, policy>>
  PROVE  GivesUpWhenExhausted'
<1>1. /\ now \in Nat /\ windowStarted \in Nat /\ N \in Nat
      /\ restarts \in 0..MaxRestarts
      /\ \A i \in 1..N : grants[i].at \in Nat
      BY History DEF Inv, Numbers
<1>2. CASE policy # "Restart"
      BY <1>2 DEF GivesUpWhenExhausted
<1>3. CASE policy = "Restart"
      <2>1. ~WindowOver /\ restarts = MaxRestarts
            <3>1. Used >= MaxRestarts
                  BY <1>3 DEF NoDelay
            <3> QED BY <1>1, <3>1 DEF Used
      <2>2. now - windowStarted <= Window
            BY <1>1, <2>1 DEF WindowOver
      <2>3. N >= MaxRestarts /\ grants[N - MaxRestarts + 1].at >= windowStarted
            <3>1. N >= MaxRestarts /\ N - MaxRestarts + 1 \in 1..N
                  BY <1>1, <2>1 DEF Inv, WindowInv
            <3> QED BY <1>1, <2>1, <3>1 DEF Inv, WindowInv
      <2>4. N - MaxRestarts + 1 \in 1..N
            BY <1>1, <2>3
      <2>5. now - grants[N - MaxRestarts + 1].at <= Window
            BY <1>1, <2>2, <2>3, <2>4
      <2> QED BY <2>3, <2>5 DEF GivesUpWhenExhausted, NoDelay, tracker, N
<1> QED BY <1>2, <1>3
-----------------------------------------------------------------------------
(* The steps of the supervisor.                                            *)

LEMMA WorkerReturnsInv == ASSUME Inv, WorkerReturns PROVE Inv'
<1>1. pc = "working" /\ UNCHANGED <<policy, signal, now, late>>
      BY DEF WorkerReturns
<1>2. CASE signal = "requested"
      <2>1. End("ok") /\ UNCHANGED tracker
            BY <1>2 DEF WorkerReturns
      <2> QED BY <1>1, <1>2, <2>1, EndInv
<1>3. CASE NextDelay
      <2>1. WindowInv' /\ RestartRate'
            BY <1>1, <1>3, GrantInWindow, GrantNewWindow
      <2>2. DelayInv' /\ BackoffGrows' /\ BackoffRespected' /\ SleepInv'
            BY <1>1, <1>3, GrantBackoff
      <2>3. Places'
            BY <1>1, <1>3 DEF Inv, Places, NextDelay
      <2>4. Numbers'
            <3>1. Delay \in InitialBackoff..MaxBackoff /\ Used \in Nat
                  BY <1>3, DelayNext DEF NextDelay, Used, Inv, Numbers
            <3>2. Doubled(Delay) \in 0..MaxBackoff
                  BY <3>1, DoubledGrows
            <3> QED BY <1>1, <1>3, <3>1, <3>2, GrantAppended DEF Inv, Numbers, NextDelay
      <2>5. result = "none"
            BY <1>1 DEF Inv, Loc
      <2>6. Loc' /\ GivesUpWhenExhausted' /\ OkMeansShutdown'
            <3>1. N' > 0
                  BY <1>1, <1>3, GrantAppended, History DEF Inv
            <3> QED BY <1>3, <2>5, <3>1 DEF NextDelay, Loc, GivesUpWhenExhausted, OkMeansShutdown
      <2>7. CASE signal # "requested"
            <3>1. LateInv'
                  BY <1>1, <2>7 DEF Inv, LateInv
            <3> QED BY <2>1, <2>2, <2>3, <2>4, <2>6, <3>1 DEF Inv
      <2> QED BY <1>2, <2>7
<1>4. CASE NoDelay
      <2>1. End("gave up") /\ UNCHANGED tracker
            BY <1>4 DEF NoDelay
      <2>2. now' \in Nat /\ now' >= now
            BY <1>1 DEF Inv, Numbers
      <2>3. Places' /\ Numbers'
            BY <1>1, <2>1 DEF Inv, Places, Numbers, tracker, End
      <2>4. Loc' /\ SleepInv' /\ LateInv'
            BY <1>1, <2>1, <2>2, SameHistory DEF Inv, Loc, SleepInv, LateInv, tracker, End
      <2>5. GivesUpWhenExhausted' /\ OkMeansShutdown'
            BY <1>1, <1>4, <2>1, NoDelayGivesUp DEF OkMeansShutdown, End
      <2> QED BY <1>1, <2>1, <2>2, <2>3, <2>4, <2>5, SameHistory DEF Inv
<1> QED BY <1>2, <1>3, <1>4 DEF WorkerReturns

\* A sleep that is over moves the supervisor on; only this step can start late.
LEMMA BackoffOverInv == ASSUME Inv, BackoffOver PROVE Inv'
<1>1. /\ pc = "backoff" /\ now >= wakeAt /\ pc' = "registering"
      /\ late' = IF signal = "requested" THEN late + 1 ELSE late
      /\ UNCHANGED <<policy, signal, result, now, tracker>>
      BY DEF BackoffOver
<1>2. now' \in Nat /\ now' >= now
      BY <1>1 DEF Inv, Numbers
<1>3. late = 0
      <2>1. late \in Nat /\ late <= 1 /\ late # 1
            BY <1>1 DEF Inv, Numbers, LateInv
      <2> QED BY <2>1
<1>4. Places' /\ Numbers'
      <2>1. Places'
            BY <1>1 DEF Inv, Places
      <2>2. Numbers'
            BY <1>1, <1>3 DEF Inv, Numbers, tracker
      <2> QED BY <2>1, <2>2
<1>5. Loc' /\ SleepInv'
      BY <1>1, <1>2, SameHistory DEF Inv, Loc, SleepInv, tracker
<1>6. LateInv'
      BY <1>1, <1>3 DEF LateInv
<1>7. GivesUpWhenExhausted' /\ OkMeansShutdown'
      BY <1>1 DEF Inv, Loc, GivesUpWhenExhausted, OkMeansShutdown
<1> QED BY <1>1, <1>2, <1>4, <1>5, <1>6, <1>7, SameHistory DEF Inv

LEMMA RegisteredInv == ASSUME Inv, Registered PROVE Inv'
<1>1. /\ pc = "registering" /\ pc' = "working"
      /\ UNCHANGED <<policy, signal, result, now, tracker, late>>
      BY DEF Registered
<1>2. now' \in Nat /\ now' >= now
      BY <1>1 DEF Inv, Numbers
<1>3. Places' /\ Numbers'
      BY <1>1 DEF Inv, Places, Numbers, tracker
<1>4. Loc' /\ SleepInv' /\ LateInv'
      BY <1>1, <1>2, SameHistory DEF Inv, Loc, SleepInv, LateInv, tracker
<1>5. GivesUpWhenExhausted' /\ OkMeansShutdown'
      BY <1>1 DEF Inv, Loc, GivesUpWhenExhausted, OkMeansShutdown
<1> QED BY <1>1, <1>2, <1>3, <1>4, <1>5, SameHistory DEF Inv

\* The other ends: the runtime's abort, a panic, a shutdown, a failed registration.
LEMMA OtherEndsInv ==
  ASSUME Inv, Abort \/ WorkerPanics \/ BackoffInterrupted \/ RegistrationFailed
  PROVE  Inv'
<1>1. CASE Abort
      BY <1>1, EndInv DEF Abort
<1>2. CASE WorkerPanics
      BY <1>2, EndInv DEF WorkerPanics
<1>3. CASE BackoffInterrupted
      BY <1>3, EndInv DEF BackoffInterrupted
<1>4. CASE RegistrationFailed
      BY <1>4, EndInv DEF RegistrationFailed
<1> QED BY <1>1, <1>2, <1>3, <1>4

LEMMA NextInv == ASSUME Inv, [Next]_vars PROVE Inv'
<1>1. CASE Tick
      BY <1>1, TickInv
<1>2. CASE Signal
      BY <1>2, SignalInv
<1>3. CASE WorkerReturns
      BY <1>3, WorkerReturnsInv
<1>4. CASE BackoffOver
      BY <1>4, BackoffOverInv
<1>5. CASE Registered
      BY <1>5, RegisteredInv
<1>6. CASE Abort \/ WorkerPanics \/ BackoffInterrupted \/ RegistrationFailed
      BY <1>6, OtherEndsInv
<1>7. CASE UNCHANGED vars
      <2>1. UNCHANGED <<policy, signal, pc, result, now, tracker, late>>
            BY <1>7 DEF vars, tracker
      <2>2. now' \in Nat /\ now' >= now
            BY <2>1 DEF Inv, Numbers
      <2>3. Places' /\ Numbers'
            BY <2>1 DEF Inv, Places, Numbers, tracker
      <2>4. Loc' /\ SleepInv' /\ LateInv'
            BY <2>1, <2>2, SameHistory DEF Inv, Loc, SleepInv, LateInv, tracker
      <2>5. GivesUpWhenExhausted' /\ OkMeansShutdown'
            BY <2>1 DEF Inv, GivesUpWhenExhausted, OkMeansShutdown, tracker
      <2> QED BY <2>1, <2>2, <2>3, <2>4, <2>5, SameHistory DEF Inv
<1> QED BY <1>1, <1>2, <1>3, <1>4, <1>5, <1>6, <1>7 DEF Next, Supervise, Terminated
-----------------------------------------------------------------------------
\* The invariant holds in every reachable state, for every configuration that
\* AppConfig::validate accepts.
THEOREM Invariance == Spec => []Inv
<1>1. Init => Inv
      BY InitInv
<1>2. Inv /\ [Next]_vars => Inv'
      BY NextInv
<1> QED BY <1>1, <1>2, PTL DEF Spec

\* The tracker's fields keep their ranges; the backoff never exceeds its maximum.
THEOREM TypeCorrect == Spec => []TypeOK
<1>1. Inv => TypeOK
      BY DEF Inv, Places, Numbers, TypeOK
<1> QED BY <1>1, Invariance, PTL

\* No more than twice the budget of restarts is granted in an interval as long as
\* the window, however the failures fall (lines 712-722).
THEOREM RateOfRestarts == Spec => []RestartRate
<1>1. Inv => RestartRate
      BY DEF Inv
<1> QED BY <1>1, Invariance, PTL

\* Under Restart a supervisor gives up only after MaxRestarts restarts within one
\* Window (lines 717-719).
THEOREM BudgetUsedUp == Spec => []GivesUpWhenExhausted
<1>1. Inv => GivesUpWhenExhausted
      BY DEF Inv
<1> QED BY <1>1, Invariance, PTL

\* Delays are waited for, double up to the maximum and start anew at most once in
\* a Window (lines 712-734).
THEOREM BackoffDiscipline == Spec => [](BackoffGrows /\ BackoffRespected)
<1>1. Inv => BackoffGrows /\ BackoffRespected
      BY DEF Inv
<1> QED BY <1>1, Invariance, PTL

\* After a shutdown request the supervisor starts its worker at most once more, and
\* it returns Ok only after one (lines 419-444).
THEOREM ShutdownObeyed == Spec => [](LateRestart /\ OkMeansShutdown)
<1>1. Inv => LateRestart /\ OkMeansShutdown
      BY DEF Inv, LateInv, LateRestart
<1> QED BY <1>1, Invariance, PTL
-----------------------------------------------------------------------------
(* The runtime of the application.                                         *)

\* Before App::start spawns run(), nothing was asked of anybody.
Started ==
  /\ stage \in {"hook", "starting"} =>
       starting /\ ~failedStart /\ shutdown = "running" /\ joined = {}
  /\ stage = "running" /\ Requested => failedStart \/ asked

\* The stages after the drain find no worker alive, and none was aborted silently.
Closing == {"stopping", "draining client", "done"}

Tasks ==
  /\ \A w \in joined : task[w] \in Ended
  /\ stage \in Closing => \A w \in Workers : task[w] \notin Alive
  /\ \A w \in Workers : task[w] \in {"aborting", "aborted"} =>
       /\ expired
       /\ stage \in {"aborting", "dropped"} \cup Closing
       /\ stage \in Closing => failure # "none"

Registrations ==
  /\ \A s \in Services : service[s] # "referenced"
  /\ stage \in {"draining client", "done"} => \A s \in Services : service[s] # "registered"
  /\ client = "drained" => stage = "done"

\* Who brought the application down: its owner, a failed start, or a failure it keeps.
Caused ==
  stage \in {"shutdownHook", "draining", "aborting"} \cup Closing =>
    failedStart \/ asked \/ failure # "none"

AppInv ==
  /\ AppTypeOK
  /\ Started
  /\ Tasks
  /\ Registrations
  /\ Caused
-----------------------------------------------------------------------------
(* The invariant is inductive.                                             *)

LEMMA AppInitInv == AppInit => AppInv
<1>1. SUFFICES ASSUME AppInit PROVE AppInv
  OBVIOUS
<1>2. 0 \in 0..Len(Startup)
  BY StartupAssumption
<1>3. AppTypeOK
  BY <1>1, <1>2, StartupAssumption DEF AppInit, AppTypeOK, Stages
<1>4. Started /\ Tasks /\ Registrations /\ Caused
  BY <1>1 DEF AppInit, Started, Requested, Tasks, Closing, Alive, Ended, Registrations, Caused
<1>5. QED
  BY <1>1, <1>3, <1>4 DEF AppInv

\* First keeps an earlier failure, and is never none.
LEMMA FirstFailure ==
  ASSUME AppTypeOK, NEW f \in {"hook", "drain", "service", "client"}
  PROVE  First(f) # "none" /\ First(f) \in {"none", "worker", "hook", "drain", "service", "client"}
BY DEF First, AppTypeOK

\* The element that start_all comes to is a service or a worker.
LEMMA StartupElement ==
  ASSUME AppTypeOK, startedTo < Len(Startup)
  PROVE  /\ Startup[startedTo + 1] \in Workers \cup Services
         /\ startedTo + 1 \in 0..Len(Startup)
BY StartupAssumption DEF AppTypeOK

LEMMA AppStartInv == ASSUME AppInv, Start PROVE AppInv'
<1> USE DEF AppInv, Started, Requested, Tasks, Closing, Registrations, Caused, Stages
<1>1. CASE StartupHookDone
  BY <1>1 DEF StartupHookDone, AppTypeOK
<1>2. CASE StartupHookFailed \/ StartFailed
  BY <1>2 DEF StartupHookFailed, StartFailed, FailStart, AppTypeOK
<1>3. CASE StartNext
  <2>1. /\ stage = "starting" /\ stage' = "starting" /\ joined = {}
        /\ task' \in [Workers -> {"absent"} \cup Alive \cup Ended]
        /\ \A w \in Workers : task'[w] \in {task[w], "running"}
        /\ service' \in [Services -> {"absent", "registered", "stopped", "referenced", "dropped"}]
        /\ \A s \in Services : service'[s] \in {service[s], "registered"}
        /\ startedTo' \in 0..Len(Startup)
    BY <1>3, StartupAssumption, StartupElement DEF StartNext, AppTypeOK, Alive
  <2>2. AppTypeOK'
    BY <1>3, <2>1 DEF StartNext, AppTypeOK
  <2>3. QED
    BY <1>3, <2>1, <2>2 DEF StartNext
<1>4. CASE StartDone
  BY <1>4 DEF StartDone, AppTypeOK
<1>5. CASE StartAbandoned
  BY <1>5 DEF StartAbandoned, DropRuntime, AppTypeOK
<1>6. QED
  BY <1>1, <1>2, <1>3, <1>4, <1>5 DEF Start

LEMMA AppSurroundingsInv == ASSUME AppInv, Surroundings PROVE AppInv'
<1> USE DEF AppInv, Started, Requested, Tasks, Closing, Registrations, Caused, Stages
<1>1. ASSUME NEW w \in Workers, NEW how \in {"ok", "failed", "panicked"}, WorkerEnds(w, how)
      PROVE  AppInv'
  <2>1. /\ task[w] \in Alive /\ how \in Ended
        /\ task' \in [Workers -> {"absent"} \cup Alive \cup Ended]
        /\ \A v \in Workers : task'[v] = IF v = w THEN how ELSE task[v]
    BY <1>1 DEF WorkerEnds, AppTypeOK, Ended
  <2>2. AppTypeOK'
    BY <1>1, <2>1, ZenonT(60) DEF WorkerEnds, AppTypeOK
  <2>3. \A v \in Workers : v \in joined => task'[v] = task[v]
    BY <2>1 DEF Alive, Ended
  <2>4. Tasks'
    BY <1>1, <2>1, <2>3 DEF WorkerEnds, AppTypeOK, Alive
  <2>5. QED
    BY <1>1, <2>2, <2>4 DEF WorkerEnds
<1>2. ASSUME NEW w \in Workers, Aborted(w) PROVE AppInv'
  BY <1>2, ZenonT(60) DEF Aborted, AppTypeOK, Alive, Ended
<1>3. CASE RequestShutdown
  BY <1>3 DEF RequestShutdown, AppTypeOK
<1>4. CASE DeadlinePasses
  BY <1>4 DEF DeadlinePasses, AppTypeOK
<1>5. QED
  BY <1>1, <1>2, <1>3, <1>4 DEF Surroundings

LEMMA AppRunInv == ASSUME AppInv, Run PROVE AppInv'
<1> USE DEF AppInv, Started, Requested, Tasks, Closing, Registrations, Caused, Stages
<1>1. CASE SeeShutdown
  BY <1>1 DEF SeeShutdown, AppTypeOK
<1>2. ASSUME NEW w \in Workers, Join(w) \/ JoinDiscarded(w) \/ DrainJoin(w) PROVE AppInv'
  BY <1>2, ZenonT(60) DEF Join, JoinDiscarded, DrainJoin, AppTypeOK
<1>3. CASE HookDone
  BY <1>3, FirstFailure DEF HookDone, AppTypeOK
<1>4. CASE HookPanics
  BY <1>4 DEF HookPanics, DropRuntime, AppTypeOK
<1>5. CASE Drained
  <2>1. \A w \in Workers : task[w] \notin Alive
    BY <1>5 DEF Drained, With, Alive, Ended, AppTypeOK
  <2>2. \A w \in Workers : task[w] \notin {"aborting", "aborted"}
    BY <1>5 DEF Drained
  <2>3. QED
    BY <1>5, <2>1, <2>2 DEF Drained, AppTypeOK
<1>6. CASE DrainTimeout
  BY <1>6 DEF DrainTimeout, AppTypeOK, Alive, Ended
<1>7. CASE AbortDone
  <2>1. \A w \in Workers : task[w] \notin Alive
    BY <1>7 DEF AbortDone, With
  <2>2. /\ joined' \in SUBSET Workers /\ \A w \in joined' : task[w] \in Ended
        /\ failure' # "none"
    BY <1>7, FirstFailure DEF AbortDone, With
  <2>3. AppTypeOK'
    BY <1>7, <2>2, FirstFailure DEF AbortDone, AppTypeOK
  <2>4. QED
    BY <1>7, <2>1, <2>2, <2>3 DEF AbortDone
<1>8. ASSUME NEW s \in Services, StopService(s) PROVE AppInv'
  <2>1. Holders(s) = {}
    BY <1>8 DEF StopService, Holders, With
  <2>2. service' = [service EXCEPT ![s] = "stopped"] /\ UNCHANGED failure
    BY <1>8, <2>1 DEF StopService
  <2>3. QED
    BY <1>8, <2>2 DEF StopService, AppTypeOK
<1>9. CASE ServicesStopped
  BY <1>9 DEF ServicesStopped, AppTypeOK
<1>10. CASE DrainClient
  BY <1>10, FirstFailure DEF DrainClient, AppTypeOK
<1>11. QED
  BY <1>1, <1>2, <1>3, <1>4, <1>5, <1>6, <1>7, <1>8, <1>9, <1>10 DEF Run

LEMMA AppNextInv == AppInv /\ [AppNext]_appVars => AppInv'
<1>1. SUFFICES ASSUME AppInv, [AppNext]_appVars PROVE AppInv'
  OBVIOUS
<1>2. CASE UNCHANGED appVars
  <2>1. AppTypeOK'
    BY <1>1, <1>2 DEF appVars, AppInv, AppTypeOK
  <2>2. Started' /\ Caused'
    BY <1>1, <1>2 DEF appVars, AppInv, Started, Requested, Caused
  <2>3. Tasks' /\ Registrations'
    BY <1>1, <1>2 DEF appVars, AppInv, Tasks, Registrations
  <2>4. QED
    BY <1>1, <2>1, <2>2, <2>3 DEF AppInv
<1>3. QED
  BY <1>1, <1>2, AppStartInv, AppRunInv, AppSurroundingsInv DEF AppNext, AppTerminated

\* Inv holds in every state of every application.
THEOREM AppInvariance == AppSpec => []AppInv
BY AppInitInv, AppNextInv, PTL DEF AppSpec
-----------------------------------------------------------------------------
(* What follows from the invariant.                                        *)

\* The variables keep their types; a stage, a task or a failure is never another.
THEOREM AppTypeCorrect == AppSpec => []AppTypeOK
<1>1. AppInv => AppTypeOK
  BY DEF AppInv
<1>2. QED
  BY <1>1, AppInvariance, PTL

\* When the client is drained no task is alive and no service is registered, whether the
\* application ran, failed to start, or had to abort its workers.
THEOREM ClientLast == AppSpec => []ClientDrainedLast
<1>1. AppInv => ClientDrainedLast
  BY DEF AppInv, Tasks, Registrations, Closing, ClientDrainedLast, With
<1>2. QED
  BY <1>1, AppInvariance, PTL

\* A registration is never still referenced when it is stopped: the error branch is dead code.
THEOREM NeverReferenced == AppSpec => []ServicesReleased
<1>1. AppInv => ServicesReleased
  BY DEF AppInv, Registrations, ServicesReleased
<1>2. QED
  BY <1>1, AppInvariance, PTL

\* Only a worker that outlived the deadline is aborted, and its application returns an error.
THEOREM AbortsAreReported == AppSpec => []AbortsReported
<1>1. AppInv => AbortsReported
  BY DEF AppInv, Tasks, Closing, AbortsReported, With
<1>2. QED
  BY <1>1, AppInvariance, PTL

\* An application that started and returns Ok was asked to stop by its owner.
THEOREM OkWasAsked == AppSpec => []OkMeansAsked
<1>1. AppInv => OkMeansAsked
  BY DEF AppInv, Caused, Closing, OkMeansAsked
<1>2. QED
  BY <1>1, AppInvariance, PTL
-----------------------------------------------------------------------------
(* The runtime keeps what Lifecycle promises the owner.                    *)

\* The owner has a handle to ask with only when the start succeeded, and the channel
\* closes only when App::start is abandoned before anybody could ask.
HandleInv ==
  /\ starting => ~asked
  /\ failedStart => starting
  /\ starting => failedStart \/ stage \in {"hook", "starting", "dropped"}
  /\ stage \in {"hook", "starting"} => failure = "none"
  /\ shutdown = "closed" => starting /\ stage = "dropped"
  /\ stage \notin {"hook", "starting", "running", "dropped"} => Requested

LEMMA HandleNext == AppInv /\ HandleInv /\ [AppNext]_appVars => HandleInv'
<1>1. SUFFICES ASSUME AppInv, HandleInv, [AppNext]_appVars PROVE HandleInv'
  OBVIOUS
<1> USE DEF HandleInv, Requested
<1>2. Started
  BY <1>1 DEF AppInv
<1>3. CASE Start
  <2>1. CASE StartupHookDone \/ StartDone
    BY <1>1, <1>2, <2>1 DEF StartupHookDone, StartDone, Started
  <2>2. CASE StartupHookFailed \/ StartFailed
    BY <1>1, <1>2, <2>2 DEF StartupHookFailed, StartFailed, FailStart, Started
  <2>3. CASE StartNext
    BY <1>1, <2>3 DEF StartNext
  <2>4. CASE StartAbandoned
    BY <1>1, <2>4 DEF StartAbandoned, DropRuntime
  <2>5. QED
    BY <1>3, <2>1, <2>2, <2>3, <2>4 DEF Start
<1>4. CASE Surroundings
  <2>1. CASE RequestShutdown
    BY <1>1, <2>1 DEF RequestShutdown
  <2>2. ASSUME UNCHANGED <<starting, asked, failedStart, stage, failure, shutdown>> PROVE HandleInv'
    BY <1>1, <2>2
  <2>3. QED
    BY <1>4, <2>1, <2>2, ZenonT(60) DEF Surroundings, WorkerEnds, Aborted, DeadlinePasses
<1>5. CASE Run
  <2>1. ASSUME stage \notin {"hook", "starting", "dropped"}, stage' \notin {"hook", "starting", "dropped"},
               Requested, shutdown' \in {shutdown, "draining"},
               UNCHANGED <<starting, asked, failedStart>>
        PROVE  HandleInv'
    <3>1. shutdown' # "closed" /\ Requested'
      BY <2>1
    <3>2. starting => failedStart
      BY <1>1, <2>1
    <3>3. QED
      BY <1>1, <2>1, <3>1, <3>2
  <2>2. ASSUME NEW w \in Workers, Join(w) \/ JoinDiscarded(w) \/ DrainJoin(w) PROVE HandleInv'
    BY <1>1, <2>2 DEF Join, JoinDiscarded, DrainJoin
  <2>3. CASE SeeShutdown \/ HookDone
    BY <1>1, <2>1, <2>3 DEF SeeShutdown, HookDone
  <2>4. CASE Drained \/ DrainTimeout \/ AbortDone
    BY <1>1, <2>1, <2>4 DEF Drained, DrainTimeout, AbortDone
  <2>5. CASE ServicesStopped \/ DrainClient
    BY <1>1, <2>1, <2>5 DEF ServicesStopped, DrainClient
  <2>6. CASE HookPanics
    BY <1>1, <2>6 DEF HookPanics, DropRuntime
  <2>7. ASSUME NEW s \in Services, StopService(s) PROVE HandleInv'
    BY <1>1, <2>7 DEF StopService
  <2>8. QED
    BY <1>5, <2>2, <2>3, <2>6, <2>7, <2>4, <2>5 DEF Run
<1>6. CASE UNCHANGED appVars
  BY <1>1, <1>6 DEF appVars
<1>7. QED
  BY <1>1, <1>3, <1>4, <1>5, <1>6 DEF AppNext, AppTerminated

LEMMA HandleInvariance == AppSpec => [](AppInv /\ HandleInv)
<1>1. AppInit => HandleInv
  BY DEF AppInit, HandleInv
<1>2. QED
  BY <1>1, AppInitInv, AppNextInv, HandleNext, PTL DEF AppSpec

LEMMA InitOwner == AppInit => Owner!Init
<1>1. SUFFICES ASSUME AppInit PROVE Owner!Init
  OBVIOUS
<1>2. InUse = {} /\ Blame = {}
  BY <1>1 DEF AppInit, InUse, With, Alive, Blame
<1>3. QED
  BY <1>1, <1>2 DEF AppInit, Owner!Init, Phase, Returned

\* The parts of the owner's view that a step leaves alone.
LEMMA SameUsers ==
  ASSUME UNCHANGED <<task, service>>
  PROVE  InUse' = InUse
BY DEF InUse, With

LEMMA SameBlame ==
  ASSUME UNCHANGED <<asked, failedStart, failure>>
  PROVE  Blame' = Blame
BY DEF Blame

\* One failure more, or none: what it adds to the blame.
LEMMA MoreBlame ==
  ASSUME UNCHANGED <<asked, failedStart>>, failure' = failure \/ failure' # "none"
  PROVE  Blame' = IF failure' = "none" THEN Blame ELSE Blame \cup {"failure"}
BY DEF Blame

\* The runtime is dropped while it starts, or in its way to the end.
LEMMA DropOwner ==
  ASSUME AppTypeOK, DropRuntime, Phase \in {"starting", "stopping"}
  PROVE  Owner!Next
<1>1. /\ stage' = "dropped" /\ UNCHANGED <<task, asked, failedStart, failure, client>>
      /\ \A s \in Services : service'[s] # "registered"
      /\ \A s \in Services : service'[s] = "referenced" => service[s] = "referenced"
  BY DEF DropRuntime, AppTypeOK
<1>2. InUse' \in SUBSET InUse /\ Blame' = Blame
  BY <1>1, SameBlame DEF InUse, With
<1>3. Phase' = "dropped" /\ Returned' = Returned
  BY <1>1 DEF Phase, Returned
<1>4. QED
  BY <1>1, <1>2, <1>3 DEF Owner!Next, Owner!Drop

LEMMA StartOwner ==
  ASSUME AppInv, HandleInv, Start
  PROVE  [Owner!Next]_(Owner!vars)
<1> USE DEF Owner!vars
<1>1. Started /\ AppTypeOK
  BY DEF AppInv
<1>2. CASE StartupHookDone
  <2>1. InUse' = InUse /\ Blame' = Blame
    BY <1>2, SameUsers, SameBlame DEF StartupHookDone
  <2>2. QED
    BY <1>2, <2>1 DEF StartupHookDone, Phase, Returned
<1>3. CASE StartupHookFailed \/ StartFailed
  <2>1. /\ stage \in {"hook", "starting"} /\ stage' = "running" /\ failedStart'
        /\ UNCHANGED <<task, service, asked, failure, client>>
    BY <1>3 DEF StartupHookFailed, StartFailed, FailStart
  <2>2. InUse' = InUse
    BY <2>1, SameUsers
  <2>3. Blame' = {"start"}
    BY <1>1, <2>1 DEF Blame, HandleInv, Started
  <2>4. Phase = "starting" /\ Phase' = "stopping" /\ Returned' = Returned
    BY <2>1 DEF Phase, Returned
  <2>5. QED
    BY <2>1, <2>2, <2>3, <2>4 DEF Owner!Next, Owner!FailStart
<1>4. CASE StartNext
  <2> DEFINE x == Startup[startedTo + 1]
  <2>1. /\ stage = "starting" /\ x \in Workers \cup Services
        /\ UNCHANGED <<stage, failedStart, asked, failure, client>>
    BY <1>1, <1>4, StartupElement DEF StartNext
  <2>2. InUse' = InUse \cup {x}
    <3>1. CASE x \in Services
      <4>1. service' = [service EXCEPT ![x] = "registered"] /\ UNCHANGED task
        BY <1>4, <3>1 DEF StartNext
      <4>2. \A s \in Services : service'[s] = "registered" <=> s = x \/ service[s] = "registered"
        BY <1>1, <3>1, <4>1 DEF AppTypeOK
      <4>3. QED
        BY <3>1, <4>1, <4>2 DEF InUse, With
    <3>2. CASE x \notin Services
      <4>1. task' = [task EXCEPT ![x] = "running"] /\ UNCHANGED service
        BY <1>4, <3>2 DEF StartNext
      <4>2. \A w \in Workers : task'[w] \in Alive <=> w = x \/ task[w] \in Alive
        BY <1>1, <4>1 DEF AppTypeOK, Alive
      <4>3. QED
        BY <2>1, <3>2, <4>1, <4>2 DEF InUse, With
    <3>3. QED
      BY <3>1, <3>2
  <2>3. Blame' = Blame /\ Phase = "starting" /\ Phase' = Phase /\ Returned' = Returned
    BY <2>1, SameBlame DEF Phase, Returned
  <2>4. QED
    BY <2>1, <2>2, <2>3 DEF Owner!Next, Owner!Acquire
<1>5. CASE StartDone
  <2>1. /\ stage = "starting" /\ stage' = "running"
        /\ UNCHANGED <<task, service, asked, failedStart, failure, client>>
    BY <1>5 DEF StartDone
  <2>2. InUse' = InUse /\ Blame' = Blame
    BY <2>1, SameUsers, SameBlame
  <2>3. Phase = "starting" /\ Phase' = "serving" /\ Returned' = Returned
    BY <1>1, <2>1 DEF Phase, Returned, Started
  <2>4. QED
    BY <2>1, <2>2, <2>3 DEF Owner!Next, Owner!Serve
<1>6. CASE StartAbandoned
  BY <1>1, <1>6, DropOwner DEF StartAbandoned, HandleInv, Phase
<1>7. QED
  BY <1>2, <1>3, <1>4, <1>5, <1>6 DEF Start

\* A step in which the owner sees nothing.
LEMMA UnseenByOwner ==
  ASSUME UNCHANGED <<asked, failedStart, failure, client>>, InUse' = InUse, Phase' = Phase
  PROVE  UNCHANGED Owner!vars
<1>1. Blame' = Blame
  BY SameBlame
<1>2. (stage = "done") <=> (stage' = "done")
  BY DEF Phase
<1>3. QED
  BY <1>1, <1>2 DEF Owner!vars, Returned

\* A worker or a registration goes.
LEMMA ReleaseOwner ==
  ASSUME NEW u \in Workers \cup Services, InUse' = InUse \ {u},
         UNCHANGED <<stage, asked, failedStart, failure, client>>
  PROVE  Owner!Next
<1>1. Blame' = Blame /\ Phase' = Phase /\ Returned' = Returned
  BY SameBlame DEF Phase, Returned
<1>2. QED
  BY <1>1 DEF Owner!Next, Owner!Release

LEMMA SurroundingsOwner ==
  ASSUME AppInv, HandleInv, Surroundings
  PROVE  [Owner!Next]_(Owner!vars)
<1>1. AppTypeOK /\ Started
  BY DEF AppInv
<1>2. ASSUME NEW w \in Workers, NEW how \in Ended, task' = [task EXCEPT ![w] = how],
             UNCHANGED <<stage, service, asked, failedStart, failure, client>>
      PROVE  Owner!Next
  <2>1. \A v \in Workers : task'[v] \in Alive <=> task[v] \in Alive /\ v # w
    BY <1>1, <1>2 DEF AppTypeOK, Alive, Ended
  <2>2. w \notin Services
    BY StartupAssumption
  <2>3. InUse' = InUse \ {w}
    BY <1>2, <2>1, <2>2 DEF InUse, With
  <2>4. QED
    BY <1>2, <2>3, ReleaseOwner
<1>3. ASSUME NEW w \in Workers, NEW how \in {"ok", "failed", "panicked"}, WorkerEnds(w, how)
      PROVE  Owner!Next
  BY <1>2, <1>3 DEF WorkerEnds, Ended
<1>4. ASSUME NEW w \in Workers, Aborted(w) PROVE Owner!Next
  BY <1>2, <1>4 DEF Aborted, Ended
<1>5. CASE RequestShutdown
  <2>1. /\ ~starting /\ ~asked /\ asked' /\ UNCHANGED <<stage, task, service, failedStart, failure, client>>
    BY <1>5 DEF RequestShutdown
  <2>2. ~failedStart /\ stage \notin {"hook", "starting"}
    BY <1>1, <2>1 DEF HandleInv, Started
  <2>3. Blame \cap {"owner", "start"} = {} /\ Blame' = Blame \cup {"owner"}
    BY <2>1, <2>2 DEF Blame
  <2>4. InUse' = InUse /\ Phase' = Phase /\ Phase # "starting" /\ Returned' = Returned
    BY <2>1, <2>2, SameUsers DEF Phase, Returned
  <2>5. QED
    BY <2>1, <2>3, <2>4 DEF Owner!Next, Owner!Ask
<1>6. CASE DeadlinePasses
  <2>1. UNCHANGED <<stage, task, service, asked, failedStart, failure, client>>
    BY <1>6 DEF DeadlinePasses
  <2>2. QED
    BY <2>1, SameUsers, UnseenByOwner DEF Phase
<1>7. QED
  BY <1>3, <1>4, <1>5, <1>6 DEF Surroundings

\* The runtime leaves its loop with a reason.
LEMMA StopOwner ==
  ASSUME AppTypeOK, stage = "running", stage' = "shutdownHook",
         UNCHANGED <<task, service, asked, failedStart, client>>,
         failure' = failure \/ failure' # "none",
         failedStart \/ asked \/ failure' # "none"
  PROVE  [Owner!Next]_(Owner!vars)
<1>1. InUse' = InUse /\ Returned' = Returned /\ Phase' = "stopping"
  BY SameUsers DEF Returned, Phase
<1>2. Blame' = IF failure' = "none" THEN Blame ELSE Blame \cup {"failure"}
  BY MoreBlame
<1>3. CASE failedStart
  <2>1. Phase = "stopping"
    BY <1>3 DEF Phase
  <2>2. CASE Blame' = Blame
    BY <1>1, <2>1, <2>2 DEF Owner!vars
  <2>3. CASE Blame' = Blame \cup {"failure"}
    BY <1>1, <2>1, <2>3 DEF Owner!Next, Owner!Fault
  <2>4. QED
    BY <1>2, <2>2, <2>3
<1>4. CASE ~failedStart
  <2>1. Phase = "serving"
    BY <1>4 DEF Phase
  <2>2. Blame' # {}
    BY <1>4 DEF Blame
  <2>3. Blame' \in {Blame, Blame \cup {"failure"}} \ {{}}
    BY <1>2, <2>2
  <2>4. QED
    BY <1>1, <2>1, <2>3 DEF Owner!Next, Owner!Stop
<1>5. QED
  BY <1>3, <1>4

\* Something may fail while it stops.
LEMMA FaultOwner ==
  ASSUME Phase = "stopping", Phase' = "stopping",
         UNCHANGED <<task, service, asked, failedStart, client>>,
         failure' = failure \/ failure' # "none"
  PROVE  [Owner!Next]_(Owner!vars)
<1>1. InUse' = InUse /\ stage # "done" /\ stage' # "done"
  BY SameUsers DEF Phase
<1>2. Returned' = Returned
  BY <1>1 DEF Returned
<1>3. CASE Blame' = Blame
  BY <1>1, <1>2, <1>3 DEF Owner!vars
<1>4. CASE Blame' = Blame \cup {"failure"}
  BY <1>1, <1>2, <1>4 DEF Owner!Next, Owner!Fault
<1>5. QED
  BY <1>3, <1>4, MoreBlame

LEMMA FinishOwner ==
  ASSUME AppInv, DrainClient
  PROVE  Owner!Next
<1>1. /\ stage = "draining client" /\ stage' = "done" /\ client' = "drained"
      /\ failure' \in {failure, First("client")}
      /\ UNCHANGED <<task, service, asked, failedStart>>
  BY DEF DrainClient
<1>2. AppTypeOK /\ Tasks /\ Registrations /\ Caused
  BY DEF AppInv
<1>3. InUse = {} /\ InUse' = InUse
  <2>1. With(Alive) = {}
    BY <1>1, <1>2 DEF Tasks, Closing, With
  <2>2. \A s \in Services : service[s] \notin {"registered", "referenced"}
    BY <1>1, <1>2 DEF Registrations
  <2>3. QED
    BY <1>1, <2>1, <2>2, SameUsers DEF InUse
<1>4. First("client") # "none"
  BY <1>2, FirstFailure
<1>5. Blame' \in {Blame, Blame \cup {"failure"}}
  BY <1>1, <1>4, MoreBlame
<1>6. failedStart \/ asked \/ failure # "none"
  BY <1>1, <1>2 DEF Caused, Closing
<1>7. Returned' = IF Blame' = {"owner"} THEN "ok" ELSE "error"
  <2>1. CASE failedStart' \/ failure' # "none"
    <3>1. Blame' # {"owner"}
      BY <2>1 DEF Blame
    <3>2. QED
      BY <1>1, <2>1, <3>1 DEF Returned
  <2>2. CASE ~(failedStart' \/ failure' # "none")
    <3>1. failure' = failure
      BY <1>1, <1>4, <2>2
    <3>2. asked'
      BY <1>1, <1>6, <2>2, <3>1
    <3>3. Blame' = {"owner"}
      BY <2>2, <3>2 DEF Blame
    <3>4. QED
      BY <1>1, <2>2, <3>3 DEF Returned
  <2>3. QED
    BY <2>1, <2>2
<1>8. Phase = "stopping" /\ Phase' = "stopped"
  BY <1>1 DEF Phase
<1>9. QED
  BY <1>1, <1>3, <1>5, <1>7, <1>8 DEF Owner!Next, Owner!Finish

LEMMA RunOwner ==
  ASSUME AppInv, HandleInv, Run
  PROVE  [Owner!Next]_(Owner!vars)
<1>1. AppTypeOK /\ Started /\ Tasks
  BY DEF AppInv
<1>2. CASE SeeShutdown
  BY <1>1, <1>2, StopOwner DEF SeeShutdown, Started
<1>3. ASSUME NEW w \in Workers, JoinDiscarded(w) PROVE [Owner!Next]_(Owner!vars)
  BY <1>1, <1>3, StopOwner DEF JoinDiscarded, Started
<1>4. ASSUME NEW w \in Workers, Join(w) PROVE [Owner!Next]_(Owner!vars)
  <2>1. stage = "running" /\ UNCHANGED <<task, service, asked, failedStart, client>>
    BY <1>4 DEF Join
  <2>2. CASE UNCHANGED <<stage, failure>>
    BY <2>1, <2>2, SameUsers, UnseenByOwner DEF Phase
  <2>3. CASE stage' = "shutdownHook" /\ failure' = "worker"
    BY <1>1, <2>1, <2>3, StopOwner
  <2>4. QED
    BY <1>4, <2>2, <2>3 DEF Join
<1>5. CASE HookDone
  <2>1. First("hook") # "none"
    BY <1>1, FirstFailure
  <2>2. Phase = "stopping" /\ Phase' = "stopping"
    BY <1>5 DEF HookDone, Phase
  <2>3. QED
    BY <1>5, <2>1, <2>2, FaultOwner DEF HookDone
<1>6. CASE HookPanics
  BY <1>1, <1>6, DropOwner DEF HookPanics, Phase
<1>7. ASSUME UNCHANGED <<task, service, asked, failedStart, failure, client>>, Phase' = Phase
      PROVE  UNCHANGED Owner!vars
  BY <1>7, SameUsers, UnseenByOwner
<1>8. ASSUME NEW w \in Workers, DrainJoin(w) PROVE UNCHANGED Owner!vars
  BY <1>7, <1>8 DEF DrainJoin, Phase
<1>9. CASE Drained \/ ServicesStopped
  BY <1>7, <1>9 DEF Drained, ServicesStopped, Phase
<1>10. CASE DrainTimeout
  <2>1. /\ \A w \in Workers : task'[w] \in Alive <=> task[w] \in Alive
        /\ UNCHANGED <<service, asked, failedStart, failure, client>>
    BY <1>1, <1>10 DEF DrainTimeout, AppTypeOK, Alive
  <2>2. InUse' = InUse
    BY <2>1 DEF InUse, With
  <2>3. Phase' = Phase
    BY <1>10 DEF DrainTimeout, Phase
  <2>4. QED
    BY <2>1, <2>2, <2>3, UnseenByOwner
<1>11. CASE AbortDone
  <2>1. First("drain") # "none"
    BY <1>1, FirstFailure
  <2>2. Phase = "stopping" /\ Phase' = "stopping"
    BY <1>11 DEF AbortDone, Phase
  <2>3. QED
    BY <1>11, <2>1, <2>2, FaultOwner DEF AbortDone
<1>12. ASSUME NEW s \in Services, StopService(s) PROVE Owner!Next
  <2>1. Holders(s) = {}
    BY <1>1, <1>12 DEF StopService, Holders, With, Tasks, Closing
  <2>2. /\ service' = [service EXCEPT ![s] = "stopped"]
        /\ UNCHANGED <<stage, task, asked, failedStart, failure, client>>
    BY <1>12, <2>1 DEF StopService
  <2>3. \A t \in Services :
          service'[t] \in {"registered", "referenced"} <=>
            service[t] \in {"registered", "referenced"} /\ t # s
    BY <1>1, <2>2 DEF AppTypeOK
  <2>4. s \notin Workers
    BY StartupAssumption
  <2>5. InUse' = InUse \ {s}
    BY <2>2, <2>3, <2>4 DEF InUse, With
  <2>6. QED
    BY <2>2, <2>5, ReleaseOwner
<1>13. CASE DrainClient
  BY <1>13, FinishOwner
<1>14. QED
  BY <1>2, <1>3, <1>4, <1>5, <1>6, <1>8, <1>9, <1>10, <1>11, <1>12, <1>13 DEF Run

\* For any services, workers and policies the application keeps Lifecycle's promises:
\* it stops for a reason it does not forget, drains the connection after its last user,
\* returns Ok only when its owner's request was all that happened, and is dropped only
\* before or after it serves.
THEOREM KeepsPromises == AppSpec => ImplementsLifecycle
<1>1. AppInv /\ HandleInv /\ [AppNext]_appVars => [Owner!Next]_(Owner!vars)
  <2>1. SUFFICES ASSUME AppInv, HandleInv, [AppNext]_appVars PROVE [Owner!Next]_(Owner!vars)
    OBVIOUS
  <2>2. ASSUME UNCHANGED appVars PROVE UNCHANGED Owner!vars
    BY <2>2, SameUsers, UnseenByOwner DEF appVars, Phase
  <2>3. QED
    BY <2>1, <2>2, StartOwner, SurroundingsOwner, RunOwner DEF AppNext, AppTerminated
<1>2. QED
  BY <1>1, InitOwner, HandleInvariance, PTL DEF AppSpec, ImplementsLifecycle, Owner!Spec
-----------------------------------------------------------------------------
(* The two layers meet: WorkerTask.                                        *)

\* Every behaviour of a supervisor is one that WorkerTask allows its task.
LEMMA SupervisorStep == Inv /\ [Next]_vars => [Self!Next]_(Self!vars)
<1>1. SUFFICES ASSUME Inv, [Next]_vars PROVE [Self!Next]_(Self!vars)
  OBVIOUS
<1> USE DEF Self!vars
<1>2. Loc /\ Places
  BY <1>1 DEF Inv
<1>3. ASSUME UNCHANGED <<signal, result>> PROVE UNCHANGED Self!vars
  BY <1>3 DEF Outcome
<1>4. ASSUME NEW how \in {"ok", "gave up", "unregistered", "panic"}, pc # "ended", End(how),
             how = "ok" => signal # "running", UNCHANGED signal
      PROVE  Self!Next
  <2>1. Outcome = "running"
    BY <1>2, <1>4 DEF Loc, Outcome
  <2>2. CASE how = "ok"
    BY <1>4, <2>1, <2>2 DEF End, Outcome, Self!Next, Self!Return
  <2>3. CASE how = "panic"
    <3>1. Outcome' = "panicked"
      BY <1>4, <2>3 DEF End, Outcome
    <3>2. QED
      BY <1>4, <2>1, <3>1 DEF Self!Next, Self!Return
  <2>4. CASE how \in {"gave up", "unregistered"}
    <3>1. Outcome' = "failed"
      BY <1>4, <2>4 DEF End, Outcome
    <3>2. QED
      BY <1>4, <2>1, <3>1 DEF Self!Next, Self!Return
  <2>5. QED
    BY <1>4, <2>2, <2>3, <2>4
<1>5. CASE Tick \/ BackoffOver \/ Registered \/ Terminated
  BY <1>3, <1>5 DEF Tick, BackoffOver, Registered, Terminated, vars
<1>6. CASE Signal
  <2>1. signal = "running" /\ signal' \in {"requested", "closed"} /\ Outcome' = Outcome
    BY <1>6 DEF Signal, Outcome
  <2>2. QED
    BY <2>1 DEF Self!Next, Self!Signal
<1>7. CASE Abort
  <2>1. Outcome = "running" /\ Outcome' = "aborted" /\ signal = "requested" /\ UNCHANGED signal
    BY <1>2, <1>7 DEF Abort, End, Loc, Outcome
  <2>2. QED
    BY <2>1 DEF Self!Next, Self!Abort
<1>8. CASE WorkerReturns
  <2>1. CASE signal = "requested"
    BY <1>4, <1>8, <2>1 DEF WorkerReturns
  <2>2. CASE signal # "requested"
    BY <1>3, <1>4, <1>8, <2>2 DEF WorkerReturns, NextDelay, NoDelay
  <2>3. QED
    BY <2>1, <2>2
<1>9. CASE WorkerPanics
  BY <1>4, <1>9 DEF WorkerPanics
<1>10. CASE BackoffInterrupted
  BY <1>4, <1>10 DEF BackoffInterrupted
<1>11. CASE RegistrationFailed
  BY <1>4, <1>11 DEF RegistrationFailed
<1>12. CASE UNCHANGED vars
  BY <1>3, <1>12 DEF vars
<1>13. QED
  BY <1>1, <1>5, <1>6, <1>7, <1>8, <1>9, <1>10, <1>11, <1>12 DEF Next, Supervise

\* Whatever its budget and backoff, a supervisor keeps the contract of its task.
THEOREM SupervisorKeepsTask == Spec => ImplementsWorkerTask
<1>1. Init => Self!Init
  BY DEF Init, Self!Init, Outcome
<1>2. QED
  BY <1>1, SupervisorStep, Invariance, PTL DEF Spec, ImplementsWorkerTask, Self!Spec

\* A worker is spawned where start_all comes to it, and nowhere else; and none is
\* aborted that was not asked to stop.
TaskInv ==
  /\ \A i \in DOMAIN Startup :
       (i > startedTo /\ Startup[i] \in Workers) => task[Startup[i]] = "absent"
  /\ \A w \in Workers : task[w] \in {"aborting", "aborted"} => Requested

\* The channel goes once from running to requested or closed, as its receivers see it.
LEMMA ChannelMoves ==
  ASSUME AppInv, HandleInv, AppNext
  PROVE  Channel' = Channel \/ (Channel = "running" /\ Channel' \in {"requested", "closed"})
<1>1. Started /\ AppTypeOK
  BY DEF AppInv
<1>2. CASE UNCHANGED shutdown
  BY <1>2 DEF Channel
<1>3. CASE StartupHookFailed \/ StartFailed
  <2>1. shutdown = "running" /\ shutdown' = "requested"
    BY <1>1, <1>3 DEF StartupHookFailed, StartFailed, FailStart, Started
  <2>2. QED
    BY <2>1 DEF Channel
<1>4. CASE StartAbandoned \/ HookPanics
  BY <1>4 DEF StartAbandoned, HookPanics, DropRuntime, Channel
<1>5. CASE RequestShutdown
  <2>1. shutdown \in {"running", "requested", "draining"} /\ shutdown' = "requested"
    BY <1>1, <1>5 DEF RequestShutdown, HandleInv, AppTypeOK
  <2>2. QED
    BY <2>1 DEF Channel
<1>6. CASE HookDone
  <2>1. Requested /\ shutdown' = "draining"
    BY <1>6 DEF HookDone, HandleInv
  <2>2. QED
    BY <2>1 DEF Channel, Requested
<1>7. ASSUME NEW w \in Workers, Join(w)
      PROVE  UNCHANGED shutdown \/ (shutdown = "running" /\ shutdown' = "requested")
  BY <1>1, <1>7 DEF Join, HandleInv, Requested, AppTypeOK
<1>8. CASE \E w \in Workers : Join(w)
  BY <1>7, <1>8 DEF Channel
<1>9. CASE StartupHookDone \/ StartNext \/ StartDone \/ SeeShutdown
  BY <1>2, <1>9 DEF StartupHookDone, StartNext, StartDone, SeeShutdown
<1>10. CASE Drained \/ DrainTimeout \/ AbortDone \/ ServicesStopped \/ DrainClient
  BY <1>2, <1>10 DEF Drained, DrainTimeout, AbortDone, ServicesStopped, DrainClient
<1>11. CASE \/ \E w \in Workers : JoinDiscarded(w) \/ DrainJoin(w)
            \/ \E s \in Services : StopService(s)
  BY <1>2, <1>11 DEF JoinDiscarded, DrainJoin, StopService
<1>12. CASE \/ \E w \in Workers, how \in {"ok", "failed", "panicked"} : WorkerEnds(w, how)
            \/ \E w \in Workers : Aborted(w)
            \/ DeadlinePasses
            \/ AppTerminated
  BY <1>2, <1>12 DEF WorkerEnds, Aborted, DeadlinePasses, AppTerminated, appVars
<1>13. QED
  BY <1>3, <1>4, <1>5, <1>6, <1>8, <1>9, <1>10, <1>11, <1>12
     DEF AppNext, Start, Run, Surroundings

\* The steps that leave the tasks, and the progress of start_all, alone.
LEMMA TasksTouched ==
  ASSUME AppNext
  PROVE  \/ UNCHANGED <<task, startedTo>>
         \/ StartNext
         \/ DrainTimeout
         \/ \E w \in Workers, how \in {"ok", "failed", "panicked"} : WorkerEnds(w, how)
         \/ \E w \in Workers : Aborted(w)
<1>1. CASE Start
  BY <1>1 DEF Start, StartupHookDone, StartupHookFailed, StartFailed, FailStart, StartDone,
              StartAbandoned, DropRuntime
<1>2. CASE Run
  <2>1. CASE \/ \E w \in Workers : Join(w) \/ JoinDiscarded(w) \/ DrainJoin(w)
             \/ \E s \in Services : StopService(s)
    BY <2>1 DEF Join, JoinDiscarded, DrainJoin, StopService
  <2>2. CASE SeeShutdown \/ HookDone \/ HookPanics \/ Drained
    BY <2>2 DEF SeeShutdown, HookDone, HookPanics, DropRuntime, Drained
  <2>3. CASE AbortDone \/ ServicesStopped \/ DrainClient
    BY <2>3 DEF AbortDone, ServicesStopped, DrainClient
  <2>4. QED
    BY <1>2, <2>1, <2>2, <2>3 DEF Run
<1>3. CASE Surroundings
  BY <1>3 DEF Surroundings, RequestShutdown, DeadlinePasses
<1>4. QED
  BY <1>1, <1>2, <1>3 DEF AppNext, AppTerminated, appVars

\* The next worker of the startup has no task yet.
LEMMA SpawnFresh ==
  ASSUME AppInv, TaskInv, StartNext
  PROVE  /\ Channel = "running" /\ UNCHANGED Channel
         /\ \/ UNCHANGED task
            \/ \E v \in Workers : /\ v = Startup[startedTo + 1] /\ task[v] = "absent"
                                  /\ task' = [task EXCEPT ![v] = "running"]
<1>1. AppTypeOK /\ Started
  BY DEF AppInv
<1>2. stage = "starting" /\ startedTo < Len(Startup) /\ UNCHANGED shutdown
  BY DEF StartNext
<1>3. shutdown = "running"
  BY <1>1, <1>2 DEF Started
<1>4. /\ startedTo + 1 \in DOMAIN Startup /\ startedTo + 1 > startedTo
      /\ Startup[startedTo + 1] \in Workers \cup Services
  BY <1>1, <1>2, StartupElement, StartupAssumption DEF AppTypeOK
<1>5. CASE Startup[startedTo + 1] \in Services
  BY <1>2, <1>3, <1>5 DEF StartNext, Channel
<1>6. CASE Startup[startedTo + 1] \notin Services
  <2>1. Startup[startedTo + 1] \in Workers
    BY <1>4, <1>6
  <2>2. task[Startup[startedTo + 1]] = "absent"
    BY <1>4, <2>1 DEF TaskInv
  <2>3. task' = [task EXCEPT ![Startup[startedTo + 1]] = "running"]
    BY <1>6 DEF StartNext
  <2>4. QED
    BY <1>2, <1>3, <2>1, <2>2, <2>3 DEF Channel
<1>7. QED
  BY <1>5, <1>6

LEMMA TaskNext == AppInv /\ HandleInv /\ TaskInv /\ [AppNext]_appVars => TaskInv'
<1>1. SUFFICES ASSUME AppInv, HandleInv, TaskInv, [AppNext]_appVars PROVE TaskInv'
  OBVIOUS
<1>2. AppTypeOK /\ startedTo \in Nat /\ DOMAIN Startup \subseteq Int
  BY <1>1, StartupAssumption DEF AppInv, AppTypeOK
<1>3. Requested => Requested'
  <2>1. CASE UNCHANGED appVars
    BY <2>1 DEF appVars, Requested
  <2>2. CASE AppNext
    BY <1>1, <2>2, ChannelMoves DEF Channel, Requested
  <2>3. QED
    BY <1>1, <2>1, <2>2
<1>4. ASSUME UNCHANGED <<task, startedTo>> PROVE TaskInv'
  BY <1>1, <1>3, <1>4 DEF TaskInv
<1>5. ASSUME NEW w \in Workers, NEW how \in Ended, how = "aborted" => task[w] = "aborting",
             task[w] \in Alive, task' = [task EXCEPT ![w] = how], UNCHANGED startedTo
      PROVE  TaskInv'
  <2>1. \A v \in Workers : task'[v] = IF v = w THEN how ELSE task[v]
    BY <1>2, <1>5 DEF AppTypeOK
  <2>2. how = "aborted" => Requested
    BY <1>1, <1>5 DEF TaskInv
  <2>3. task[w] # "absent" /\ how # "aborting"
    BY <1>5 DEF Alive, Ended
  <2>4. QED
    BY <1>1, <1>3, <1>5, <2>1, <2>2, <2>3 DEF TaskInv
<1>6. CASE StartNext
  <2>1. startedTo' = startedTo + 1
    BY <1>6 DEF StartNext
  <2>2. CASE UNCHANGED task
    BY <1>1, <1>2, <1>3, <2>1, <2>2 DEF TaskInv
  <2>3. ASSUME NEW v \in Workers, v = Startup[startedTo + 1], task' = [task EXCEPT ![v] = "running"]
        PROVE  TaskInv'
    <3>1. startedTo + 1 \in DOMAIN Startup
      BY <1>2, <1>6, StartupAssumption DEF StartNext, AppTypeOK
    <3>2. ASSUME NEW k \in DOMAIN Startup, k > startedTo', Startup[k] \in Workers
          PROVE  task'[Startup[k]] = "absent"
      <4>1. k > startedTo /\ k # startedTo + 1
        BY <1>2, <2>1, <3>2
      <4>2. Startup[k] # v
        BY <2>3, <3>1, <4>1, StartupAssumption
      <4>3. task[Startup[k]] = "absent"
        BY <1>1, <3>2, <4>1 DEF TaskInv
      <4>4. QED
        BY <1>2, <2>3, <3>2, <4>2, <4>3 DEF AppTypeOK
    <3>3. \A w \in Workers : task'[w] \in {"aborting", "aborted"} => task[w] \in {"aborting", "aborted"}
      BY <1>2, <2>3 DEF AppTypeOK
    <3>4. QED
      BY <1>1, <1>3, <3>2, <3>3 DEF TaskInv
  <2>4. QED
    BY <1>1, <1>6, <2>2, <2>3, SpawnFresh
<1>7. CASE DrainTimeout
  <2>1. Requested /\ UNCHANGED startedTo
    BY <1>1, <1>7 DEF DrainTimeout, HandleInv
  <2>2. \A w \in Workers : task[w] = "absent" => task'[w] = "absent"
    BY <1>7 DEF DrainTimeout
  <2>3. QED
    BY <1>1, <1>3, <2>1, <2>2 DEF TaskInv
<1>8. ASSUME NEW w \in Workers, NEW how \in {"ok", "failed", "panicked"}, WorkerEnds(w, how) PROVE TaskInv'
  BY <1>5, <1>8 DEF WorkerEnds, Ended
<1>9. ASSUME NEW w \in Workers, Aborted(w) PROVE TaskInv'
  BY <1>5, <1>9 DEF Aborted, Alive, Ended
<1>10. CASE UNCHANGED appVars
  BY <1>4, <1>10 DEF appVars
<1>11. QED
  BY <1>1, <1>4, <1>6, <1>7, <1>8, <1>9, <1>10, TasksTouched

LEMMA WorkerStep ==
  ASSUME AppInv, HandleInv, TaskInv, AppNext, NEW w \in Workers
  PROVE  [Worker(w)!Next]_(Worker(w)!vars)
<1> USE DEF Worker!vars
<1>1. AppTypeOK
  BY DEF AppInv
<1> DEFINE View == IF task[w] = "aborting" THEN "running" ELSE task[w]
<1>2. ASSUME View' = View PROVE [Worker(w)!Next]_(Worker(w)!vars)
  <2>1. CASE Channel' = Channel
    BY <1>2, <2>1
  <2>2. CASE Channel = "running" /\ Channel' \in {"requested", "closed"}
    BY <1>2, <2>2 DEF Worker!Next, Worker!Signal
  <2>3. QED
    BY <2>1, <2>2, ChannelMoves
<1>3. CASE UNCHANGED <<task, startedTo>>
  BY <1>2, <1>3
<1>4. CASE StartNext
  <2>1. CASE UNCHANGED task
    BY <1>2, <2>1
  <2>2. ASSUME NEW v \in Workers, task[v] = "absent", task' = [task EXCEPT ![v] = "running"]
        PROVE  [Worker(w)!Next]_(Worker(w)!vars)
    <3>1. CASE v = w
      <4>1. View = "absent" /\ View' = "running"
        BY <1>1, <2>2, <3>1 DEF AppTypeOK
      <4>2. Channel = "running" /\ Channel' = Channel
        BY <1>4, SpawnFresh
      <4>3. QED
        BY <4>1, <4>2 DEF Worker!Next, Worker!Spawn
    <3>2. CASE v # w
      <4>1. View' = View
        BY <1>1, <2>2, <3>2 DEF AppTypeOK
      <4>2. QED
        BY <1>2, <4>1
    <3>3. QED
      BY <3>1, <3>2
  <2>3. QED
    BY <1>4, <2>1, <2>2, SpawnFresh
<1>5. CASE DrainTimeout
  <2>1. View' = View
    BY <1>1, <1>5 DEF DrainTimeout, AppTypeOK
  <2>2. QED
    BY <1>2, <2>1
<1>6. ASSUME NEW v \in Workers, NEW how \in {"ok", "failed", "panicked"}, WorkerEnds(v, how)
      PROVE  [Worker(w)!Next]_(Worker(w)!vars)
  <2>1. CASE v = w
    <3>1. View = "running" /\ View' = how
      BY <1>1, <1>6, <2>1 DEF WorkerEnds, AppTypeOK, Alive
    <3>2. Channel' = Channel /\ (how = "ok" => Channel # "running")
      BY <1>6 DEF WorkerEnds, Channel
    <3>3. QED
      BY <3>1, <3>2 DEF Worker!Next, Worker!Return
  <2>2. CASE v # w
    <3>1. View' = View
      BY <1>1, <1>6, <2>2 DEF WorkerEnds, AppTypeOK
    <3>2. QED
      BY <1>2, <3>1
  <2>3. QED
    BY <2>1, <2>2
<1>7. ASSUME NEW v \in Workers, Aborted(v) PROVE [Worker(w)!Next]_(Worker(w)!vars)
  <2>1. CASE v = w
    <3>1. View = "running" /\ View' = "aborted"
      BY <1>1, <1>7, <2>1 DEF Aborted, AppTypeOK
    <3>2. Channel' = Channel /\ Channel = "requested"
      BY <1>7, <2>1 DEF Aborted, TaskInv, Requested, Channel
    <3>3. QED
      BY <3>1, <3>2 DEF Worker!Next, Worker!Abort
  <2>2. CASE v # w
    <3>1. View' = View
      BY <1>1, <1>7, <2>2 DEF Aborted, AppTypeOK
    <3>2. QED
      BY <1>2, <3>1
  <2>3. QED
    BY <2>1, <2>2
<1>8. QED
  BY <1>3, <1>4, <1>5, <1>6, <1>7, TasksTouched

\* Towards every worker the runtime keeps to its side of the contract, whatever the
\* workers, the startup and the policies: one spawn, one request, no unasked abort.
THEOREM RuntimeKeepsTasks == AppSpec => KeepsWorkerTasks
<1>1. AppInit => TaskInv /\ \A w \in Workers : Worker(w)!Init
  BY DEF AppInit, TaskInv, Worker!Init, Channel
<1>2. AppInv /\ HandleInv /\ TaskInv /\ [AppNext]_appVars
        => [\A w \in Workers : [Worker(w)!Next]_(Worker(w)!vars)]_appVars
  BY WorkerStep
<1>3. QED
  BY <1>1, <1>2, TaskNext, HandleInvariance, PTL DEF AppSpec, KeepsWorkerTasks

\* What AppRuntime takes for granted of its workers is what Supervisor does: a step of a
\* worker's supervisor, seen by the runtime that holds its task, is WorkerEnds, an
\* abort the runtime asked for, or nothing.
THEOREM SupervisorFits ==
  ASSUME AppTypeOK, Supervise \/ Abort,
         NEW w \in Workers, task[w] \in Alive, Channel = signal,
         Abort => task[w] = "aborting",
         task' = [task EXCEPT ![w] = IF pc' = "ended" THEN Outcome' ELSE task[w]],
         UNCHANGED <<workerFailure, stage, startedTo, starting, failedStart, shutdown, joined, expired,
                     service, client, failure, asked>>
  PROVE  \/ \E how \in {"ok", "failed", "panicked"} : WorkerEnds(w, how)
         \/ Aborted(w)
         \/ UNCHANGED appVars
<1>1. shutdown = "running" => signal = "running"
  BY DEF Channel
<1>2. CASE pc' # "ended"
  <2>1. task' = task
    BY <1>2 DEF AppTypeOK
  <2>2. QED
    BY <2>1 DEF appVars
<1>3. ASSUME pc' = "ended", Outcome' \in {"ok", "failed", "panicked"},
             Outcome' = "ok" => signal # "running"
      PROVE  WorkerEnds(w, Outcome')
  BY <1>1, <1>3 DEF WorkerEnds
<1>4. ASSUME NEW how \in {"ok", "gave up", "unregistered", "panic"}, End(how),
             how = "ok" => signal # "running"
      PROVE  \E h \in {"ok", "failed", "panicked"} : WorkerEnds(w, h)
  <2>1. pc' = "ended" /\ Outcome' \in {"ok", "failed", "panicked"}
        /\ (Outcome' = "ok" => how = "ok")
    BY <1>4 DEF End, Outcome
  <2>2. QED
    BY <1>3, <1>4, <2>1
<1>5. CASE Abort
  <2>1. task[w] = "aborting" /\ pc' = "ended" /\ Outcome' = "aborted"
    BY <1>5 DEF Abort, End, Outcome
  <2>2. QED
    BY <2>1 DEF Aborted
<1>6. CASE WorkerReturns
  <2>1. CASE signal = "requested"
    BY <1>4, <1>6, <2>1 DEF WorkerReturns
  <2>2. CASE signal # "requested" /\ NextDelay
    BY <1>2, <2>2 DEF NextDelay
  <2>3. CASE signal # "requested" /\ NoDelay
    BY <1>4, <2>3 DEF NoDelay
  <2>4. QED
    BY <1>6, <2>1, <2>2, <2>3 DEF WorkerReturns
<1>7. CASE WorkerPanics \/ BackoffInterrupted \/ RegistrationFailed
  BY <1>4, <1>7 DEF WorkerPanics, BackoffInterrupted, RegistrationFailed
<1>8. CASE BackoffOver \/ Registered
  BY <1>2, <1>8 DEF BackoffOver, Registered
<1>9. QED
  BY <1>5, <1>6, <1>7, <1>8 DEF Supervise
=================================================================================
