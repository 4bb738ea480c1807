-------------------------- MODULE JetStreamSimulator --------------------------
(***************************************************************************)
(* The JetStream simulator of the test harness                             *)
(* (nats-micro-testing/src/jetstream.rs) and the loop that drives it,      *)
(* TestHarness::run_until_idle (nats-micro/src/testing.rs).  The simulator *)
(* is one value behind a mutex; each of its functions is a step here.  The *)
(* loop may run in several tasks at a time, and the clock may be advanced  *)
(* in the middle of a handler.                                             *)
(*                                                                         *)
(* Times are kept as what is left of them: the `wait` of a delivery is its *)
(* due_at minus the simulator's now, or 0 when it is due.                  *)
(***************************************************************************)
EXTENDS Integers, Sequences, SequencesExt, FiniteSets

CONSTANTS Durables,    \* the consumers of the application
          Messages,    \* messages published, each once
          Accepts,     \* the durables a message is for: stream and filter match
          MaxDeliver,  \* SimulatedConsumerConfig.max_deliver
          AckWait,     \* ... .ack_wait
          Backoff,     \* ... .backoff
          DeadLetters, \* durables with an entry in JetStreamConfig.dead_letters
          Delays,      \* delays a handler asks for with NackAfter
          Runners,     \* tasks inside run_until_idle
          MaxTimeouts, \* bound: timeouts planned at a time
          None

\* max_deliver is at least 1 by the time it gets here (testing.rs, register_consumers).
ASSUME SimulatorAssumption ==
  /\ IsFiniteSet(Durables) /\ IsFiniteSet(Messages) /\ IsFiniteSet(Runners)
  /\ Accepts \in [Messages -> SUBSET Durables]
  /\ MaxDeliver \in [Durables -> Nat \ {0}]
  /\ AckWait \in [Durables -> Nat]
  /\ Backoff \in [Durables -> Seq(Nat)]
  /\ DeadLetters \subseteq Durables
  /\ Delays \subseteq Nat
  /\ MaxTimeouts \in Nat

VARIABLES
  registered,   \* State.consumers
  pending,      \* State.pending
  deliveries,   \* State.deliveries
  timeoutNext,  \* State.timeout_next
  log,          \* the dead letters recorded in the EventLog
  runner,       \* the delivery each runner holds, and what it does with it
  published,    \* messages published so far
  owed,         \* copies that publish made: one per message and durable (history)
  settled       \* copies that are done with: acked, terminated or out of attempts

vars == <<registered, pending, deliveries, timeoutNext, log, runner, published, owed, settled>>

Copies == Messages \X Durables
Delivery == [durable : Durables, msg : Messages, attempt : Nat \ {0}, wait : Nat]
Copy(v) == <<v.msg, v.durable>>

Idle == [doing |-> "idle", held |-> None]
Held == {runner[p].held : p \in {q \in Runners : runner[q] # Idle}}
Done == UNION {settled[how] : how \in DOMAIN settled}

TypeOK ==
  /\ registered \in SUBSET Durables
  /\ pending \in Seq(Delivery)
  /\ deliveries \in [Durables -> Nat]
  /\ timeoutNext \in Seq(Durables) /\ Len(timeoutNext) <= MaxTimeouts
  /\ log \in Seq(Copies)
  /\ \A p \in Runners : runner[p] = Idle \/ runner[p] \in
       [doing : {"taken", "timing out", "handling"}, held : Delivery]
  /\ published \in SUBSET Messages
  /\ owed \in SUBSET Copies
  /\ settled \in [{"acked", "termed", "exhausted", "lost"} -> SUBSET Copies]

Init ==
  /\ registered = {}
  /\ pending = <<>>
  /\ deliveries = [d \in Durables |-> 0]
  /\ timeoutNext = <<>>
  /\ log = <<>>
  /\ runner = [p \in Runners |-> Idle]
  /\ published = {}
  /\ owed = {}
  /\ settled = [how \in {"acked", "termed", "exhausted", "lost"} |-> {}]
-----------------------------------------------------------------------------
(* The test's calls.                                                       *)

\* register_consumer refuses a durable it has.
RegisterConsumer(d) ==
  /\ d \notin registered
  /\ registered' = registered \cup {d}
  /\ UNCHANGED <<pending, deliveries, timeoutNext, log, runner, published, owed, settled>>

\* publish: a copy for each consumer there is that matches.
Publish(m) ==
  /\ m \notin published
  /\ published' = published \cup {m}
  /\ LET matching == Accepts[m] \cap registered
     IN  /\ pending' = pending \o SetToSeq({[durable |-> d, msg |-> m, attempt |-> 1, wait |-> 0] : d \in matching})
         /\ owed' = owed \cup {<<m, d>> : d \in matching}
  /\ UNCHANGED <<registered, deliveries, timeoutNext, log, runner, settled>>

TimeoutNext(d) ==
  /\ Len(timeoutNext) < MaxTimeouts
  /\ timeoutNext' = Append(timeoutNext, d)
  /\ UNCHANGED <<registered, pending, deliveries, log, runner, published, owed, settled>>

\* ManualClock::advance, by one unit; longer ones are several of these.
Advance ==
  /\ \E i \in DOMAIN pending : pending[i].wait > 0
  /\ pending' = [i \in DOMAIN pending |->
                   [pending[i] EXCEPT !.wait = IF @ > 0 THEN @ - 1 ELSE 0]]
  /\ UNCHANGED <<registered, deliveries, timeoutNext, log, runner, published, owed, settled>>
-----------------------------------------------------------------------------
\* The delay of a delivery that timed out: the backoff of its attempt, or ack_wait.
TimeoutDelay(v) ==
  IF v.attempt \in DOMAIN Backoff[v.durable] THEN Backoff[v.durable][v.attempt] ELSE AckWait[v.durable]

DueIndexes == {i \in DOMAIN pending : pending[i].wait = 0}
\* Deviation (see below): whatever is due comes next, whichever was queued first.
DueIndexLast == CHOOSE i \in DueIndexes : \A j \in DueIndexes : i >= j
DueIndex == CHOOSE i \in DueIndexes : \A j \in DueIndexes : i <= j

(* Deviations: slips the properties must tell from the code; no action of  *)
(* the specification uses them.                                            *)

\* A handler that panicked keeps its delivery: the loop never gets back to it.
RunnerStuck(p) ==
  /\ runner[p].doing = "handling"
  /\ runner' = [runner EXCEPT ![p].doing = "panicked"]
  /\ UNCHANGED <<registered, pending, deliveries, timeoutNext, log, published, owed, settled>>

\* A terminated delivery is dead-lettered like one that ran out of attempts.
TermDeadLettered(p) ==
  /\ runner[p].doing = "handling"
  /\ LET v == runner[p].held
     IN  /\ settled' = [settled EXCEPT !["termed"] = @ \cup {Copy(v)}]
         /\ log' = IF v.durable \in DeadLetters THEN Append(log, Copy(v)) ELSE log
  /\ runner' = [runner EXCEPT ![p] = Idle]
  /\ UNCHANGED <<registered, pending, deliveries, timeoutNext, published, owed>>

\* The delivery that is due is looked at, and stays in the queue while it is handled.
TakePeeking(p) ==
  /\ runner[p] = Idle
  /\ DueIndexes # {}
  /\ runner' = [runner EXCEPT ![p] = [doing |-> "taken", held |-> pending[DueIndex]]]
  /\ deliveries' = [deliveries EXCEPT ![pending[DueIndex].durable] = @ + 1]
  /\ UNCHANGED <<registered, pending, timeoutNext, log, published, owed, settled>>

\* Off by one: max_deliver retries after the first delivery.
RetryOnceMore(v, delay) ==
  IF v.attempt > MaxDeliver[v.durable]
    THEN /\ settled' = [settled EXCEPT !["exhausted"] = @ \cup {Copy(v)}]
         /\ log' = IF v.durable \in DeadLetters THEN Append(log, Copy(v)) ELSE log
         /\ UNCHANGED pending
    ELSE /\ pending' = Append(pending, [v EXCEPT !.attempt = @ + 1, !.wait = delay])
         /\ UNCHANGED <<settled, log>>
-----------------------------------------------------------------------------
\* retry: the next attempt, or the end of the delivery and its dead letter.
Retry(v, delay) ==
  IF v.attempt >= MaxDeliver[v.durable]
    THEN /\ settled' = [settled EXCEPT !["exhausted"] = @ \cup {Copy(v)}]
         /\ log' = IF v.durable \in DeadLetters THEN Append(log, Copy(v)) ELSE log
         /\ UNCHANGED pending
    ELSE /\ pending' = Append(pending, [v EXCEPT !.attempt = @ + 1, !.wait = delay])
         /\ UNCHANGED <<settled, log>>

(* run_until_idle.                                                         *)

\* next_due: the first in the queue that is due.
Take(p) ==
  /\ runner[p] = Idle
  /\ DueIndexes # {}
  /\ runner' = [runner EXCEPT ![p] = [doing |-> "taken", held |-> pending[DueIndex]]]
  /\ pending' = RemoveAt(pending, DueIndex)
  /\ deliveries' = [deliveries EXCEPT ![pending[DueIndex].durable] = @ + 1]
  /\ UNCHANGED <<registered, timeoutNext, log, published, owed, settled>>

\* consume_timeout finds a timeout planned for the durable, or the handler is called.
ConsumeTimeout(p) ==
  /\ runner[p].doing = "taken"
  /\ LET planned == {i \in DOMAIN timeoutNext : timeoutNext[i] = runner[p].held.durable}
     IN  IF planned # {}
           THEN /\ timeoutNext' = RemoveAt(timeoutNext, CHOOSE i \in planned : \A j \in planned : i <= j)
                /\ runner' = [runner EXCEPT ![p].doing = "timing out"]
           ELSE /\ runner' = [runner EXCEPT ![p].doing = "handling"]
                /\ UNCHANGED timeoutNext
  /\ UNCHANGED <<registered, pending, deliveries, log, published, owed, settled>>

CompleteTimeout(p) ==
  /\ runner[p].doing = "timing out"
  /\ Retry(runner[p].held, TimeoutDelay(runner[p].held))
  /\ runner' = [runner EXCEPT ![p] = Idle]
  /\ UNCHANGED <<registered, deliveries, timeoutNext, published, owed>>

\* complete with Ack.
CompleteAck(p) ==
  /\ runner[p].doing = "handling"
  /\ settled' = [settled EXCEPT !["acked"] = @ \cup {Copy(runner[p].held)}]
  /\ runner' = [runner EXCEPT ![p] = Idle]
  /\ UNCHANGED <<registered, pending, deliveries, timeoutNext, log, published, owed>>

\* complete with Term.
CompleteTerm(p) ==
  /\ runner[p].doing = "handling"
  /\ settled' = [settled EXCEPT !["termed"] = @ \cup {Copy(runner[p].held)}]
  /\ runner' = [runner EXCEPT ![p] = Idle]
  /\ UNCHANGED <<registered, pending, deliveries, timeoutNext, log, published, owed>>

\* complete with Nack, which a handler's error is taken for too, or NackAfter.
CompleteNack(p, delay) ==
  /\ runner[p].doing = "handling"
  /\ Retry(runner[p].held, delay)
  /\ runner' = [runner EXCEPT ![p] = Idle]
  /\ UNCHANGED <<registered, deliveries, timeoutNext, published, owed>>

\* The handler panics, or the test drops run_until_idle: nobody has the delivery.
RunnerDropped(p) ==
  /\ runner[p].doing = "handling"
  /\ settled' = [settled EXCEPT !["lost"] = @ \cup {Copy(runner[p].held)}]
  /\ runner' = [runner EXCEPT ![p] = Idle]
  /\ UNCHANGED <<registered, pending, deliveries, timeoutNext, log, published, owed>>

Run(p) ==
  \/ Take(p)
  \/ ConsumeTimeout(p)
  \/ CompleteTimeout(p)
  \/ CompleteAck(p)
  \/ CompleteTerm(p)
  \/ \E delay \in Delays \cup {0} : CompleteNack(p, delay)
  \/ RunnerDropped(p)

Next ==
  \/ \E d \in Durables : RegisterConsumer(d) \/ TimeoutNext(d)
  \/ \E m \in Messages : Publish(m)
  \/ Advance
  \/ \E p \in Runners : Run(p)

Spec == Init /\ [][Next]_vars

\* The tasks inside run_until_idle are polled, and the test lets the time pass.
FairSpec == Spec /\ WF_vars(Advance) /\ \A p \in Runners : WF_vars(Run(p))
-----------------------------------------------------------------------------
(* The simulator as the durable consumer it stands in for.                 *)

\* Where a copy is, and its attempt there.
InQueue == {<<Copy(pending[i]), pending[i].attempt>> : i \in DOMAIN pending}
InHand == {<<Copy(v), v.attempt>> : v \in Held}

\* The attempt of a delivery is counted when it is queued, not when it is made.
Place(c) ==
  IF \E x \in InQueue : x[1] = c
    THEN [state |-> "waiting", tries |-> (CHOOSE x \in InQueue : x[1] = c)[2] - 1]
  ELSE IF \E x \in InHand : x[1] = c
    THEN [state |-> "out", tries |-> (CHOOSE x \in InHand : x[1] = c)[2]]
  ELSE IF c \in Done
    THEN [state |-> CHOOSE how \in DOMAIN settled : c \in settled[how], tries |-> 0]
  ELSE [state |-> "absent", tries |-> 0]

Durable == INSTANCE DurableConsumer WITH
             Items <- Copies,
             Limit <- [c \in Copies |-> MaxDeliver[c[2]]],
             item <- [c \in Copies |-> Place(c)]

-----------------------------------------------------------------------------
(* Properties.                                                             *)

\* Every copy that publish made is in one place, once: in the queue, with one
\* runner, or done with.  No copy is dropped, none is doubled, although a delivery
\* leaves the queue before it is handled (lines 209-230, 289-308).
OnePlace ==
  /\ owed = {Copy(pending[i]) : i \in DOMAIN pending} \cup {Copy(v) : v \in Held} \cup Done
  /\ Cardinality(owed) = Len(pending) + Cardinality({p \in Runners : runner[p] # Idle})
                           + Cardinality(Done)
  /\ \A how, other \in DOMAIN settled : how # other => settled[how] \cap settled[other] = {}

\* A dead letter is recorded once for each copy that ran out of its attempts on a
\* durable that has a dead-letter subject, and for nothing else.
DeadLettersExact ==
  /\ IsInjective(log)
  /\ Range(log) = {c \in settled["exhausted"] : c[2] \in DeadLetters}

\* Copies that no runner has touched leave the queue in the order in which they
\* were published, whatever is retried in between: a copy at its first attempt is
\* taken only when every one queued ahead of it and never taken was taken.
FirstAttemptsInOrder ==
  [][\A i, j \in DOMAIN pending :
       (i < j /\ pending[i].attempt = 1 /\ pending[j].attempt = 1
          /\ \E k \in DOMAIN pending' : Copy(pending'[k]) = Copy(pending[i]) /\ pending'[k].attempt = 1)
         => \E k \in DOMAIN pending' : Copy(pending'[k]) = Copy(pending[j])]_vars

\* What a test sees of its deliveries it could see of a durable consumer, up to those
\* that are lost with their handler: no copy is delivered again while it is out, after
\* it was settled, or more often than max_deliver (lines 209-308).
ImplementsDurable == Durable!Spec

\* If the loop is run and time passes, every copy is acknowledged, terminated,
\* out of attempts or lost with its runner.
EveryCopySettles == \A c \in Copies : (c \in owed) ~> (c \in Done)
=============================================================================
