------------------------- MODULE ConsumerWorkerProofs -------------------------
(***************************************************************************)
(* Proofs about the consumer worker for any finite set of messages, any    *)
(* limit, any max_deliver and any panic policy, and for every ack_wait     *)
(* longer than the progress period: its limit, its late admissions, that   *)
(* only handlers settle, that progress keeps two deliveries of a message   *)
(* apart, and that it implements BoundedWorker.                            *)
(***************************************************************************)
EXTENDS ConsumerWorker, FiniteSetTheorems, TLAPS

Loc ==
  /\ pc = "incoming" => accepting /\ Cardinality(InFlight) < Concurrency
  /\ ~accepting => signal # "running"
  /\ pc = "ended" <=> result # "none"
  /\ pc = "ended" => InFlight = {}

LateInv ==
  /\ late \in {0, 1}
  /\ signal = "running" => late = 0
  /\ late = 1 /\ accepting => pc \in {"signal", "ended"}

\* What became of the deliveries, and what the worker says of it.
Fate ==
  /\ result = "ok" => signal # "running"
  /\ \A d \in Deliveries :
       /\ dlv[d] = "cancelled" => result \in {"error", "panic", "aborted"}
       /\ dlv[d] = "unsettled" => result = "error"
       /\ dlv[d] = "panicked" => policy = "LogAndContinue" \/ result \in {"error", "panic"}

\* The worker's part of the invariant.
LoopInv ==
  /\ TypeOK
  /\ Loc
  /\ ConcurrencyBound
  /\ LateInv
  /\ Fate

\* One of the deliveries of m was rejected by its handler.
Rejected(m) == \E d \in Deliveries : dlv[d] \in {"nack", "nackAfter", "error"} /\ Message(d) = m

\* The server waits for the settlement of d, or has had one for its message; in the first
\* case it waits longer than the worker does with the next progress.
Held(d) ==
  /\ attempt[Message(d)] = d[2]
  /\ stored[Message(d)] \in {"outstanding", "acked", "termed"}
  /\ stored[Message(d)] = "outstanding" => timer[Message(d)] > due[d]

\* The server's part: the deliveries that exist are those it counts, and a timely delivery
\* is held unless another one of its message was rejected.
ServerInv ==
  /\ \A m \in Messages : stored[m] = "pending" => attempt[m] < MaxDeliver
  /\ \A d \in Deliveries : dlv[d] # "none" => d[2] <= attempt[Message(d)]
  /\ \A d \in Deliveries : due[d] <= Period
  /\ \A m \in Messages :
       /\ stored[m] = "acked"  => \E d \in Deliveries : dlv[d] = "ack" /\ Message(d) = m
       /\ stored[m] = "termed" => \E d \in Deliveries : dlv[d] = "term" /\ Message(d) = m
  /\ timely \subseteq InFlight
  /\ \A d \in timely : Rejected(Message(d)) \/ Held(d)

Inv == LoopInv /\ ServerInv
-----------------------------------------------------------------------------
(* Deliveries and sets of them.                                            *)

\* A delivery is a message and a number.
LEMMA DeliveryIsPair ==
  /\ \A d \in Deliveries : Message(d) \in Messages /\ d[2] \in 1..MaxDeliver
  /\ \A d, e \in Deliveries : Message(d) = Message(e) /\ d[2] = e[2] => d = e
BY DEF Deliveries, Message

LEMMA PairIsDelivery ==
  ASSUME NEW m \in Messages, NEW k \in 1..MaxDeliver
  PROVE  <<m, k>> \in Deliveries /\ Message(<<m, k>>) = m /\ <<m, k>>[2] = k
BY DEF Deliveries, Message

\* The handlers in flight are finitely many, in a state and in the next one.
LEMMA FiniteInFlight ==
  /\ IsFiniteSet(InFlight) /\ Cardinality(InFlight) \in Nat
  /\ IsFiniteSet(InFlight') /\ Cardinality(InFlight') \in Nat
<1>1. IsFiniteSet(1..MaxDeliver)
  BY FS_Interval, ConsumerAssumption
<1>2. IsFiniteSet(Deliveries)
  BY <1>1, FS_Product, ConsumerAssumption DEF Deliveries
<1>3. InFlight \in SUBSET Deliveries /\ InFlight' \in SUBSET Deliveries
  BY DEF InFlight
<1>4. \A T \in SUBSET Deliveries : IsFiniteSet(T) /\ Cardinality(T) \in Nat
  BY <1>2, FS_Subset, FS_CardinalityType
<1>5. QED
  BY <1>3, <1>4

\* Dropping what is in flight leaves nothing in flight, and the rest as it was.
LEMMA DropAllDeliveries ==
  ASSUME NEW f \in [Deliveries -> Status], dlv' = DropAll(f)
  PROVE  /\ dlv' \in [Deliveries -> Status]
         /\ InFlight' = {}
         /\ \A d \in Deliveries :
              /\ dlv'[d] = "cancelled" <=> f[d] \in {"running", "ready", "cancelled"}
              /\ dlv'[d] = "abandoned" <=> f[d] \in {"buffered", "abandoned"}
              /\ f[d] \notin {"running", "ready", "buffered"} => dlv'[d] = f[d]
              /\ dlv'[d] \notin {"cancelled", "abandoned"} => dlv'[d] = f[d]
BY DEF DropAll, InFlight, Status, Outcome

\* The worker's end, however it comes about, establishes Loc and the bound.
LEMMA EndStep ==
  ASSUME NEW f \in [Deliveries -> Status], NEW how \in {"ok", "error", "panic", "aborted"},
         End(how, f), ~accepting' => signal' # "running"
  PROVE  /\ Loc'
         /\ ConcurrencyBound'
         /\ pc' = "ended" /\ result' = how
         /\ dlv' \in [Deliveries -> Status]
         /\ due' \in [Deliveries -> 0..AckWait] /\ timely' = {}
<1>1. /\ pc' = "ended" /\ result' = how
      /\ dlv' \in [Deliveries -> Status] /\ InFlight' = {}
  BY DropAllDeliveries DEF End
<1>2. Cardinality(InFlight') = 0
  BY <1>1, FS_EmptySet
<1>3. due' \in [Deliveries -> 0..AckWait] /\ timely' = {}
  BY ConsumerAssumption DEF End
<1>4. QED
  BY <1>1, <1>2, <1>3, ConsumerAssumption DEF Loc, ConcurrencyBound

\* An end with anything but Ok, of at most one delivery that was lost, keeps LoopInv.
LEMMA BadEndLoop ==
  ASSUME LoopInv, pc # "ended", NEW f \in [Deliveries -> Status],
         NEW how \in {"error", "panic", "aborted"}, End(how, f),
         UNCHANGED <<channel, server, accepting, late>>,
         \A d \in Deliveries : \/ f[d] = dlv[d]
                               \/ f[d] = "unsettled" /\ how = "error"
                               \/ f[d] = "panicked" /\ how \in {"error", "panic"}
  PROVE  LoopInv'
<1>1. /\ Loc' /\ ConcurrencyBound'
      /\ pc' = "ended" /\ result' = how
      /\ dlv' \in [Deliveries -> Status]
      /\ due' \in [Deliveries -> 0..AckWait] /\ timely' = {}
  BY EndStep DEF LoopInv, Loc, channel
<1>2. TypeOK' /\ LateInv'
  BY <1>1 DEF LoopInv, TypeOK, LateInv, channel, server
<1>3. result = "none" /\ policy' = policy
  BY DEF LoopInv, TypeOK, Loc, channel
<1>4. Fate'
  BY <1>1, <1>3, DropAllDeliveries DEF LoopInv, Fate, End
<1>5. QED
  BY <1>1, <1>2, <1>4 DEF LoopInv
-----------------------------------------------------------------------------
(* The worker's part is inductive.                                         *)

LEMMA InitLoop == Init => LoopInv
<1>1. SUFFICES ASSUME Init PROVE LoopInv
  OBVIOUS
<1>2. InFlight = {}
  BY <1>1 DEF Init, InFlight
<1>3. Cardinality(InFlight) = 0
  BY <1>2, FS_EmptySet
<1>4. TypeOK
  BY <1>1, ConsumerAssumption DEF Init, TypeOK, Status
<1>5. QED
  BY <1>1, <1>2, <1>3, <1>4, ConsumerAssumption
  DEF Init, LoopInv, Loc, ConcurrencyBound, LateInv, Fate

\* A step of the server or of a handler: nothing is admitted, dropped or ended.
LEMMA QuietLoop ==
  ASSUME LoopInv, TypeOK', UNCHANGED <<policy, signal, pc, accepting, result, late>>,
         InFlight' = InFlight,
         \A d \in Deliveries : dlv'[d] = dlv[d] \/ dlv'[d] \in {"buffered", "ready"}
  PROVE  LoopInv'
BY DEF LoopInv, Loc, ConcurrencyBound, LateInv, Fate

\* What the server answers to a settlement is of the right type.
LEMMA SettlementType ==
  ASSUME TypeOK, NEW m \in Messages, NEW action \in {"ack", "nack", "nackAfter", "term"},
         Settlement(m, action)
  PROVE  /\ stored' \in [Messages -> {"pending", "outstanding", "acked", "termed", "exhausted"}]
         /\ timer' \in [Messages -> 0..AckWait]
<1>1. Requeued(m) \in {"pending", "exhausted"}
  BY DEF Requeued
<1>2. CASE stored[m] \notin {"pending", "outstanding"}
  BY <1>2 DEF Settlement, TypeOK
<1>3. CASE stored[m] \in {"pending", "outstanding"} /\ action \in {"ack", "term"}
  <2>1. CASE action = "ack"
    BY <1>3, <2>1, ConsumerAssumption DEF Settlement, TypeOK
  <2>2. CASE action = "term"
    BY <1>3, <2>2, ConsumerAssumption DEF Settlement, TypeOK
  <2>3. QED
    BY <1>3, <2>1, <2>2
<1>4. CASE stored[m] \in {"pending", "outstanding"} /\ action = "nack"
  BY <1>1, <1>4, ConsumerAssumption DEF Settlement, TypeOK
<1>5. CASE stored[m] \in {"pending", "outstanding"} /\ action = "nackAfter"
  BY <1>5, ConsumerAssumption DEF Settlement, TypeOK
<1>6. QED
  BY <1>2, <1>3, <1>4, <1>5

\* The next delivery of a pending message is one that was not made yet.
LEMMA DeliverFresh ==
  ASSUME Inv, NEW m \in Messages, Deliver(m)
  PROVE  LET e == <<m, attempt[m] + 1>>
         IN  /\ e \in Deliveries /\ Message(e) = m /\ e[2] = attempt[m] + 1
             /\ attempt[m] + 1 \in 1..MaxDeliver
             /\ dlv[e] = "none"
             /\ dlv' \in [Deliveries -> Status]
             /\ \A d \in Deliveries : dlv'[d] = IF d = e THEN "buffered" ELSE dlv[d]
<1> DEFINE e == <<m, attempt[m] + 1>>
<1>1. attempt[m] + 1 \in 1..MaxDeliver
  BY ConsumerAssumption DEF Deliver, Inv, LoopInv, ServerInv, TypeOK
<1>2. e \in Deliveries /\ Message(e) = m /\ e[2] = attempt[m] + 1
  BY <1>1, PairIsDelivery
<1>3. attempt[m] \in Nat
  BY ConsumerAssumption DEF Inv, LoopInv, TypeOK
<1> HIDE DEF e
<1>4. dlv[e] = "none"
  BY <1>2, <1>3 DEF Inv, ServerInv
<1>5. dlv' = [dlv EXCEPT ![e] = "buffered"] /\ dlv \in [Deliveries -> Status]
  BY DEF Deliver, Inv, LoopInv, TypeOK, e
<1>6. dlv' \in [Deliveries -> Status]
  BY <1>5 DEF Status
<1>7. QED
  BY <1>1, <1>2, <1>4, <1>5, <1>6 DEF e

LEMMA DeliverLoop == ASSUME Inv, NEW m \in Messages, Deliver(m) PROVE LoopInv'
<1> DEFINE e == <<m, attempt[m] + 1>>
<1>1. /\ e \in Deliveries /\ dlv[e] = "none" /\ attempt[m] + 1 \in 1..MaxDeliver
      /\ dlv' \in [Deliveries -> Status]
      /\ \A d \in Deliveries : dlv'[d] = IF d = e THEN "buffered" ELSE dlv[d]
  BY DeliverFresh
<1>2. /\ stored' = [stored EXCEPT ![m] = "outstanding"]
      /\ attempt' = [attempt EXCEPT ![m] = attempt[m] + 1]
      /\ timer' = [timer EXCEPT ![m] = AckWait]
      /\ UNCHANGED <<channel, pc, accepting, due, timely, result, late>>
  BY DEF Deliver
<1> HIDE DEF e
<1>3. TypeOK'
  BY <1>1, <1>2, ConsumerAssumption DEF Inv, LoopInv, TypeOK, channel
<1>4. InFlight' = InFlight
  BY <1>1 DEF InFlight
<1>5. QED
  BY <1>1, <1>2, <1>3, <1>4, QuietLoop DEF Inv, channel

LEMMA EnvironmentLoop ==
  ASSUME Inv, Environment
  PROVE  LoopInv'
<1>1. ASSUME NEW m \in Messages, Expire(m) PROVE LoopInv'
  <2>1. Requeued(m) \in {"pending", "exhausted"}
    BY DEF Requeued
  <2>2. TypeOK'
    BY <1>1, <2>1 DEF Expire, Inv, LoopInv, TypeOK, channel
  <2>3. InFlight' = InFlight
    BY <1>1 DEF Expire, InFlight
  <2>4. QED
    BY <1>1, <2>2, <2>3, QuietLoop DEF Expire, Inv, channel
<1>2. CASE Tick
  <2>1. timer' \in [Messages -> 0..AckWait] /\ due' \in [Deliveries -> 0..AckWait]
    <3>1. \A m \in Messages : stored[m] = "outstanding" => timer[m] - 1 \in 0..AckWait
      BY <1>2, ConsumerAssumption DEF Tick, Inv, LoopInv, TypeOK
    <3>2. \A d \in Deliveries : dlv[d] = "running" => due[d] - 1 \in 0..AckWait
      BY <1>2, ConsumerAssumption DEF Tick, Inv, LoopInv, TypeOK, With
    <3>3. QED
      BY <1>2, <3>1, <3>2 DEF Tick, Inv, LoopInv, TypeOK
  <2>2. TypeOK'
    BY <1>2, <2>1 DEF Tick, Inv, LoopInv, TypeOK, channel
  <2>3. InFlight' = InFlight
    BY <1>2 DEF Tick, InFlight
  <2>4. QED
    BY <1>2, <2>2, <2>3, QuietLoop DEF Tick, Inv, channel
<1>3. ASSUME NEW d \in Deliveries, HandlerReady(d) PROVE LoopInv'
  <2>1. /\ dlv' \in [Deliveries -> Status] /\ due' \in [Deliveries -> 0..AckWait]
        /\ \A e \in Deliveries : dlv'[e] = IF e = d THEN "ready" ELSE dlv[e]
    BY <1>3, ConsumerAssumption DEF HandlerReady, Inv, LoopInv, TypeOK, Status
  <2>2. TypeOK'
    BY <1>3, <2>1 DEF HandlerReady, Inv, LoopInv, TypeOK, channel, server
  <2>3. InFlight' = InFlight
    BY <1>3, <2>1 DEF HandlerReady, InFlight
  <2>4. QED
    BY <1>3, <2>1, <2>2, <2>3, QuietLoop DEF HandlerReady, Inv, channel
<1>4. CASE Signal
  <2>1. InFlight' = InFlight
    BY <1>4 DEF Signal, InFlight
  <2>2. QED
    BY <1>4, <2>1
    DEF Inv, LoopInv, TypeOK, Loc, ConcurrencyBound, LateInv, Fate, Signal, server
<1>5. CASE StreamEnds
  <2>1. InFlight' = InFlight
    BY <1>5 DEF StreamEnds, InFlight
  <2>2. TypeOK'
    BY <1>5 DEF StreamEnds, Inv, LoopInv, TypeOK, server
  <2>3. QED
    BY <1>5, <2>1, <2>2, QuietLoop DEF StreamEnds, Inv
<1>6. CASE Abort
  BY <1>6, BadEndLoop DEF Abort, Inv, LoopInv, TypeOK
<1>7. QED
  BY <1>1, <1>2, <1>3, <1>4, <1>5, <1>6, DeliverLoop DEF Environment

LEMMA DrainedLoop == ASSUME Inv, Drained PROVE LoopInv'
<1>1. /\ End("ok", dlv) /\ dlv \in [Deliveries -> Status]
      /\ UNCHANGED <<channel, server, accepting, late>>
      /\ ~accepting /\ InFlight = {} /\ result = "none" /\ signal # "running"
  BY DEF Drained, Inv, LoopInv, TypeOK, Loc
<1>2. /\ Loc' /\ ConcurrencyBound'
      /\ pc' = "ended" /\ result' = "ok"
      /\ dlv' \in [Deliveries -> Status]
      /\ due' \in [Deliveries -> 0..AckWait] /\ timely' = {}
  BY <1>1, EndStep DEF channel
<1>3. TypeOK' /\ LateInv'
  BY <1>1, <1>2 DEF Inv, LoopInv, TypeOK, LateInv, channel, server
<1>4. Fate'
  BY <1>1, <1>2, DropAllDeliveries DEF Inv, LoopInv, Fate, End, InFlight, channel
<1>5. QED
  BY <1>2, <1>3, <1>4 DEF LoopInv

LEMMA TurnLoop == ASSUME Inv, PollSignal \/ NoneReady \/ Sleep PROVE LoopInv'
<1>1. InFlight' = InFlight
  BY DEF PollSignal, NoneReady, Sleep, InFlight
<1>2. TypeOK'
  BY DEF PollSignal, NoneReady, Sleep, Inv, LoopInv, TypeOK, channel, server
<1>3. ConcurrencyBound' /\ Fate'
  BY <1>1 DEF PollSignal, NoneReady, Sleep, Inv, LoopInv, ConcurrencyBound, Fate, channel
<1>4. CASE PollSignal
  <2>1. Loc'
    BY <1>1, <1>4 DEF Inv, LoopInv, TypeOK, Loc, PollSignal, channel
  <2>2. LateInv'
    BY <1>4 DEF Inv, LoopInv, TypeOK, Loc, LateInv, PollSignal, channel
  <2>3. QED
    BY <1>2, <1>3, <2>1, <2>2 DEF LoopInv
<1>5. CASE NoneReady \/ Sleep
  <2>1. Loc' /\ LateInv'
    BY <1>1, <1>5 DEF Inv, LoopInv, TypeOK, Loc, LateInv, NoneReady, Sleep, channel
  <2>2. QED
    BY <1>2, <1>3, <2>1 DEF LoopInv
<1>6. QED
  BY <1>4, <1>5

LEMMA EndOfStreamLoop == ASSUME Inv, EndOfStream PROVE LoopInv'
BY BadEndLoop DEF EndOfStream, Inv, LoopInv, TypeOK

LEMMA ProgressLoop ==
  ASSUME Inv, NEW d \in Deliveries, Progress(d) \/ ProgressFailed(d)
  PROVE  LoopInv'
<1>1. CASE Progress(d)
  <2>1. TypeOK'
    <3>1. due' \in [Deliveries -> 0..AckWait] /\ timer' \in [Messages -> 0..AckWait]
      BY <1>1, ConsumerAssumption, DeliveryIsPair DEF Progress, Inv, LoopInv, TypeOK
    <3>2. QED
      BY <1>1, <3>1 DEF Progress, Inv, LoopInv, TypeOK, channel
  <2>2. InFlight' = InFlight
    BY <1>1 DEF Progress, InFlight
  <2>3. QED
    BY <1>1, <2>1, <2>2, QuietLoop DEF Progress, Inv, channel
<1>2. CASE ProgressFailed(d)
  BY <1>2, BadEndLoop DEF ProgressFailed, Inv, LoopInv, TypeOK
<1>3. QED
  BY <1>1, <1>2

\* A handler that ends and leaves the worker running.
LEMMA SettledLoop ==
  ASSUME Inv, NEW d \in Deliveries, pc = "flight", pc' = "signal", dlv[d] = "ready",
         NEW s \in Outcome \cup {"panicked"}, s = "panicked" => policy = "LogAndContinue",
         dlv' = [dlv EXCEPT ![d] = s], timely' = timely \ {d},
         stored' \in [Messages -> {"pending", "outstanding", "acked", "termed", "exhausted"}],
         timer' \in [Messages -> 0..AckWait],
         UNCHANGED <<channel, accepting, attempt, due, result, late>>
  PROVE  LoopInv'
<1>1. InFlight' = InFlight \ {d} /\ d \in InFlight
  BY DEF Inv, LoopInv, TypeOK, InFlight, Outcome
<1>2. Cardinality(InFlight') = Cardinality(InFlight) - 1
  BY <1>1, FiniteInFlight, FS_RemoveElement
<1>3. /\ dlv' \in [Deliveries -> Status] /\ dlv'[d] = s
      /\ \A e \in Deliveries : e # d => dlv'[e] = dlv[e]
  BY DEF Inv, LoopInv, TypeOK, Status
<1>4. ConcurrencyBound'
  BY <1>2, FiniteInFlight, ConsumerAssumption DEF Inv, LoopInv, ConcurrencyBound
<1>5. TypeOK'
  BY <1>3 DEF Inv, LoopInv, TypeOK, channel
<1>6. Loc' /\ LateInv'
  BY DEF Inv, LoopInv, Loc, LateInv, channel
<1>7. Fate'
  BY <1>3 DEF Inv, LoopInv, Fate, channel, Outcome
<1>8. QED
  BY <1>4, <1>5, <1>6, <1>7 DEF LoopInv

LEMMA SettleLoop == ASSUME Inv, NEW d \in Deliveries, NEW o \in Outcome, Settle(d, o) PROVE LoopInv'
<1>1. ActionOf(o) \in {"ack", "nack", "nackAfter", "term"}
  BY DEF ActionOf, Outcome
<1>2. Message(d) \in Messages
  BY DeliveryIsPair
<1>3. /\ stored' \in [Messages -> {"pending", "outstanding", "acked", "termed", "exhausted"}]
      /\ timer' \in [Messages -> 0..AckWait]
  BY <1>1, <1>2, SettlementType DEF Settle, Inv, LoopInv
<1>4. QED
  BY <1>3, SettledLoop DEF Settle, Outcome

\* The end of the worker with the delivery that brought it about.
LEMMA LostLoop ==
  ASSUME Inv, NEW d \in Deliveries, pc = "flight", NEW s \in {"unsettled", "panicked"},
         NEW how \in {"error", "panic"}, s = "unsettled" => how = "error",
         End(how, [dlv EXCEPT ![d] = s]), UNCHANGED <<channel, server, accepting, late>>
  PROVE  LoopInv'
<1> DEFINE f == [dlv EXCEPT ![d] = s]
<1>1. f \in [Deliveries -> Status] /\ \A e \in Deliveries : f[e] = IF e = d THEN s ELSE dlv[e]
  BY DEF Inv, LoopInv, TypeOK, Status
<1>2. End(how, f)
  OBVIOUS
<1> HIDE DEF f
<1>3. QED
  BY <1>1, <1>2, BadEndLoop DEF Inv

LEMMA LossLoop ==
  ASSUME Inv, NEW d \in Deliveries, SettleFailed(d) \/ Panicked(d)
  PROVE  LoopInv'
<1>1. CASE SettleFailed(d)
  BY <1>1, LostLoop DEF SettleFailed
<1>2. CASE Panicked(d)
  <2>1. policy \in {"LogAndContinue", "FailWorker", "Propagate"}
    BY ConsumerAssumption DEF Inv, LoopInv, TypeOK
  <2>2. CASE policy = "LogAndContinue"
    BY <1>2, <2>2, SettledLoop DEF Panicked, server, Inv, LoopInv, TypeOK
  <2>3. CASE policy \in {"FailWorker", "Propagate"}
    BY <1>2, <2>3, LostLoop DEF Panicked
  <2>4. QED
    BY <2>1, <2>2, <2>3
<1>3. QED
  BY <1>1, <1>2

LEMMA AdmitLoop == ASSUME Inv, NEW d \in Deliveries, Admit(d) PROVE LoopInv'
<1>1. InFlight' = InFlight \cup {d} /\ d \notin InFlight
  BY DEF Inv, LoopInv, TypeOK, Admit, InFlight
<1>2. Cardinality(InFlight') = Cardinality(InFlight) + 1
  BY <1>1, FiniteInFlight, FS_AddElement
<1>3. /\ dlv' \in [Deliveries -> Status] /\ dlv'[d] = "running"
      /\ \A e \in Deliveries : e # d => dlv'[e] = dlv[e]
      /\ due' \in [Deliveries -> 0..AckWait] /\ timely' \in SUBSET Deliveries
  BY ConsumerAssumption DEF Inv, LoopInv, TypeOK, Admit, Status
<1>4. pc = "incoming" /\ accepting /\ Cardinality(InFlight) < Concurrency
  BY DEF Inv, LoopInv, Loc, Admit
<1>5. ConcurrencyBound'
  BY <1>2, <1>4, FiniteInFlight, ConsumerAssumption DEF ConcurrencyBound
<1>6. TypeOK'
  BY <1>3 DEF Inv, LoopInv, TypeOK, Admit, channel, server
<1>7. Loc' /\ LateInv'
  BY <1>4 DEF Inv, LoopInv, TypeOK, Loc, LateInv, Admit, channel
<1>8. Fate'
  BY <1>3 DEF Inv, LoopInv, Fate, Admit, channel
<1>9. QED
  BY <1>5, <1>6, <1>7, <1>8 DEF LoopInv

LEMMA NextLoop == Inv /\ [Next]_vars => LoopInv'
<1>1. SUFFICES ASSUME Inv, [Next]_vars PROVE LoopInv'
  OBVIOUS
<1>2. CASE UNCHANGED vars
  <2>1. InFlight' = InFlight
    BY <1>2 DEF vars, InFlight
  <2>2. QED
    BY <1>1, <1>2, <2>1 DEF Inv, LoopInv, TypeOK, Loc, ConcurrencyBound, LateInv, Fate, vars
<1>3. CASE Environment
  BY <1>1, <1>3, EnvironmentLoop
<1>4. CASE Loop
  BY <1>1, <1>4, DrainedLoop, TurnLoop, EndOfStreamLoop, ProgressLoop, SettleLoop, LossLoop,
     AdmitLoop DEF Loop
<1>5. QED
  BY <1>1, <1>2, <1>3, <1>4 DEF Next, Terminated
-----------------------------------------------------------------------------
(* The server's part is inductive.                                         *)

LEMMA InitServer == Init => ServerInv
BY ConsumerAssumption DEF Init, ServerInv, InFlight

\* What a handler said of its delivery stays said.
LEMMA OutcomesStay ==
  ASSUME \A d \in Deliveries : dlv[d] \in Outcome => dlv'[d] = dlv[d],
         ServerInv, NEW m \in Messages
  PROVE  /\ Rejected(m) => Rejected(m)'
         /\ stored[m] = "acked" => \E d \in Deliveries : dlv'[d] = "ack" /\ Message(d) = m
         /\ stored[m] = "termed" => \E d \in Deliveries : dlv'[d] = "term" /\ Message(d) = m
BY DEF ServerInv, Rejected, Outcome, Message

\* The worker's end makes and settles no delivery.
LEMMA EndServer ==
  ASSUME Inv, NEW f \in [Deliveries -> Status], NEW how, End(how, f), UNCHANGED server,
         \A d \in Deliveries : f[d] = dlv[d] \/ (dlv[d] = "ready" /\ f[d] \notin Outcome)
  PROVE  ServerInv'
<1>1. /\ dlv' = DropAll(f) /\ timely' = {}
      /\ due' = [d \in Deliveries |-> 0]
  BY DEF End
<1>2. \A d \in Deliveries : dlv[d] \in Outcome => dlv'[d] = dlv[d]
  BY <1>1, DropAllDeliveries DEF Outcome
<1>3. \A d \in Deliveries : dlv'[d] # "none" => dlv[d] # "none"
  BY <1>1, DropAllDeliveries
<1>4. \A d \in Deliveries : Message(d) \in Messages
  BY DeliveryIsPair
<1>5. \A m \in Messages :
        /\ stored'[m] = "acked" => \E d \in Deliveries : dlv'[d] = "ack" /\ Message(d) = m
        /\ stored'[m] = "termed" => \E d \in Deliveries : dlv'[d] = "term" /\ Message(d) = m
  BY <1>2, OutcomesStay DEF Inv, server
<1>6. \A d \in Deliveries : due'[d] <= Period
  BY <1>1, ConsumerAssumption
<1>7. \A d \in Deliveries : dlv'[d] # "none" => d[2] <= attempt'[Message(d)]
  BY <1>3 DEF Inv, ServerInv, server
<1>8. QED
  BY <1>1, <1>5, <1>6, <1>7 DEF Inv, ServerInv, server, Message

\* Steps that concern neither the server nor the timers, nor end a handler.
LEMMA QuietServer ==
  ASSUME ServerInv, UNCHANGED <<server, dlv, due, timely>>
  PROVE  ServerInv'
<1>1. InFlight' = InFlight /\ \A m \in Messages : Rejected(m)' <=> Rejected(m)
  BY DEF InFlight, Rejected, Message
<1>2. \A d \in Deliveries : Held(d)' <=> Held(d)
  BY DEF Held, server, Message
<1>3. QED
  BY <1>1, <1>2, DeliveryIsPair DEF ServerInv, server, Message, InFlight

LEMMA DeliverServer == ASSUME Inv, NEW m \in Messages, Deliver(m) PROVE ServerInv'
<1> DEFINE e == <<m, attempt[m] + 1>>
<1>1. /\ e \in Deliveries /\ Message(e) = m /\ e[2] = attempt[m] + 1
      /\ dlv[e] = "none" /\ attempt[m] + 1 \in 1..MaxDeliver
      /\ \A d \in Deliveries : dlv'[d] = IF d = e THEN "buffered" ELSE dlv[d]
  BY DeliverFresh
<1>2. /\ stored[m] = "pending"
      /\ stored' = [stored EXCEPT ![m] = "outstanding"]
      /\ attempt' = [attempt EXCEPT ![m] = attempt[m] + 1]
      /\ timer' = [timer EXCEPT ![m] = AckWait]
      /\ UNCHANGED <<due, timely>>
      /\ stored \in [Messages -> {"pending", "outstanding", "acked", "termed", "exhausted"}]
      /\ attempt \in [Messages -> 0..MaxDeliver]
      /\ timer \in [Messages -> 0..AckWait]
  BY DEF Deliver, Inv, LoopInv, TypeOK
<1> HIDE DEF e
<1>3. \A n \in Messages : /\ n # m => stored'[n] = stored[n] /\ attempt'[n] = attempt[n] /\ timer'[n] = timer[n]
                          /\ stored'[m] = "outstanding" /\ attempt'[m] = attempt[m] + 1
                          /\ attempt[n] \in Nat
  BY <1>2, ConsumerAssumption
<1>4. \A d \in Deliveries : Message(d) \in Messages /\ d[2] \in Nat
  BY DeliveryIsPair, ConsumerAssumption
<1>5. \A d \in Deliveries : dlv[d] \in Outcome => dlv'[d] = dlv[d]
  BY <1>1 DEF Outcome
<1>6. \A n \in Messages : stored'[n] = "pending" => attempt'[n] < MaxDeliver
  BY <1>3 DEF Inv, ServerInv
<1>7. \A d \in Deliveries : dlv'[d] # "none" => d[2] <= attempt'[Message(d)]
  <2>1. \A d \in Deliveries : d # e /\ dlv'[d] # "none" => d[2] <= attempt[Message(d)]
    BY <1>1 DEF Inv, ServerInv
  <2>2. \A n \in Messages : attempt'[n] >= attempt[n]
    BY <1>3
  <2>3. \A d \in Deliveries : d # e /\ dlv'[d] # "none" => d[2] <= attempt'[Message(d)]
    BY <2>1, <2>2, <1>3, <1>4
  <2>4. e[2] <= attempt'[Message(e)]
    BY <1>1, <1>3
  <2>5. QED
    BY <2>3, <2>4
<1>8. \A n \in Messages :
        /\ stored'[n] = "acked" => \E d \in Deliveries : dlv'[d] = "ack" /\ Message(d) = n
        /\ stored'[n] = "termed" => \E d \in Deliveries : dlv'[d] = "term" /\ Message(d) = n
  BY <1>3, <1>5, OutcomesStay DEF Inv
<1>9. timely' \subseteq InFlight'
  BY <1>1, <1>2 DEF Inv, ServerInv, InFlight
<1>10. \A d \in timely' : Rejected(Message(d))' \/ Held(d)'
  <2> SUFFICES ASSUME NEW d \in timely', ~Rejected(Message(d))' PROVE Held(d)'
    OBVIOUS
  <2>1. d \in Deliveries /\ Message(d) \in Messages
    BY <1>2, <1>4 DEF Inv, ServerInv, InFlight
  <2>2. ~Rejected(Message(d))
    BY <1>5, <2>1, OutcomesStay DEF Inv, Message
  <2>3. Held(d)
    BY <1>2, <2>2 DEF Inv, ServerInv
  <2>4. Message(d) # m
    BY <1>2, <2>3 DEF Held
  <2>5. QED
    BY <1>2, <1>3, <2>1, <2>3, <2>4 DEF Held, Message
<1>11. QED
  BY <1>2, <1>6, <1>7, <1>8, <1>9, <1>10 DEF ServerInv, Inv, Message

LEMMA ExpireServer == ASSUME Inv, NEW m \in Messages, Expire(m) PROVE ServerInv'
<1>1. /\ stored[m] = "outstanding" /\ timer[m] = 0
      /\ stored \in [Messages -> {"pending", "outstanding", "acked", "termed", "exhausted"}]
      /\ stored' = [stored EXCEPT ![m] = Requeued(m)]
      /\ UNCHANGED <<attempt, timer, dlv, due, timely>>
  BY DEF Expire, Inv, LoopInv, TypeOK
<1>2. Requeued(m) \in {"pending", "exhausted"} /\ (Requeued(m) = "pending" => attempt[m] < MaxDeliver)
  BY DEF Requeued
<1>3. \A n \in Messages : stored'[n] = IF n = m THEN Requeued(m) ELSE stored[n]
  BY <1>1
<1>4. InFlight' = InFlight /\ \A n \in Messages : Rejected(n)' <=> Rejected(n)
  BY <1>1 DEF InFlight, Rejected, Message
<1>5. \A d \in timely : Rejected(Message(d))' \/ Held(d)'
  <2> SUFFICES ASSUME NEW d \in timely, ~Rejected(Message(d))' PROVE Held(d)'
    OBVIOUS
  <2>1. d \in Deliveries /\ Message(d) \in Messages
    BY DeliveryIsPair DEF Inv, ServerInv, InFlight
  <2>2. Held(d)
    BY <1>4, <2>1 DEF Inv, ServerInv, Message
  <2>3. due[d] \in Nat
    BY <2>1, ConsumerAssumption DEF Inv, LoopInv, TypeOK
  <2>4. Message(d) # m
    BY <1>1, <2>2, <2>3 DEF Held
  <2>5. QED
    BY <1>1, <1>3, <2>1, <2>2, <2>4 DEF Held, Message
<1>6. QED
  BY <1>1, <1>2, <1>3, <1>4, <1>5 DEF Inv, ServerInv, Message

LEMMA TickServer == ASSUME Inv, Tick PROVE ServerInv'
<1>1. /\ \A d \in Deliveries : dlv[d] # "ready" /\ (dlv[d] = "running" => due[d] > 0)
      /\ \A m \in Messages : timer'[m] = IF stored[m] = "outstanding" THEN timer[m] - 1 ELSE timer[m]
      /\ \A d \in Deliveries : due'[d] = IF dlv[d] = "running" THEN due[d] - 1 ELSE due[d]
      /\ UNCHANGED <<stored, attempt, dlv, timely>>
  BY DEF Tick, With
<1>2. InFlight' = InFlight /\ \A n \in Messages : Rejected(n)' <=> Rejected(n)
  BY <1>1 DEF InFlight, Rejected, Message
<1>3. \A d \in Deliveries : due[d] \in Nat /\ due'[d] <= Period
  BY <1>1, ConsumerAssumption DEF Inv, LoopInv, TypeOK, ServerInv
<1>4. \A d \in timely : Rejected(Message(d))' \/ Held(d)'
  <2> SUFFICES ASSUME NEW d \in timely, ~Rejected(Message(d))' PROVE Held(d)'
    OBVIOUS
  <2>1. d \in Deliveries /\ Message(d) \in Messages /\ dlv[d] = "running"
    BY <1>1, DeliveryIsPair DEF Inv, ServerInv, InFlight
  <2>2. Held(d)
    BY <1>2, <2>1 DEF Inv, ServerInv, Message
  <2>3. timer[Message(d)] \in Nat
    BY <2>1, ConsumerAssumption DEF Inv, LoopInv, TypeOK
  <2>4. QED
    BY <1>1, <1>3, <2>1, <2>2, <2>3 DEF Held, Message
<1>5. QED
  BY <1>1, <1>2, <1>3, <1>4 DEF Inv, ServerInv, Message

\* A handler is finished: no timer and no message of the server is touched.
LEMMA HandlerReadyServer == ASSUME Inv, NEW d \in Deliveries, HandlerReady(d) PROVE ServerInv'
<1>1. /\ dlv[d] = "running"
      /\ \A e \in Deliveries : dlv'[e] = IF e = d THEN "ready" ELSE dlv[e]
      /\ \A e \in Deliveries : due'[e] = IF e = d THEN 0 ELSE due[e]
      /\ UNCHANGED <<stored, attempt, timer, timely>>
  BY DEF HandlerReady, Inv, LoopInv, TypeOK, server
<1>2. InFlight' = InFlight
  BY <1>1 DEF InFlight
<1>3. \A e \in Deliveries : dlv[e] \in Outcome => dlv'[e] = dlv[e]
  BY <1>1 DEF Outcome
<1>4. \A e \in Deliveries : due[e] \in Nat /\ due'[e] \in Nat /\ due'[e] <= due[e] /\ due'[e] <= Period
  BY <1>1, ConsumerAssumption DEF Inv, LoopInv, TypeOK, ServerInv
<1>5. \A e \in timely : Rejected(Message(e))' \/ Held(e)'
  <2> SUFFICES ASSUME NEW e \in timely, ~Rejected(Message(e))' PROVE Held(e)'
    OBVIOUS
  <2>1. e \in Deliveries /\ Message(e) \in Messages
    BY DeliveryIsPair DEF Inv, ServerInv, InFlight
  <2>2. Held(e)
    BY <1>3, <2>1, OutcomesStay DEF Inv, ServerInv, Message
  <2>3. timer[Message(e)] \in Nat
    BY <2>1, ConsumerAssumption DEF Inv, LoopInv, TypeOK
  <2>4. QED
    BY <1>1, <1>4, <2>1, <2>2, <2>3 DEF Held, Message
<1>6. \A m \in Messages :
        /\ stored'[m] = "acked" => \E e \in Deliveries : dlv'[e] = "ack" /\ Message(e) = m
        /\ stored'[m] = "termed" => \E e \in Deliveries : dlv'[e] = "term" /\ Message(e) = m
  BY <1>1, <1>3, OutcomesStay DEF Inv
<1>7. \A e \in Deliveries : dlv'[e] # "none" => e[2] <= attempt'[Message(e)]
  BY <1>1 DEF Inv, ServerInv
<1>8. QED
  BY <1>1, <1>2, <1>4, <1>5, <1>6, <1>7 DEF Inv, ServerInv, Message

\* Progress gives the message a whole ack_wait, which is more than any period.
LEMMA ProgressServer == ASSUME Inv, NEW d \in Deliveries, Progress(d) PROVE ServerInv'
<1> DEFINE m == Message(d)
<1>1. m \in Messages
  BY DeliveryIsPair
<1>2. /\ \A n \in Messages : timer'[n] = IF n = m /\ stored[m] = "outstanding" THEN AckWait ELSE timer[n]
      /\ \A e \in Deliveries : due'[e] = IF e = d THEN Period ELSE due[e]
      /\ UNCHANGED <<stored, attempt, dlv, timely>>
  BY <1>1 DEF Progress, Inv, LoopInv, TypeOK
<1> HIDE DEF m
<1>3. InFlight' = InFlight /\ \A n \in Messages : Rejected(n)' <=> Rejected(n)
  BY <1>2 DEF InFlight, Rejected, Message
<1>4. \A e \in Deliveries : due'[e] <= Period
  BY <1>2, ConsumerAssumption DEF Inv, ServerInv
<1>5. \A e \in timely : Rejected(Message(e))' \/ Held(e)'
  <2> SUFFICES ASSUME NEW e \in timely, ~Rejected(Message(e))' PROVE Held(e)'
    OBVIOUS
  <2>1. e \in Deliveries /\ Message(e) \in Messages
    BY DeliveryIsPair DEF Inv, ServerInv, InFlight
  <2>2. Held(e)
    BY <1>3, <2>1 DEF Inv, ServerInv, Message
  <2>3. due'[e] \in Nat /\ due'[e] < AckWait
    BY <1>2, <1>4, <2>1, ConsumerAssumption DEF Inv, LoopInv, TypeOK
  <2>4. stored[Message(e)] = "outstanding" => timer'[Message(e)] > due'[e]
    <3>1. CASE Message(e) = m
      BY <1>2, <2>1, <2>3, <3>1, ConsumerAssumption
    <3>2. CASE Message(e) # m
      BY <1>2, <2>1, <2>2, <3>2 DEF Held, m
    <3>3. QED
      BY <3>1, <3>2
  <2>5. QED
    BY <1>2, <2>1, <2>2, <2>4 DEF Held, Message
<1>6. QED
  BY <1>2, <1>3, <1>4, <1>5 DEF Inv, ServerInv, Message

\* What the server makes of a settlement: it never undoes one, and only a rejection can
\* take a message back that is out.
LEMMA SettlementMeans ==
  ASSUME Inv, NEW d \in Deliveries, NEW o \in Outcome, Settlement(Message(d), ActionOf(o))
  PROVE  \A n \in Messages :
           /\ n # Message(d) => stored'[n] = stored[n] /\ timer'[n] = timer[n]
           /\ stored'[n] = "pending" => attempt[n] < MaxDeliver
           /\ stored'[n] = "acked" => stored[n] = "acked" \/ (n = Message(d) /\ o = "ack")
           /\ stored'[n] = "termed" => stored[n] = "termed" \/ (n = Message(d) /\ o = "term")
           /\ o \in {"ack", "term"} /\ stored[n] \in {"outstanding", "acked", "termed"} =>
                /\ stored'[n] \in {"outstanding", "acked", "termed"}
                /\ stored'[n] = "outstanding" => stored[n] = "outstanding" /\ timer'[n] = timer[n]
<1> DEFINE m == Message(d)
<1>1. /\ m \in Messages
      /\ stored \in [Messages -> {"pending", "outstanding", "acked", "termed", "exhausted"}]
      /\ timer \in [Messages -> 0..AckWait]
      /\ \A n \in Messages : stored[n] = "pending" => attempt[n] < MaxDeliver
  BY DeliveryIsPair DEF Inv, LoopInv, TypeOK, ServerInv
<1>2. Settlement(m, ActionOf(o))
  OBVIOUS
<1>3. Requeued(m) \in {"pending", "exhausted"} /\ (Requeued(m) = "pending" => attempt[m] < MaxDeliver)
  BY DEF Requeued
<1> HIDE DEF m
<1>4. CASE stored[m] \notin {"pending", "outstanding"}
  BY <1>1, <1>2, <1>4 DEF Settlement, m
<1>5. CASE stored[m] \in {"pending", "outstanding"} /\ o = "ack"
  BY <1>1, <1>2, <1>5 DEF Settlement, ActionOf, m
<1>6. CASE stored[m] \in {"pending", "outstanding"} /\ o = "term"
  BY <1>1, <1>2, <1>6 DEF Settlement, ActionOf, m
<1>7. CASE stored[m] \in {"pending", "outstanding"} /\ o \in {"nack", "error"}
  <2>1. ActionOf(o) = "nack"
    BY <1>7 DEF ActionOf
  <2>2. QED
    BY <1>1, <1>2, <1>3, <1>7, <2>1 DEF Settlement, m
<1>8. CASE stored[m] \in {"pending", "outstanding"} /\ o = "nackAfter"
  BY <1>1, <1>2, <1>8 DEF Settlement, ActionOf, m
<1>9. QED
  BY <1>4, <1>5, <1>6, <1>7, <1>8 DEF Outcome

LEMMA SettleServer ==
  ASSUME Inv, NEW d \in Deliveries, NEW o \in Outcome, Settle(d, o)
  PROVE  ServerInv'
<1>1. /\ dlv[d] = "ready" /\ dlv'[d] = o
      /\ \A e \in Deliveries : e # d => dlv'[e] = dlv[e]
      /\ timely' = timely \ {d}
      /\ UNCHANGED <<attempt, due>>
  BY DEF Settle, Inv, LoopInv, TypeOK
<1>2. /\ \A e \in Deliveries : Message(e) \in Messages
      /\ \A n \in Messages :
           /\ n # Message(d) => stored'[n] = stored[n] /\ timer'[n] = timer[n]
           /\ stored'[n] = "pending" => attempt[n] < MaxDeliver
           /\ stored'[n] = "acked" => stored[n] = "acked" \/ (n = Message(d) /\ o = "ack")
           /\ stored'[n] = "termed" => stored[n] = "termed" \/ (n = Message(d) /\ o = "term")
           /\ o \in {"ack", "term"} /\ stored[n] \in {"outstanding", "acked", "termed"} =>
                /\ stored'[n] \in {"outstanding", "acked", "termed"}
                /\ stored'[n] = "outstanding" => stored[n] = "outstanding" /\ timer'[n] = timer[n]
  BY SettlementMeans, DeliveryIsPair DEF Settle
<1>3. \A e \in Deliveries : dlv[e] \in Outcome => dlv'[e] = dlv[e]
  BY <1>1 DEF Outcome
<1>4. \A m \in Messages :
        /\ stored'[m] = "acked" => \E e \in Deliveries : dlv'[e] = "ack" /\ Message(e) = m
        /\ stored'[m] = "termed" => \E e \in Deliveries : dlv'[e] = "term" /\ Message(e) = m
  BY <1>1, <1>2, <1>3, OutcomesStay DEF Inv
<1>5. timely' \subseteq InFlight'
  BY <1>1 DEF Inv, ServerInv, InFlight
<1>6. \A e \in timely' : Rejected(Message(e))' \/ Held(e)'
  <2> SUFFICES ASSUME NEW e \in timely', ~Rejected(Message(e))' PROVE Held(e)'
    OBVIOUS
  <2>1. e \in Deliveries /\ Message(e) \in Messages /\ e \in timely
    BY <1>1, <1>2 DEF Inv, ServerInv, InFlight
  <2>2. ~Rejected(Message(e))
    BY <1>3, <2>1, OutcomesStay DEF Inv, Message
  <2>3. Held(e)
    BY <2>1, <2>2 DEF Inv, ServerInv
  <2>4. CASE Message(e) # Message(d)
    BY <1>1, <1>2, <2>1, <2>3, <2>4 DEF Held, Message
  <2>5. CASE Message(e) = Message(d)
    <3>1. o \in {"ack", "term"}
      BY <1>1, <2>5 DEF Rejected, Outcome, Message
    <3>2. QED
      BY <1>1, <1>2, <2>1, <2>3, <3>1 DEF Held, Message
  <2>6. QED
    BY <2>4, <2>5
<1>7. \A e \in Deliveries : dlv'[e] # "none" => e[2] <= attempt'[Message(e)]
  BY <1>1 DEF Inv, ServerInv
<1>8. QED
  BY <1>1, <1>2, <1>4, <1>5, <1>6, <1>7 DEF Inv, ServerInv, Message

\* Under LogAndContinue the server is told nothing of a panic.
LEMMA PanickedServer == ASSUME Inv, NEW d \in Deliveries, Panicked(d) PROVE ServerInv'
<1>1. policy \in {"LogAndContinue", "FailWorker", "Propagate"}
  BY ConsumerAssumption DEF Inv, LoopInv, TypeOK
<1>2. CASE policy \in {"FailWorker", "Propagate"}
  <2> DEFINE f == [dlv EXCEPT ![d] = "panicked"]
  <2>1. /\ f \in [Deliveries -> Status] /\ dlv[d] = "ready"
        /\ \A e \in Deliveries : f[e] = IF e = d THEN "panicked" ELSE dlv[e]
    BY DEF Panicked, Inv, LoopInv, TypeOK, Status
  <2>2. UNCHANGED server /\ \E how \in {"error", "panic"} : End(how, f)
    BY <1>2 DEF Panicked
  <2> HIDE DEF f
  <2>3. QED
    BY <2>1, <2>2, EndServer DEF Outcome
<1>3. CASE policy = "LogAndContinue"
  <2>1. /\ dlv[d] = "ready" /\ dlv'[d] = "panicked"
        /\ \A e \in Deliveries : e # d => dlv'[e] = dlv[e]
        /\ timely' = timely \ {d}
        /\ UNCHANGED <<stored, attempt, timer, due>>
    BY <1>3 DEF Panicked, Inv, LoopInv, TypeOK, server
  <2>2. \A e \in Deliveries : dlv[e] \in Outcome => dlv'[e] = dlv[e]
    BY <2>1 DEF Outcome
  <2>3. \A m \in Messages :
          /\ stored'[m] = "acked" => \E e \in Deliveries : dlv'[e] = "ack" /\ Message(e) = m
          /\ stored'[m] = "termed" => \E e \in Deliveries : dlv'[e] = "term" /\ Message(e) = m
    BY <2>1, <2>2, OutcomesStay DEF Inv
  <2>4. timely' \subseteq InFlight'
    BY <2>1 DEF Inv, ServerInv, InFlight
  <2>5. \A e \in timely' : Rejected(Message(e))' \/ Held(e)'
    <3> SUFFICES ASSUME NEW e \in timely', ~Rejected(Message(e))' PROVE Held(e)'
      OBVIOUS
    <3>1. e \in Deliveries /\ Message(e) \in Messages /\ e \in timely
      BY <2>1, DeliveryIsPair DEF Inv, ServerInv, InFlight
    <3>2. Held(e)
      BY <2>2, <3>1, OutcomesStay DEF Inv, ServerInv, Message
    <3>3. QED
      BY <2>1, <3>2 DEF Held, Message
  <2>6. \A e \in Deliveries : dlv'[e] # "none" => e[2] <= attempt'[Message(e)]
    BY <2>1 DEF Inv, ServerInv
  <2>7. QED
    BY <2>1, <2>3, <2>4, <2>5, <2>6 DEF Inv, ServerInv, Message
<1>4. QED
  BY <1>1, <1>2, <1>3

LEMMA AdmitServer == ASSUME Inv, NEW d \in Deliveries, Admit(d) PROVE ServerInv'
<1>1. /\ dlv[d] = "buffered" /\ dlv'[d] = "running"
      /\ \A e \in Deliveries : e # d => dlv'[e] = dlv[e]
      /\ \A e \in Deliveries : due'[e] = IF e = d THEN Period ELSE due[e]
      /\ timely' = IF InTime(d) THEN timely \cup {d} ELSE timely
      /\ UNCHANGED <<stored, attempt, timer>>
  BY DEF Admit, Inv, LoopInv, TypeOK, server
<1>2. \A e \in Deliveries : dlv[e] \in Outcome => dlv'[e] = dlv[e]
  BY <1>1 DEF Outcome
<1>3. \A m \in Messages :
        /\ stored'[m] = "acked" => \E e \in Deliveries : dlv'[e] = "ack" /\ Message(e) = m
        /\ stored'[m] = "termed" => \E e \in Deliveries : dlv'[e] = "term" /\ Message(e) = m
  BY <1>1, <1>2, OutcomesStay DEF Inv
<1>4. timely' \subseteq InFlight' /\ d \notin timely
  BY <1>1 DEF Inv, ServerInv, InFlight
<1>5. \A e \in timely' : Rejected(Message(e))' \/ Held(e)'
  <2> SUFFICES ASSUME NEW e \in timely', ~Rejected(Message(e))' PROVE Held(e)'
    OBVIOUS
  <2>1. CASE e = d
    BY <1>1, <1>4, <2>1 DEF Held, InTime, Message
  <2>2. CASE e # d
    <3>1. e \in Deliveries /\ Message(e) \in Messages /\ e \in timely
      BY <1>1, <2>2, DeliveryIsPair DEF Inv, ServerInv, InFlight
    <3>2. Held(e)
      BY <1>2, <3>1, OutcomesStay DEF Inv, ServerInv, Message
    <3>3. QED
      BY <1>1, <2>2, <3>1, <3>2 DEF Held, Message
  <2>3. QED
    BY <2>1, <2>2
<1>6. \A e \in Deliveries : dlv'[e] # "none" => e[2] <= attempt'[Message(e)]
  BY <1>1 DEF Inv, ServerInv
<1>7. \A e \in Deliveries : due'[e] <= Period
  BY <1>1, ConsumerAssumption DEF Inv, ServerInv
<1>8. QED
  BY <1>1, <1>3, <1>4, <1>5, <1>6, <1>7 DEF Inv, ServerInv, Message

\* The ends of the worker that the other lemmas leave open.
LEMMA LastServer ==
  ASSUME Inv,
         \/ Abort \/ Drained \/ EndOfStream
         \/ \E d \in Deliveries : ProgressFailed(d) \/ SettleFailed(d)
  PROVE  ServerInv'
<1>1. dlv \in [Deliveries -> Status]
  BY DEF Inv, LoopInv, TypeOK
<1>2. CASE Abort \/ Drained \/ EndOfStream \/ \E d \in Deliveries : ProgressFailed(d)
  BY <1>1, <1>2, EndServer DEF Abort, Drained, EndOfStream, ProgressFailed
<1>3. ASSUME NEW d \in Deliveries, SettleFailed(d) PROVE ServerInv'
  <2> DEFINE f == [dlv EXCEPT ![d] = "unsettled"]
  <2>1. /\ f \in [Deliveries -> Status] /\ dlv[d] = "ready"
        /\ \A e \in Deliveries : f[e] = IF e = d THEN "unsettled" ELSE dlv[e]
    BY <1>1, <1>3 DEF SettleFailed, Status
  <2>2. UNCHANGED server /\ End("error", f)
    BY <1>3 DEF SettleFailed
  <2> HIDE DEF f
  <2>3. QED
    BY <2>1, <2>2, EndServer DEF Outcome
<1>4. QED
  BY <1>2, <1>3

LEMMA NextServer == Inv /\ [Next]_vars => ServerInv'
<1>1. SUFFICES ASSUME Inv, [Next]_vars PROVE ServerInv'
  OBVIOUS
<1>2. CASE UNCHANGED vars
  BY <1>1, <1>2, QuietServer DEF vars, Inv, server
<1>3. CASE Signal \/ StreamEnds \/ PollSignal \/ NoneReady \/ Sleep
  BY <1>1, <1>3, QuietServer DEF Signal, StreamEnds, PollSignal, NoneReady, Sleep, Inv
<1>4. CASE Environment
  BY <1>1, <1>3, <1>4, DeliverServer, ExpireServer, TickServer, HandlerReadyServer, LastServer
  DEF Environment
<1>5. CASE Loop
  BY <1>1, <1>3, <1>5, ProgressServer, SettleServer, PanickedServer, AdmitServer, LastServer
  DEF Loop
<1>6. QED
  BY <1>1, <1>2, <1>4, <1>5 DEF Next, Terminated

\* Inv holds in every state of every behaviour of the worker and its consumer.
THEOREM Invariance == Spec => []Inv
BY InitLoop, InitServer, NextLoop, NextServer, PTL DEF Spec, Inv
-----------------------------------------------------------------------------
(* What follows from the invariant.                                        *)

\* The number of handlers never exceeds the limit, redeliveries counted, and at most one
\* delivery is taken after the shutdown request.
THEOREM Limits == Spec => [](ConcurrencyBound /\ LateAdmission)
<1>1. Inv => ConcurrencyBound /\ LateAdmission
  BY DEF Inv, LoopInv, LateInv, LateAdmission
<1>2. QED
  BY <1>1, Invariance, PTL

\* A worker that returns Ok was told to stop and settled what it took, panics aside.
THEOREM ExitIsClean == Spec => []CleanExit
<1>1. Inv => CleanExit
  BY DEF Inv, LoopInv, Loc, Fate, CleanExit, With
<1>2. QED
  BY <1>1, Invariance, PTL

\* No message leaves the stream but on the word of one of its handlers.
THEOREM HandlersSettle == Spec => []OnlyHandlersSettle
<1>1. Inv => OnlyHandlersSettle
  BY DEF Inv, ServerInv, OnlyHandlersSettle, With
<1>2. QED
  BY <1>1, Invariance, PTL

\* Progress keeps the deliveries of a message apart, for every period below ack_wait.
THEOREM ProgressPreventsOverlap == Spec => []NoOverlap
<1>1. Inv => NoOverlap
  <2> SUFFICES ASSUME Inv, NEW d \in InFlight, NEW e \in InFlight,
                      Message(d) = Message(e), d[2] < e[2], d \in timely
               PROVE  \E f \in With({"nack", "nackAfter", "error"}) : Message(f) = Message(d)
    BY DEF NoOverlap
  <2>1. d \in Deliveries /\ e \in Deliveries /\ dlv[e] # "none"
    BY DEF InFlight
  <2>2. e[2] <= attempt[Message(d)]
    BY <2>1 DEF Inv, ServerInv
  <2>3. d[2] \in Nat /\ e[2] \in Nat
    BY <2>1, DeliveryIsPair, ConsumerAssumption
  <2>4. ~Held(d)
    BY <2>2, <2>3 DEF Held
  <2>5. QED
    BY <2>4 DEF Inv, ServerInv, Rejected, With
<1>2. QED
  BY <1>1, Invariance, PTL
-----------------------------------------------------------------------------
(* The refinement of BoundedWorker.                                        *)

\* The phase and the settled deliveries of the refinement mapping.
Phase == CASE pc # "ended" /\ accepting -> "serving"
           [] pc # "ended" /\ ~accepting -> "draining"
           [] pc = "ended" /\ result = "ok" -> "drained"
           [] OTHER -> "broken"
Settled == With(Outcome \cup {"unsettled", "panicked"})
Dropped == With({"cancelled"})

\* The abstract module's instance of Cardinality is the one used here.
LEMMA SameCardinality == \A S : Abstract!Cardinality(S) = Cardinality(S)
BY Zenon DEF Abstract!Cardinality, Cardinality

LEMMA InitAbstract == Init => Abstract!Init
BY DEF Init, Abstract!Init, InFlight, With, Outcome

\* A step that ends the worker other than Ok breaks the abstract worker.
LEMMA BreakStep ==
  ASSUME Inv, pc # "ended", NEW f \in [Deliveries -> Status], NEW S \in SUBSET InFlight,
         S = {} \/ \E d \in InFlight : S = {d},
         \A e \in Deliveries \ S : f[e] = dlv[e],
         \A e \in S : f[e] \in {"unsettled", "panicked"},
         NEW how \in {"error", "panic", "aborted"}, End(how, f), UNCHANGED accepting
  PROVE  Abstract!Break
<1>1. pc' = "ended" /\ result' = how /\ dlv' = DropAll(f)
  BY DEF End
<1>2. \A e \in Deliveries :
         dlv'[e] = CASE f[e] \in {"running", "ready"} -> "cancelled"
                     [] f[e] = "buffered" -> "abandoned"
                     [] OTHER -> f[e]
  BY <1>1 DEF DropAll
<1>3. InFlight' = {}
  BY <1>1, DropAllDeliveries
<1>4. Settled' = Settled \cup S
  BY <1>2 DEF Settled, With, InFlight, Outcome
<1>5. Dropped' = Dropped \cup (InFlight \ S)
  BY <1>2 DEF Dropped, With, InFlight
<1>6. Abstract!Cardinality(S) <= 1
  <2>1. CASE S = {}
    BY <2>1, FS_EmptySet, SameCardinality
  <2>2. CASE \E d \in InFlight : S = {d}
    BY <2>2, FS_Singleton, SameCardinality
  <2>3. QED
    BY <2>1, <2>2
<1>7. Phase \in {"serving", "draining"} /\ Phase' = "broken"
  BY <1>1 DEF Phase, Inv, LoopInv, TypeOK
<1>8. QED
  BY <1>3, <1>4, <1>5, <1>6, <1>7 DEF Abstract!Break, Phase, Settled, Dropped

\* A step that moves deliveries only among those that nobody holds, or starts or ends
\* nothing, is a stutter of the abstract worker.
LEMMA StutterStep ==
  ASSUME UNCHANGED <<accepting, result>>, (pc = "ended") <=> (pc' = "ended"),
         InFlight' = InFlight, Settled' = Settled, Dropped' = Dropped
  PROVE  UNCHANGED Abstract!vars
<1>1. Phase' = Phase
  BY DEF Phase
<1>2. QED
  BY <1>1 DEF Abstract!vars, Phase, Settled, Dropped

\* Steps that leave the deliveries and the phase of the worker alone.
LEMMA QuietStep ==
  ASSUME UNCHANGED <<dlv, accepting, result>>, (pc = "ended") <=> (pc' = "ended")
  PROVE  UNCHANGED Abstract!vars
<1>1. InFlight' = InFlight /\ Settled' = Settled /\ Dropped' = Dropped
  BY DEF InFlight, Settled, Dropped, With
<1>2. QED
  BY <1>1, StutterStep

LEMMA EnvironmentAbstract ==
  ASSUME Inv, Environment
  PROVE  [Abstract!Next]_(Abstract!vars)
<1>1. ASSUME NEW m \in Messages, Deliver(m) PROVE UNCHANGED Abstract!vars
  <2> DEFINE e == <<m, attempt[m] + 1>>
  <2>1. /\ e \in Deliveries /\ dlv[e] = "none"
        /\ \A d \in Deliveries : dlv'[d] = IF d = e THEN "buffered" ELSE dlv[d]
        /\ UNCHANGED <<pc, accepting, result>>
    BY <1>1, DeliverFresh DEF Deliver
  <2> HIDE DEF e
  <2>2. InFlight' = InFlight /\ Settled' = Settled /\ Dropped' = Dropped
    BY <2>1 DEF InFlight, Settled, Dropped, With, Outcome
  <2>3. QED
    BY <2>1, <2>2, StutterStep
<1>2. ASSUME NEW d \in Deliveries, HandlerReady(d) PROVE UNCHANGED Abstract!vars
  <2>1. /\ dlv[d] = "running"
        /\ \A e \in Deliveries : dlv'[e] = IF e = d THEN "ready" ELSE dlv[e]
        /\ UNCHANGED <<pc, accepting, result>>
    BY <1>2 DEF HandlerReady, Inv, LoopInv, TypeOK
  <2>2. InFlight' = InFlight /\ Settled' = Settled /\ Dropped' = Dropped
    BY <2>1 DEF InFlight, Settled, Dropped, With, Outcome
  <2>3. QED
    BY <2>1, <2>2, StutterStep
<1>3. ASSUME Tick \/ Signal \/ StreamEnds \/ \E m \in Messages : Expire(m)
      PROVE  UNCHANGED Abstract!vars
  BY <1>3, QuietStep DEF Tick, Signal, StreamEnds, Expire
<1>4. ASSUME Abort PROVE Abstract!Break
  <2>1. pc # "ended" /\ End("aborted", dlv) /\ UNCHANGED accepting /\ dlv \in [Deliveries -> Status]
    BY <1>4 DEF Abort, Inv, LoopInv, TypeOK
  <2>2. /\ {} \in SUBSET InFlight
        /\ \A e \in Deliveries \ {} : dlv[e] = dlv[e]
        /\ \A e \in {} : dlv[e] \in {"unsettled", "panicked"}
    OBVIOUS
  <2>3. QED
    BY <2>1, <2>2, BreakStep
<1>5. QED
  BY <1>1, <1>2, <1>3, <1>4 DEF Environment, Abstract!Next

LEMMA LoopAbstract ==
  ASSUME Inv, Loop
  PROVE  [Abstract!Next]_(Abstract!vars)
<1>1. ASSUME Drained PROVE Abstract!FinishDrain
  <2>1. /\ End("ok", dlv) /\ InFlight = {} /\ pc = "signal" /\ ~accepting
        /\ UNCHANGED accepting /\ dlv \in [Deliveries -> Status]
    BY <1>1 DEF Drained, Inv, LoopInv, TypeOK
  <2>2. /\ InFlight' = {} /\ pc' = "ended" /\ result' = "ok"
        /\ \A d \in Deliveries : dlv[d] # "buffered" => dlv'[d] = dlv[d]
        /\ \A d \in Deliveries : dlv[d] = "buffered" => dlv'[d] = "abandoned"
    BY <2>1, DropAllDeliveries DEF End, DropAll, InFlight
  <2>3. Settled' = Settled /\ Dropped' = Dropped
    BY <2>2 DEF Settled, Dropped, With, Outcome
  <2>4. QED
    BY <2>1, <2>2, <2>3 DEF Abstract!FinishDrain, Settled, Dropped
<1>2. ASSUME PollSignal PROVE Abstract!BeginDrain \/ UNCHANGED Abstract!vars
  <2>1. CASE accepting /\ signal # "running"
    <3>1. accepting /\ ~accepting' /\ pc # "ended" /\ pc' # "ended" /\ dlv' = dlv
      BY <1>2, <2>1 DEF PollSignal
    <3>2. Phase = "serving" /\ Phase' = "draining"
      BY <3>1 DEF Phase
    <3>3. InFlight' = InFlight /\ Settled' = Settled /\ Dropped' = Dropped
      BY <3>1 DEF InFlight, With, Settled, Dropped
    <3>4. QED
      BY <3>2, <3>3 DEF Abstract!BeginDrain, Phase, Settled, Dropped
  <2>2. CASE ~(accepting /\ signal # "running")
    <3>1. UNCHANGED <<dlv, accepting, result>> /\ pc # "ended" /\ pc' # "ended"
      BY <1>2, <2>2 DEF PollSignal
    <3>2. QED
      BY <3>1, QuietStep
  <2>3. QED
    BY <2>1, <2>2
<1>3. ASSUME NoneReady \/ Sleep \/ \E d \in Deliveries : Progress(d)
      PROVE  UNCHANGED Abstract!vars
  <2>1. UNCHANGED <<dlv, accepting, result>> /\ ((pc = "ended") <=> (pc' = "ended"))
    BY <1>3 DEF NoneReady, Sleep, Progress
  <2>2. QED
    BY <2>1, QuietStep
<1>4. ASSUME NEW d \in Deliveries, NEW s \in Outcome \cup {"panicked"},
             pc = "flight", pc' = "signal", dlv[d] = "ready", dlv' = [dlv EXCEPT ![d] = s],
             UNCHANGED <<accepting, result>>
      PROVE  Abstract!Settle(d)
  <2>1. dlv'[d] = s /\ \A e \in Deliveries : e # d => dlv'[e] = dlv[e]
    BY <1>4 DEF Inv, LoopInv, TypeOK
  <2>2. InFlight' = InFlight \ {d} /\ d \in InFlight
    BY <1>4, <2>1 DEF InFlight, Outcome
  <2>3. Settled' = Settled \cup {d} /\ Dropped' = Dropped
    BY <1>4, <2>1 DEF Settled, Dropped, With, Outcome
  <2>4. Phase \in {"serving", "draining"} /\ Phase' = Phase
    BY <1>4 DEF Phase, Inv, LoopInv, TypeOK
  <2>5. QED
    BY <2>2, <2>3, <2>4 DEF Abstract!Settle, Phase, Settled, Dropped
<1>5. ASSUME NEW d \in Deliveries, NEW s \in {"unsettled", "panicked"},
             NEW how \in {"error", "panic"}, pc = "flight", dlv[d] = "ready",
             End(how, [dlv EXCEPT ![d] = s]), UNCHANGED accepting
      PROVE  Abstract!Break
  <2> DEFINE f == [dlv EXCEPT ![d] = s]
  <2>1. /\ f \in [Deliveries -> Status]
        /\ \A e \in Deliveries \ {d} : f[e] = dlv[e]
        /\ f[d] = s
    BY DEF Inv, LoopInv, TypeOK, Status
  <2>2. {d} \in SUBSET InFlight /\ d \in InFlight
    BY <1>5 DEF InFlight
  <2>3. End(how, f)
    BY <1>5
  <2> HIDE DEF f
  <2>4. QED
    BY <1>5, <2>1, <2>2, <2>3, BreakStep
<1>6. ASSUME NEW d \in Deliveries, NEW o \in Outcome, Settle(d, o) PROVE Abstract!Settle(d)
  BY <1>4, <1>6 DEF Settle
<1>7. ASSUME NEW d \in Deliveries, SettleFailed(d) PROVE Abstract!Break
  BY <1>5, <1>7 DEF SettleFailed
<1>8. ASSUME NEW d \in Deliveries, Panicked(d) PROVE Abstract!Settle(d) \/ Abstract!Break
  <2>1. policy \in {"LogAndContinue", "FailWorker", "Propagate"}
    BY ConsumerAssumption DEF Inv, LoopInv, TypeOK
  <2>2. CASE policy = "LogAndContinue"
    BY <1>4, <1>8, <2>2 DEF Panicked
  <2>3. CASE policy \in {"FailWorker", "Propagate"}
    BY <1>5, <1>8, <2>3 DEF Panicked
  <2>4. QED
    BY <2>1, <2>2, <2>3
<1>9. ASSUME NEW d \in Deliveries, Admit(d) PROVE Abstract!Admit(d)
  <2>1. /\ pc = "incoming" /\ pc' = "signal" /\ accepting /\ accepting' = accepting
        /\ result' = result /\ Cardinality(InFlight) < Concurrency
    BY <1>9 DEF Admit, Inv, LoopInv, Loc
  <2>2. dlv'[d] = "running" /\ dlv[d] = "buffered" /\ \A e \in Deliveries : e # d => dlv'[e] = dlv[e]
    BY <1>9 DEF Admit, Inv, LoopInv, TypeOK
  <2>3. InFlight' = InFlight \cup {d} /\ d \notin InFlight
    BY <2>2 DEF InFlight
  <2>4. Settled' = Settled /\ Dropped' = Dropped
    BY <2>2 DEF Settled, Dropped, With, Outcome
  <2>5. Phase = "serving" /\ Phase' = "serving"
    BY <2>1 DEF Phase
  <2>6. QED
    BY <2>1, <2>3, <2>4, <2>5, SameCardinality DEF Abstract!Admit, Phase, Settled, Dropped
<1>10. ASSUME EndOfStream \/ \E d \in Deliveries : ProgressFailed(d) PROVE Abstract!Break
  <2>1. pc # "ended" /\ End("error", dlv) /\ UNCHANGED accepting /\ dlv \in [Deliveries -> Status]
    BY <1>10 DEF EndOfStream, ProgressFailed, Inv, LoopInv, TypeOK
  <2>2. /\ {} \in SUBSET InFlight
        /\ \A e \in Deliveries \ {} : dlv[e] = dlv[e]
        /\ \A e \in {} : dlv[e] \in {"unsettled", "panicked"}
    OBVIOUS
  <2>3. QED
    BY <2>1, <2>2, BreakStep
<1>11. QED
  BY <1>1, <1>2, <1>3, <1>6, <1>7, <1>8, <1>9, <1>10 DEF Loop, Abstract!Next

\* Every behaviour of the consumer worker is one of the abstract worker, a delivery of a
\* message being one of its messages.
THEOREM ConsumerWorkerRefines == Spec => ImplementsBoundedWorker
<1>1. Inv /\ [Next]_vars => [Abstract!Next]_(Abstract!vars)
  <2>1. SUFFICES ASSUME Inv, [Next]_vars PROVE [Abstract!Next]_(Abstract!vars)
    OBVIOUS
  <2>2. ASSUME UNCHANGED vars PROVE UNCHANGED Abstract!vars
    BY <2>2, QuietStep DEF vars
  <2>3. QED
    BY <2>1, <2>2, EnvironmentAbstract, LoopAbstract DEF Next, Terminated
<1>2. QED
  BY <1>1, InitAbstract, Invariance, PTL DEF Spec, ImplementsBoundedWorker, Abstract!Spec
=============================================================================
