----------------------- MODULE SubscriptionWorkerProofs -----------------------
(***************************************************************************)
(* Proofs about the subscription worker for any finite set of messages, any *)
(* limit and any panic policy: its limit, its late admissions, and that it  *)
(* implements BoundedWorker although its handlers' errors and a failed      *)
(* unsubscribe end it.                                                      *)
(***************************************************************************)
EXTENDS SubscriptionWorker, FiniteSetTheorems, TLAPS

Types ==
  /\ policy \in PanicPolicies
  /\ signal \in {"running", "requested", "closed"}
  /\ pc \in {"signal", "flight", "incoming", "stopping", "ended"}
  /\ accepting \in BOOLEAN
  /\ subscribed \in BOOLEAN
  /\ streamOpen \in BOOLEAN
  /\ msg \in [Messages -> Status]
  /\ result \in {"none", "ok", "error", "panic", "aborted"}
  /\ late \in Nat

Loc ==
  /\ pc = "incoming" => accepting /\ Cardinality(InFlight) < Concurrency
  /\ pc = "stopping" => ~accepting
  /\ ~accepting => signal # "running"
  /\ pc = "ended" <=> result # "none"
  /\ pc = "ended" => ~subscribed /\ InFlight = {}

LateInv ==
  /\ late \in {0, 1}
  /\ signal = "running" => late = 0
  /\ late = 1 /\ accepting => pc \in {"signal", "ended"}

\* What became of the messages, and what the worker says of it.
Fate ==
  /\ result = "ok" => signal # "running"
  /\ \A m \in Messages :
       /\ msg[m] = "cancelled" => result \in {"error", "panic", "aborted"}
       /\ msg[m] = "failed" => result = "error"
       /\ msg[m] = "panicked" => policy = "LogAndContinue" \/ result \in {"error", "panic"}

Inv ==
  /\ Types
  /\ Loc
  /\ ConcurrencyBound
  /\ LateInv
  /\ Fate
-----------------------------------------------------------------------------
(* Sets of messages and their sizes.                                       *)

\* The handlers in flight are finitely many, in a state and in the next one.
LEMMA FiniteInFlight ==
  /\ IsFiniteSet(InFlight) /\ Cardinality(InFlight) \in Nat
  /\ IsFiniteSet(InFlight') /\ Cardinality(InFlight') \in Nat
<1>1. InFlight \in SUBSET Messages /\ InFlight' \in SUBSET Messages
  BY DEF InFlight
<1>2. \A T \in SUBSET Messages : IsFiniteSet(T) /\ Cardinality(T) \in Nat
  BY FS_Subset, FS_CardinalityType, SubscriptionAssumption
<1>3. QED
  BY <1>1, <1>2

\* Dropping what is in flight leaves nothing in flight, and the rest as it was.
LEMMA DropAllMessages ==
  ASSUME NEW f \in [Messages -> Status], msg' = DropAll(f)
  PROVE  /\ msg' \in [Messages -> Status]
         /\ InFlight' = {}
         /\ \A m \in Messages :
              /\ msg'[m] = "cancelled" <=> f[m] \in {"running", "ready", "cancelled"}
              /\ \A s \in {"handled", "failed", "panicked"} : msg'[m] = s <=> f[m] = s
BY DEF DropAll, InFlight, Status

\* The worker's end, however it comes about, establishes Loc and the bound.
LEMMA EndStep ==
  ASSUME NEW f \in [Messages -> Status], NEW how \in {"ok", "error", "panic", "aborted"},
         End(how, f), ~accepting' => signal' # "running"
  PROVE  /\ Loc'
         /\ ConcurrencyBound'
         /\ pc' = "ended" /\ result' = how /\ subscribed' = FALSE
         /\ msg' \in [Messages -> Status]
<1>1. /\ pc' = "ended" /\ result' = how /\ subscribed' = FALSE
      /\ msg' \in [Messages -> Status] /\ InFlight' = {}
  BY DropAllMessages DEF End
<1>2. Cardinality(InFlight') = 0
  BY <1>1, FS_EmptySet
<1>3. QED
  BY <1>1, <1>2, SubscriptionAssumption DEF Loc, ConcurrencyBound

\* An end with anything but Ok, of at most one message that failed or panicked, keeps Inv.
LEMMA BadEndInv ==
  ASSUME Inv, pc # "ended", NEW f \in [Messages -> Status],
         NEW how \in {"error", "panic", "aborted"}, End(how, f),
         UNCHANGED <<channel, accepting, late>>,
         \A m \in Messages : \/ f[m] = msg[m]
                             \/ f[m] = "failed" /\ how = "error"
                             \/ f[m] = "panicked" /\ how \in {"error", "panic"}
  PROVE  Inv'
<1>1. /\ Loc' /\ ConcurrencyBound'
      /\ pc' = "ended" /\ result' = how /\ subscribed' = FALSE
      /\ msg' \in [Messages -> Status]
  BY EndStep DEF Inv, Loc, channel
<1>2. Types' /\ LateInv'
  BY <1>1 DEF Inv, Types, LateInv, channel
<1>3. result = "none" /\ policy' = policy
  BY DEF Inv, Types, Loc, channel
<1>4. Fate'
  BY <1>1, <1>3, DropAllMessages DEF Inv, Fate, End
<1>5. QED
  BY <1>1, <1>2, <1>4 DEF Inv

\* Steps that leave the messages and the result alone and stay in the loop.
LEMMA QuietInv ==
  ASSUME Inv, UNCHANGED <<policy, msg, result, late>>, Types', Loc', LateInv',
         signal' # "running" \/ signal' = signal
  PROVE  Inv'
<1>1. InFlight' = InFlight
  BY DEF InFlight
<1>2. QED
  BY <1>1 DEF Inv, ConcurrencyBound, Fate
-----------------------------------------------------------------------------
(* The invariant is inductive.                                             *)

LEMMA InitInv == Init => Inv
<1>1. SUFFICES ASSUME Init PROVE Inv
  OBVIOUS
<1>2. InFlight = {}
  BY <1>1 DEF Init, InFlight
<1>3. Cardinality(InFlight) = 0
  BY <1>2, FS_EmptySet
<1>4. QED
  BY <1>1, <1>2, <1>3, SubscriptionAssumption
  DEF Init, Inv, Types, Status, Loc, ConcurrencyBound, LateInv, Fate

LEMMA MessageInv ==
  ASSUME Inv, NEW m \in Messages, Publish(m) \/ HandlerReady(m)
  PROVE  Inv'
<1>1. /\ msg' \in [Messages -> Status] /\ \A n \in Messages : n # m => msg'[n] = msg[n]
      /\ \/ msg[m] = "idle" /\ msg'[m] \in {"queued", "missed"}
         \/ msg[m] = "running" /\ msg'[m] = "ready"
      /\ UNCHANGED <<channel, pc, accepting, subscribed, result, late>>
  BY DEF Inv, Types, Publish, HandlerReady, Status
<1>2. InFlight' = InFlight
  BY <1>1 DEF InFlight
<1>3. QED
  BY <1>1, <1>2 DEF Inv, Types, Loc, ConcurrencyBound, LateInv, Fate, channel

LEMMA ChannelInv == ASSUME Inv, Signal \/ StreamEnds PROVE Inv'
<1>1. InFlight' = InFlight
  BY DEF Signal, StreamEnds, InFlight
<1>2. CASE Signal
  BY <1>1, <1>2 DEF Inv, Types, Loc, ConcurrencyBound, LateInv, Fate, Signal
<1>3. CASE StreamEnds
  BY <1>1, <1>3 DEF Inv, Types, Loc, ConcurrencyBound, LateInv, Fate, StreamEnds
<1>4. QED
  BY <1>2, <1>3

LEMMA AbortInv == ASSUME Inv, Abort PROVE Inv'
BY BadEndInv DEF Abort, Inv, Types

LEMMA DrainedInv == ASSUME Inv, Drained PROVE Inv'
<1>1. /\ End("ok", msg) /\ msg \in [Messages -> Status]
      /\ UNCHANGED <<channel, accepting, late>>
      /\ ~accepting /\ InFlight = {} /\ result = "none" /\ signal # "running"
  BY DEF Drained, Inv, Types, Loc
<1>2. /\ Loc' /\ ConcurrencyBound'
      /\ pc' = "ended" /\ result' = "ok" /\ subscribed' = FALSE
      /\ msg' \in [Messages -> Status]
  BY <1>1, EndStep DEF channel
<1>3. Types' /\ LateInv'
  BY <1>1, <1>2 DEF Inv, Types, LateInv, channel
<1>4. Fate'
  BY <1>1, <1>2, DropAllMessages DEF Inv, Fate, End, InFlight, channel
<1>5. QED
  BY <1>2, <1>3, <1>4 DEF Inv

LEMMA TurnInv == ASSUME Inv, PollSignal \/ Unsubscribed \/ NoneReady \/ Sleep PROVE Inv'
<1>1. InFlight' = InFlight
  BY DEF PollSignal, Unsubscribed, NoneReady, Sleep, InFlight
<1>2. CASE PollSignal
  <2>1. Types' /\ ConcurrencyBound' /\ Fate'
    BY <1>1, <1>2 DEF Inv, Types, ConcurrencyBound, Fate, PollSignal, channel
  <2>2. Loc'
    BY <1>1, <1>2 DEF Inv, Types, Loc, PollSignal, channel
  <2>3. LateInv'
    BY <1>2 DEF Inv, Types, Loc, LateInv, PollSignal, channel
  <2>4. QED
    BY <2>1, <2>2, <2>3 DEF Inv
<1>3. CASE Unsubscribed
  BY <1>1, <1>3 DEF Inv, Types, Loc, ConcurrencyBound, LateInv, Fate, Unsubscribed, channel
<1>4. CASE NoneReady
  BY <1>1, <1>4 DEF Inv, Types, Loc, ConcurrencyBound, LateInv, Fate, NoneReady, channel
<1>5. CASE Sleep
  BY <1>1, <1>5 DEF Inv, Types, Loc, ConcurrencyBound, LateInv, Fate, Sleep, channel
<1>6. QED
  BY <1>2, <1>3, <1>4, <1>5

LEMMA UnsubscribeFailedInv == ASSUME Inv, UnsubscribeFailed PROVE Inv'
BY BadEndInv DEF UnsubscribeFailed, Inv, Types

LEMMA EndOfStreamInv == ASSUME Inv, EndOfStream PROVE Inv'
BY BadEndInv DEF EndOfStream, Inv, Types

\* A handler that ends and leaves the worker running.
LEMMA SettledInv ==
  ASSUME Inv, NEW m \in Messages, pc = "flight", pc' = "signal", msg[m] = "ready",
         NEW s \in {"handled", "panicked"}, s = "panicked" => policy = "LogAndContinue",
         msg' = [msg EXCEPT ![m] = s],
         UNCHANGED <<channel, accepting, subscribed, result, late>>
  PROVE  Inv'
<1>1. InFlight' = InFlight \ {m} /\ m \in InFlight
  BY DEF Inv, Types, InFlight
<1>2. Cardinality(InFlight') = Cardinality(InFlight) - 1
  BY <1>1, FiniteInFlight, FS_RemoveElement
<1>3. /\ msg' \in [Messages -> Status] /\ msg'[m] = s
      /\ \A n \in Messages : n # m => msg'[n] = msg[n]
  BY DEF Inv, Types, Status
<1>4. ConcurrencyBound'
  BY <1>2, FiniteInFlight, SubscriptionAssumption DEF Inv, ConcurrencyBound
<1>5. Types' /\ Loc' /\ LateInv' /\ Fate'
  BY <1>3 DEF Inv, Types, Loc, LateInv, Fate, channel
<1>6. QED
  BY <1>4, <1>5 DEF Inv

LEMMA HandledInv == ASSUME Inv, NEW m \in Messages, Handled(m) PROVE Inv'
BY SettledInv DEF Handled

\* The end of the worker with the message that brought it about.
LEMMA LostInv ==
  ASSUME Inv, NEW m \in Messages, pc = "flight", NEW s \in {"failed", "panicked"},
         NEW how \in {"error", "panic"}, s = "failed" => how = "error",
         End(how, [msg EXCEPT ![m] = s]), UNCHANGED <<channel, accepting, late>>
  PROVE  Inv'
<1> DEFINE f == [msg EXCEPT ![m] = s]
<1>1. f \in [Messages -> Status] /\ \A n \in Messages : f[n] = IF n = m THEN s ELSE msg[n]
  BY DEF Inv, Types, Status
<1>2. End(how, f)
  OBVIOUS
<1> HIDE DEF f
<1>3. QED
  BY <1>1, <1>2, BadEndInv

LEMMA HandlerFailedInv == ASSUME Inv, NEW m \in Messages, HandlerFailed(m) PROVE Inv'
BY LostInv DEF HandlerFailed

LEMMA PanickedInv == ASSUME Inv, NEW m \in Messages, Panicked(m) PROVE Inv'
<1>1. policy \in {"LogAndContinue", "FailWorker", "Propagate"}
  BY SubscriptionAssumption DEF Inv, Types
<1>2. QED
  BY <1>1, SettledInv, LostInv DEF Panicked

LEMMA AdmitInv == ASSUME Inv, NEW m \in Messages, Admit(m) PROVE Inv'
<1>1. InFlight' = InFlight \cup {m} /\ m \notin InFlight
  BY DEF Inv, Types, Admit, InFlight
<1>2. Cardinality(InFlight') = Cardinality(InFlight) + 1
  BY <1>1, FiniteInFlight, FS_AddElement
<1>3. /\ msg' \in [Messages -> Status] /\ msg'[m] = "running"
      /\ \A n \in Messages : n # m => msg'[n] = msg[n]
  BY DEF Inv, Types, Admit, Status
<1>4. pc = "incoming" /\ accepting /\ Cardinality(InFlight) < Concurrency
  BY DEF Inv, Loc, Admit
<1>5. ConcurrencyBound'
  BY <1>2, <1>4, FiniteInFlight, SubscriptionAssumption DEF ConcurrencyBound
<1>6. Types' /\ Loc' /\ LateInv'
  BY <1>3, <1>4 DEF Inv, Types, Loc, LateInv, Admit, channel
<1>7. Fate'
  BY <1>3 DEF Inv, Fate, Admit, channel
<1>8. QED
  BY <1>5, <1>6, <1>7 DEF Inv

LEMMA NextInv == Inv /\ [Next]_vars => Inv'
<1>1. SUFFICES ASSUME Inv, [Next]_vars PROVE Inv'
  OBVIOUS
<1>2. CASE UNCHANGED vars
  <2>1. InFlight' = InFlight
    BY <1>2 DEF vars, InFlight
  <2>2. QED
    BY <1>1, <1>2, <2>1 DEF Inv, Types, Loc, ConcurrencyBound, LateInv, Fate, vars
<1>3. CASE Environment
  BY <1>1, <1>3, MessageInv, ChannelInv, AbortInv DEF Environment
<1>4. CASE Loop
  BY <1>1, <1>4, DrainedInv, TurnInv, UnsubscribeFailedInv, EndOfStreamInv, HandledInv,
     HandlerFailedInv, PanickedInv, AdmitInv DEF Loop
<1>5. QED
  BY <1>1, <1>2, <1>3, <1>4 DEF Next, Terminated

\* Inv holds in every state of every behaviour of the worker.
THEOREM Invariance == Spec => []Inv
BY InitInv, NextInv, PTL DEF Spec
-----------------------------------------------------------------------------
(* What follows from the invariant.                                        *)

\* The number of handlers never exceeds the limit, and at most one message is taken after the
\* shutdown request.
THEOREM Limits == Spec => [](ConcurrencyBound /\ LateAdmission)
<1>1. Inv => ConcurrencyBound /\ LateAdmission
  BY DEF Inv, LateInv, LateAdmission
<1>2. QED
  BY <1>1, Invariance, PTL
-----------------------------------------------------------------------------
(* The refinement of BoundedWorker.                                        *)

\* The phase and the settled messages of the refinement mapping.
Phase == CASE pc # "ended" /\ accepting -> "serving"
           [] pc # "ended" /\ ~accepting -> "draining"
           [] pc = "ended" /\ result = "ok" -> "drained"
           [] OTHER -> "broken"
Settled == With("handled") \cup With("failed") \cup With("panicked")

\* The abstract module's instance of Cardinality is the one used here.
LEMMA SameCardinality == \A S : Abstract!Cardinality(S) = Cardinality(S)
BY Zenon DEF Abstract!Cardinality, Cardinality

LEMMA InitAbstract == Init => Abstract!Init
BY DEF Init, Abstract!Init, InFlight, With

\* A step that ends the worker other than Ok breaks the abstract worker.
LEMMA BreakStep ==
  ASSUME Inv, pc # "ended", NEW f \in [Messages -> Status], NEW S \in SUBSET InFlight,
         S = {} \/ \E m \in InFlight : S = {m},
         \A q \in Messages \ S : f[q] = msg[q],
         \A q \in S : f[q] \in {"failed", "panicked"},
         NEW how \in {"error", "panic", "aborted"}, End(how, f), UNCHANGED accepting
  PROVE  Abstract!Break
<1>1. pc' = "ended" /\ result' = how /\ msg' = DropAll(f)
  BY DEF End
<1>2. \A q \in Messages :
         msg'[q] = CASE f[q] \in {"running", "ready"} -> "cancelled"
                     [] f[q] = "queued" -> "abandoned"
                     [] OTHER -> f[q]
  BY <1>1 DEF DropAll
<1>3. InFlight' = {}
  BY <1>1, DropAllMessages
<1>4. Settled' = Settled \cup S
  BY <1>2 DEF Settled, With, InFlight
<1>5. With("cancelled")' = With("cancelled") \cup (InFlight \ S)
  BY <1>2 DEF With, InFlight
<1>6. Abstract!Cardinality(S) <= 1
  <2>1. CASE S = {}
    BY <2>1, FS_EmptySet, SameCardinality
  <2>2. CASE \E m \in InFlight : S = {m}
    BY <2>2, FS_Singleton, SameCardinality
  <2>3. QED
    BY <2>1, <2>2
<1>7. /\ Phase \in {"serving", "draining"} /\ Phase' = "broken"
  BY <1>1 DEF Phase, Inv, Types
<1>8. QED
  BY <1>3, <1>4, <1>5, <1>6, <1>7 DEF Abstract!Break, Phase, Settled

\* A step that keeps phase and messages is a stutter of the abstract worker.
LEMMA StutterStep ==
  ASSUME InFlight' = InFlight, Phase' = Phase,
         \A s \in {"handled", "failed", "panicked", "cancelled"} : With(s)' = With(s)
  PROVE  UNCHANGED Abstract!vars
BY DEF Abstract!vars, Phase

\* Steps that leave the messages and the phase of the worker alone.
LEMMA QuietStep ==
  ASSUME UNCHANGED <<msg, accepting, result>>, (pc = "ended") <=> (pc' = "ended")
  PROVE  UNCHANGED Abstract!vars
<1>1. InFlight' = InFlight /\ Phase' = Phase
  BY DEF InFlight, Phase
<1>2. \A s \in {"handled", "failed", "panicked", "cancelled"} : With(s)' = With(s)
  BY DEF With
<1>3. QED
  BY <1>1, <1>2, StutterStep

LEMMA EnvironmentAbstract ==
  ASSUME Inv, Environment
  PROVE  [Abstract!Next]_(Abstract!vars)
<1>1. ASSUME NEW m \in Messages, Publish(m) \/ HandlerReady(m)
      PROVE  UNCHANGED Abstract!vars
  <2>1. /\ \A q \in Messages : q # m => msg'[q] = msg[q]
        /\ \/ msg[m] = "idle" /\ msg'[m] \in {"queued", "missed"}
           \/ msg[m] = "running" /\ msg'[m] = "ready"
        /\ UNCHANGED <<pc, accepting, result>>
    BY <1>1 DEF Publish, HandlerReady, Inv, Types
  <2>2. InFlight' = InFlight /\ Phase' = Phase
    BY <2>1 DEF InFlight, Phase
  <2>3. \A s \in {"handled", "failed", "panicked", "cancelled"} : With(s)' = With(s)
    BY <2>1 DEF With
  <2>4. QED
    BY <2>2, <2>3, StutterStep
<1>2. ASSUME Signal \/ StreamEnds
      PROVE  UNCHANGED Abstract!vars
  BY <1>2, QuietStep DEF Signal, StreamEnds
<1>3. ASSUME Abort
      PROVE  Abstract!Break
  <2>1. pc # "ended" /\ End("aborted", msg) /\ UNCHANGED accepting /\ msg \in [Messages -> Status]
    BY <1>3 DEF Abort, Inv, Types
  <2>2. /\ {} \in SUBSET InFlight
        /\ \A q \in Messages \ {} : msg[q] = msg[q]
        /\ \A q \in {} : msg[q] \in {"failed", "panicked"}
    OBVIOUS
  <2>3. QED
    BY <2>1, <2>2, BreakStep
<1>4. QED
  BY <1>1, <1>2, <1>3 DEF Environment, Abstract!Next

LEMMA LoopAbstract ==
  ASSUME Inv, Loop
  PROVE  [Abstract!Next]_(Abstract!vars)
<1>1. ASSUME Drained PROVE Abstract!FinishDrain
  <2>1. /\ End("ok", msg) /\ InFlight = {} /\ pc = "signal" /\ ~accepting
        /\ UNCHANGED accepting /\ msg \in [Messages -> Status]
    BY <1>1 DEF Drained, Inv, Types
  <2>2. /\ InFlight' = {} /\ pc' = "ended" /\ result' = "ok"
        /\ \A m \in Messages : msg[m] # "queued" => msg'[m] = msg[m]
        /\ \A m \in Messages : msg[m] = "queued" => msg'[m] = "abandoned"
    BY <2>1, DropAllMessages DEF End, DropAll, InFlight
  <2>3. \A s \in {"handled", "failed", "panicked", "cancelled"} : With(s)' = With(s)
    BY <2>2 DEF With
  <2>4. QED
    BY <2>1, <2>2, <2>3 DEF Abstract!FinishDrain
<1>2. ASSUME PollSignal PROVE Abstract!BeginDrain \/ UNCHANGED Abstract!vars
  <2>1. CASE accepting /\ signal # "running"
    <3>1. accepting /\ ~accepting' /\ pc # "ended" /\ pc' # "ended" /\ msg' = msg
      BY <1>2, <2>1 DEF PollSignal
    <3>2. Phase = "serving" /\ Phase' = "draining"
      BY <3>1 DEF Phase
    <3>3. InFlight' = InFlight /\ \A s : With(s)' = With(s)
      BY <3>1 DEF InFlight, With
    <3>4. QED
      BY <3>2, <3>3 DEF Abstract!BeginDrain, Phase
  <2>2. CASE ~(accepting /\ signal # "running")
    <3>1. UNCHANGED <<msg, accepting, result>> /\ pc # "ended" /\ pc' # "ended"
      BY <1>2, <2>2 DEF PollSignal
    <3>2. QED
      BY <3>1, QuietStep
  <2>3. QED
    BY <2>1, <2>2
<1>3. ASSUME Unsubscribed \/ NoneReady \/ Sleep PROVE UNCHANGED Abstract!vars
  <2>1. UNCHANGED <<msg, accepting, result>> /\ pc # "ended" /\ pc' # "ended"
    BY <1>3 DEF Unsubscribed, NoneReady, Sleep
  <2>2. QED
    BY <2>1, QuietStep
<1>4. ASSUME NEW m \in Messages, NEW s \in {"handled", "panicked"},
             pc = "flight", pc' = "signal", msg[m] = "ready", msg' = [msg EXCEPT ![m] = s],
             UNCHANGED <<accepting, result>>
      PROVE  Abstract!Settle(m)
  <2>1. msg'[m] = s /\ \A q \in Messages : q # m => msg'[q] = msg[q]
    BY <1>4 DEF Inv, Types
  <2>2. InFlight' = InFlight \ {m} /\ m \in InFlight
    BY <1>4, <2>1 DEF InFlight
  <2>3. Settled' = Settled \cup {m} /\ With("cancelled")' = With("cancelled")
    BY <1>4, <2>1 DEF Settled, With
  <2>4. Phase \in {"serving", "draining"} /\ Phase' = Phase
    BY <1>4 DEF Phase, Inv, Types
  <2>5. QED
    BY <2>2, <2>3, <2>4 DEF Abstract!Settle, Phase, Settled
<1>5. ASSUME NEW m \in Messages, NEW s \in {"failed", "panicked"},
             NEW how \in {"error", "panic"}, pc = "flight", msg[m] = "ready",
             End(how, [msg EXCEPT ![m] = s]), UNCHANGED accepting
      PROVE  Abstract!Break
  <2> DEFINE f == [msg EXCEPT ![m] = s]
  <2>1. /\ f \in [Messages -> Status]
        /\ \A q \in Messages \ {m} : f[q] = msg[q]
        /\ f[m] = s
    BY DEF Inv, Types, Status
  <2>2. {m} \in SUBSET InFlight /\ m \in InFlight
    BY <1>5 DEF InFlight
  <2>3. End(how, f)
    BY <1>5
  <2> HIDE DEF f
  <2>4. QED
    BY <1>5, <2>1, <2>2, <2>3, BreakStep
<1>6. ASSUME NEW m \in Messages, Handled(m) PROVE Abstract!Settle(m)
  BY <1>4, <1>6 DEF Handled
<1>7. ASSUME NEW m \in Messages, HandlerFailed(m) PROVE Abstract!Break
  BY <1>5, <1>7 DEF HandlerFailed
<1>8. ASSUME NEW m \in Messages, Panicked(m) PROVE Abstract!Settle(m) \/ Abstract!Break
  <2>1. policy \in {"LogAndContinue", "FailWorker", "Propagate"}
    BY SubscriptionAssumption DEF Inv, Types
  <2>2. QED
    BY <1>4, <1>5, <1>8, <2>1 DEF Panicked
<1>9. ASSUME NEW m \in Messages, Admit(m) PROVE Abstract!Admit(m)
  <2>1. /\ pc = "incoming" /\ pc' = "signal" /\ accepting /\ accepting'
        /\ Cardinality(InFlight) < Concurrency
    BY <1>9 DEF Admit, Inv, Loc
  <2>2. msg'[m] = "running" /\ msg[m] = "queued" /\ \A q \in Messages : q # m => msg'[q] = msg[q]
    BY <1>9 DEF Admit, Inv, Types
  <2>3. InFlight' = InFlight \cup {m} /\ m \notin InFlight
    BY <2>2 DEF InFlight
  <2>4. \A s \in {"handled", "failed", "panicked", "cancelled"} : With(s)' = With(s)
    BY <2>2 DEF With
  <2>5. QED
    BY <2>1, <2>3, <2>4, SameCardinality DEF Abstract!Admit
<1>10. ASSUME EndOfStream \/ UnsubscribeFailed PROVE Abstract!Break
  <2>1. pc # "ended" /\ End("error", msg) /\ UNCHANGED accepting /\ msg \in [Messages -> Status]
    BY <1>10 DEF EndOfStream, UnsubscribeFailed, Inv, Types
  <2>2. /\ {} \in SUBSET InFlight
        /\ \A q \in Messages \ {} : msg[q] = msg[q]
        /\ \A q \in {} : msg[q] \in {"failed", "panicked"}
    OBVIOUS
  <2>3. QED
    BY <2>1, <2>2, BreakStep
<1>11. QED
  BY <1>1, <1>2, <1>3, <1>6, <1>7, <1>8, <1>9, <1>10 DEF Loop, Abstract!Next

\* Every behaviour of the subscription worker is one of the abstract worker.
THEOREM SubscriptionWorkerRefines == Spec => ImplementsBoundedWorker
<1>1. Inv /\ [Next]_vars => [Abstract!Next]_(Abstract!vars)
  <2>1. SUFFICES ASSUME Inv, [Next]_vars PROVE [Abstract!Next]_(Abstract!vars)
    OBVIOUS
  <2>2. ASSUME UNCHANGED vars PROVE UNCHANGED Abstract!vars
    BY <2>2, QuietStep DEF vars
  <2>3. QED
    BY <2>1, <2>2, EnvironmentAbstract, LoopAbstract DEF Next, Terminated
<1>2. QED
  BY <1>1, InitAbstract, Invariance, PTL DEF Spec, ImplementsBoundedWorker, Abstract!Spec
=============================================================================
