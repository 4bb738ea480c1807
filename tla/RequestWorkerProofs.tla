------------------------- MODULE RequestWorkerProofs -------------------------
(***************************************************************************)
(* Proofs about the request worker for any finite set of requests, any     *)
(* limit and any panic policy.  The safety properties of RequestWorker are *)
(* not inductive: they need to know where in its turn the loop is, so the  *)
(* invariant Inv below ties accepting, the signal, the history counter and *)
(* the fate of the requests to pc.                                         *)
(***************************************************************************)
EXTENDS RequestWorker, FiniteSetTheorems, TLAPS

Types ==
  /\ policy \in PanicPolicies
  /\ signal \in {"running", "requested", "closed"}
  /\ pc \in {"signal", "flight", "incoming", "stopping", "ended"}
  /\ accepting \in BOOLEAN
  /\ subscribed \in BOOLEAN
  /\ streamOpen \in BOOLEAN
  /\ req \in [Requests -> Status]
  /\ result \in {"none", "ok", "error", "panic", "aborted"}
  /\ gauge \in Int
  /\ overCap \in SUBSET Requests
  /\ late \in Nat

\* The requests that the gauge counts.
Counted == {r \in Requests : req[r] \in {"running", "ready", "panicked", "cancelled"}}

Loc ==
  /\ pc = "incoming" => accepting /\ Cardinality(InFlight) < Concurrency
  /\ pc = "stopping" => ~accepting
  /\ ~accepting => signal # "running"
  /\ pc = "ended" <=> result # "none"
  /\ pc = "ended" => ~subscribed /\ InFlight = {}

LateInv ==
  /\ late \in {0, 1}
  /\ signal = "running" => late = 0
  /\ late = 1 /\ accepting => pc \in {"signal", "ended"}

Fate ==
  /\ result = "ok" => signal # "running"
  /\ \A r \in Requests :
       /\ req[r] = "cancelled" => result \in {"error", "panic", "aborted"}
       /\ req[r] = "unpublished" => result = "error"
       /\ req[r] = "panicked" => policy = "LogAndContinue" \/ result \in {"error", "panic"}

Inv ==
  /\ Types
  /\ Loc
  /\ ConcurrencyBound
  /\ LateInv
  /\ Fate
  /\ gauge = Cardinality(Counted)
-----------------------------------------------------------------------------
(* Sets of requests and their sizes.                                       *)

\* Sets of requests are finite, in a state and in the next one.
LEMMA FiniteRequests ==
  /\ IsFiniteSet(InFlight) /\ Cardinality(InFlight) \in Nat
  /\ IsFiniteSet(InFlight') /\ Cardinality(InFlight') \in Nat
  /\ IsFiniteSet(Counted) /\ Cardinality(Counted) \in Nat
  /\ Cardinality(Counted) <= Cardinality(Requests)
  /\ IsFiniteSet(Counted') /\ Cardinality(Counted') \in Nat
  /\ \A s : IsFiniteSet(With(s)) /\ Cardinality(With(s)) \in Nat
<1>1. /\ InFlight \in SUBSET Requests /\ InFlight' \in SUBSET Requests
      /\ Counted \in SUBSET Requests /\ Counted' \in SUBSET Requests
      /\ \A s : With(s) \in SUBSET Requests
  BY DEF InFlight, Counted, With
<1>2. \A T \in SUBSET Requests :
         /\ IsFiniteSet(T) /\ Cardinality(T) \in Nat
         /\ Cardinality(T) <= Cardinality(Requests)
  BY FS_Subset, FS_CardinalityType, WorkerAssumption
<1>3. QED
  BY <1>1, <1>2

\* The size of a disjoint union.
LEMMA DisjointUnion ==
  ASSUME NEW S, NEW T, IsFiniteSet(S), IsFiniteSet(T), S \cap T = {}
  PROVE  /\ IsFiniteSet(S \cup T)
         /\ Cardinality(S \cup T) = Cardinality(S) + Cardinality(T)
<1>1. /\ IsFiniteSet(S \cup T)
      /\ Cardinality(S \cup T) = Cardinality(S) + Cardinality(T) - Cardinality(S \cap T)
  BY FS_Union
<1>2. Cardinality(S \cap T) = 0
  BY FS_EmptySet
<1>3. Cardinality(S) \in Nat /\ Cardinality(T) \in Nat
  BY FS_CardinalityType
<1>4. QED
  BY <1>1, <1>2, <1>3

\* A step that keeps the fate of the requests keeps the sets of requests.
LEMMA SameRequests ==
  ASSUME UNCHANGED req
  PROVE  InFlight' = InFlight /\ Counted' = Counted
BY DEF InFlight, Counted

\* Dropping what is in flight keeps what the gauge counts, and leaves nothing.
LEMMA DropAllRequests ==
  ASSUME NEW f \in [Requests -> Status], req' = DropAll(f)
  PROVE  /\ req' \in [Requests -> Status]
         /\ InFlight' = {}
         /\ Counted' = {r \in Requests : f[r] \in {"running", "ready", "panicked", "cancelled"}}
         /\ \A r \in Requests :
              /\ req'[r] = "cancelled" <=> f[r] \in {"running", "ready", "cancelled"}
              /\ req'[r] = "unpublished" <=> f[r] = "unpublished"
              /\ req'[r] = "panicked" <=> f[r] = "panicked"
BY DEF DropAll, InFlight, Counted, Status

\* The worker's end, however it comes about, establishes Loc and the bound.
LEMMA EndStep ==
  ASSUME NEW f \in [Requests -> Status], NEW how \in {"ok", "error", "panic", "aborted"},
         End(how, f), ~accepting' => signal' # "running"
  PROVE  /\ Loc'
         /\ ConcurrencyBound'
         /\ pc' = "ended" /\ result' = how /\ subscribed' = FALSE
         /\ req' \in [Requests -> Status]
<1>1. /\ pc' = "ended" /\ result' = how /\ subscribed' = FALSE
      /\ req' \in [Requests -> Status] /\ InFlight' = {}
  BY DropAllRequests DEF End
<1>2. Cardinality(InFlight') = 0
  BY <1>1, FS_EmptySet
<1>3. QED
  BY <1>1, <1>2, WorkerAssumption DEF Loc, ConcurrencyBound
-----------------------------------------------------------------------------
(* The invariant is inductive.                                             *)

LEMMA InitInv == Init => Inv
<1>1. SUFFICES ASSUME Init PROVE Inv
  OBVIOUS
<1>2. InFlight = {} /\ Counted = {}
  BY <1>1 DEF Init, InFlight, Counted
<1>3. Cardinality(InFlight) = 0 /\ Cardinality(Counted) = 0
  BY <1>2, FS_EmptySet
<1>4. QED
  BY <1>1, <1>2, <1>3, WorkerAssumption
  DEF Init, Inv, Types, Status, Loc, ConcurrencyBound, LateInv, Fate

LEMMA SendInv ==
  ASSUME Inv, NEW r \in Requests, Send(r)
  PROVE  Inv'
<1>1. InFlight' = InFlight /\ Counted' = Counted
  BY DEF Inv, Types, Send, InFlight, Counted
<1>2. req' \in [Requests -> Status] /\ \A q \in Requests : q # r => req'[q] = req[q]
  BY DEF Inv, Types, Send, Status
<1>3. req'[r] \in {"queued", "refused"}
  BY DEF Inv, Types, Send
<1>4. QED
  BY <1>1, <1>2, <1>3
  DEF Inv, Types, Loc, ConcurrencyBound, LateInv, Fate, Send, channel, metrics

LEMMA HandlerReadyInv ==
  ASSUME Inv, NEW r \in Requests, HandlerReady(r)
  PROVE  Inv'
<1>1. InFlight' = InFlight /\ Counted' = Counted
  BY DEF Inv, Types, HandlerReady, InFlight, Counted
<1>2. req' \in [Requests -> Status] /\ \A q \in Requests : q # r => req'[q] = req[q]
  BY DEF Inv, Types, HandlerReady, Status
<1>3. req'[r] = "ready"
  BY DEF Inv, Types, HandlerReady
<1>4. QED
  BY <1>1, <1>2, <1>3
  DEF Inv, Types, Loc, ConcurrencyBound, LateInv, Fate, HandlerReady, channel, metrics

LEMMA SignalInv == ASSUME Inv, Signal PROVE Inv'
<1>1. InFlight' = InFlight /\ Counted' = Counted
  BY SameRequests DEF Signal
<1>2. QED
  BY <1>1 DEF Inv, Types, Loc, ConcurrencyBound, LateInv, Fate, Signal, metrics

LEMMA StreamEndsInv == ASSUME Inv, StreamEnds PROVE Inv'
<1>1. InFlight' = InFlight /\ Counted' = Counted
  BY SameRequests DEF StreamEnds
<1>2. QED
  BY <1>1 DEF Inv, Types, Loc, ConcurrencyBound, LateInv, Fate, StreamEnds, metrics

LEMMA AbortInv == ASSUME Inv, Abort PROVE Inv'
<1>1. /\ End("aborted", req) /\ req \in [Requests -> Status]
      /\ UNCHANGED <<policy, signal, streamOpen, accepting, gauge, overCap, late>>
      /\ signal = "requested" /\ result = "none"
  BY DEF Abort, Inv, Types, Loc, channel, metrics
<1>2. /\ Loc' /\ ConcurrencyBound'
      /\ pc' = "ended" /\ result' = "aborted" /\ subscribed' = FALSE
      /\ req' \in [Requests -> Status]
  BY <1>1, EndStep DEF Inv, Loc
<1>3. Counted' = Counted
  BY <1>1, DropAllRequests DEF End, Counted
<1>4. Types' /\ LateInv' /\ gauge' = Cardinality(Counted)'
  BY <1>1, <1>2, <1>3 DEF Inv, Types, LateInv
<1>5. Fate'
  BY <1>1, <1>2, DropAllRequests DEF Inv, Fate, End
<1>6. QED
  BY <1>2, <1>4, <1>5 DEF Inv

LEMMA DrainedInv == ASSUME Inv, Drained PROVE Inv'
<1>1. /\ End("ok", req) /\ req \in [Requests -> Status]
      /\ UNCHANGED <<policy, signal, streamOpen, accepting, gauge, overCap, late>>
      /\ ~accepting /\ InFlight = {} /\ result = "none" /\ signal # "running"
  BY DEF Drained, Inv, Types, Loc, channel, metrics
<1>2. /\ Loc' /\ ConcurrencyBound'
      /\ pc' = "ended" /\ result' = "ok" /\ subscribed' = FALSE
      /\ req' \in [Requests -> Status]
  BY <1>1, EndStep
<1>3. Counted' = Counted
  BY <1>1, DropAllRequests DEF End, Counted
<1>4. Types' /\ LateInv' /\ gauge' = Cardinality(Counted)'
  BY <1>1, <1>2, <1>3 DEF Inv, Types, LateInv
<1>5. Fate'
  BY <1>1, <1>2, DropAllRequests DEF Inv, Fate, End, InFlight
<1>6. QED
  BY <1>2, <1>4, <1>5 DEF Inv

LEMMA PollSignalInv == ASSUME Inv, PollSignal PROVE Inv'
<1>1. InFlight' = InFlight /\ Counted' = Counted
  BY SameRequests DEF PollSignal
<1>2. Types' /\ ConcurrencyBound' /\ Fate' /\ gauge' = Cardinality(Counted)'
  BY <1>1 DEF Inv, Types, ConcurrencyBound, Fate, PollSignal, channel, metrics
<1>3. Loc'
  BY <1>1 DEF Inv, Types, Loc, PollSignal, channel
<1>4. LateInv'
  BY DEF Inv, Types, Loc, LateInv, PollSignal, channel, metrics
<1>5. QED
  BY <1>2, <1>3, <1>4 DEF Inv

LEMMA StopEndpointInv == ASSUME Inv, StopEndpoint PROVE Inv'
<1>1. InFlight' = InFlight /\ Counted' = Counted
  BY SameRequests DEF StopEndpoint
<1>2. QED
  BY <1>1
  DEF Inv, Types, Loc, ConcurrencyBound, LateInv, Fate, StopEndpoint, channel, metrics

LEMMA RepliedInv ==
  ASSUME Inv, NEW r \in Requests, Replied(r)
  PROVE  Inv'
<1>1. /\ InFlight' = InFlight \ {r} /\ r \in InFlight
      /\ Counted' = Counted \ {r} /\ r \in Counted
  BY DEF Inv, Types, Replied, InFlight, Counted
<1>2. /\ Cardinality(InFlight') = Cardinality(InFlight) - 1
      /\ Cardinality(Counted') = Cardinality(Counted) - 1
  BY <1>1, FiniteRequests, FS_RemoveElement
<1>3. req' \in [Requests -> Status] /\ \A q \in Requests : q # r => req'[q] = req[q]
  BY DEF Inv, Types, Replied, Status
<1>4. req'[r] = "replied"
  BY DEF Inv, Types, Replied
<1>5. /\ ConcurrencyBound'
      /\ gauge' = Cardinality(Counted)'
  BY <1>2, FiniteRequests, WorkerAssumption DEF Inv, Types, ConcurrencyBound, Replied
<1>6. Types' /\ Loc' /\ LateInv' /\ Fate'
  BY <1>3, <1>4 DEF Inv, Types, Loc, LateInv, Fate, Replied, channel
<1>7. QED
  BY <1>5, <1>6 DEF Inv

LEMMA ReplyFailedInv ==
  ASSUME Inv, NEW r \in Requests, ReplyFailed(r)
  PROVE  Inv'
<1> DEFINE f == [req EXCEPT ![r] = "unpublished"]
<1>1. /\ End("error", f) /\ f \in [Requests -> Status]
      /\ UNCHANGED <<policy, signal, streamOpen, accepting, overCap, late>>
      /\ gauge' = gauge - 1 /\ result = "none" /\ req[r] = "ready"
  BY DEF ReplyFailed, Inv, Types, Loc, channel, Status
<1>2. \A q \in Requests : f[q] = IF q = r THEN "unpublished" ELSE req[q]
  BY DEF Inv, Types
<1> HIDE DEF f
<1>3. /\ Loc' /\ ConcurrencyBound'
      /\ pc' = "ended" /\ result' = "error" /\ subscribed' = FALSE
      /\ req' \in [Requests -> Status]
  BY <1>1, EndStep DEF Inv, Loc
<1>4. Counted' = Counted \ {r} /\ r \in Counted
  BY <1>1, <1>2, DropAllRequests DEF End, Counted
<1>5. Cardinality(Counted') = Cardinality(Counted) - 1
  BY <1>4, FiniteRequests, FS_RemoveElement
<1>6. Types' /\ gauge' = Cardinality(Counted)'
  <2>1. gauge \in Int /\ gauge = Cardinality(Counted) /\ gauge' = gauge - 1
    BY <1>1 DEF Inv, Types
  <2>2. gauge' \in Int /\ gauge' = Cardinality(Counted)'
    BY <1>5, <2>1
  <2>3. QED
    BY <1>1, <1>3, <2>2 DEF Inv, Types
<1>7. LateInv'
  <2>1. late' = late /\ signal' = signal /\ pc' = "ended"
    BY <1>1, <1>3
  <2>2. QED
    BY <2>1 DEF Inv, LateInv
<1>8. Fate'
  BY <1>1, <1>2, <1>3, DropAllRequests DEF Inv, Fate, End
<1>9. QED
  BY <1>3, <1>6, <1>7, <1>8 DEF Inv

LEMMA PanickedInv ==
  ASSUME Inv, NEW r \in Requests, Panicked(r)
  PROVE  Inv'
<1> DEFINE f == [req EXCEPT ![r] = "panicked"]
<1>1. /\ f \in [Requests -> Status] /\ result = "none" /\ req[r] = "ready" /\ pc = "flight"
      /\ UNCHANGED <<policy, signal, streamOpen, accepting, gauge, overCap, late>>
  BY DEF Panicked, Inv, Types, Loc, channel, metrics, Status
<1>2. \A q \in Requests : f[q] = IF q = r THEN "panicked" ELSE req[q]
  BY DEF Inv, Types
<1>3. \/ /\ policy = "LogAndContinue" /\ pc' = "signal" /\ req' = f
         /\ UNCHANGED <<result, subscribed>>
      \/ \E how \in {"error", "panic"} : End(how, f)
  BY WorkerAssumption DEF Panicked, Inv, Types
<1> HIDE DEF f
<1>4. CASE /\ policy = "LogAndContinue" /\ pc' = "signal" /\ req' = f
           /\ UNCHANGED <<result, subscribed>>
  <2>1. InFlight' = InFlight \ {r} /\ r \in InFlight /\ Counted' = Counted
    BY <1>1, <1>2, <1>4 DEF InFlight, Counted
  <2>2. Cardinality(InFlight') = Cardinality(InFlight) - 1
    BY <2>1, FiniteRequests, FS_RemoveElement
  <2>3. ConcurrencyBound' /\ gauge' = Cardinality(Counted)'
    BY <1>1, <2>1, <2>2, FiniteRequests, WorkerAssumption DEF Inv, ConcurrencyBound
  <2>4. Types' /\ Loc' /\ LateInv' /\ Fate'
    BY <1>1, <1>2, <1>4 DEF Inv, Types, Loc, LateInv, Fate
  <2>5. QED
    BY <2>3, <2>4 DEF Inv
<1>5. CASE \E how \in {"error", "panic"} : End(how, f)
  <2>1. PICK how \in {"error", "panic"} : End(how, f)
    BY <1>5
  <2>2. /\ Loc' /\ ConcurrencyBound'
        /\ pc' = "ended" /\ result' = how /\ subscribed' = FALSE
        /\ req' \in [Requests -> Status]
    BY <1>1, <2>1, EndStep DEF Inv, Loc
  <2>3. Counted' = Counted
    BY <1>1, <1>2, <2>1, DropAllRequests DEF End, Counted
  <2>4. Types' /\ LateInv' /\ gauge' = Cardinality(Counted)'
    BY <1>1, <2>1, <2>2, <2>3 DEF Inv, Types, LateInv
  <2>5. Fate'
    BY <1>1, <1>2, <2>1, <2>2, DropAllRequests DEF Inv, Fate, End
  <2>6. QED
    BY <2>2, <2>4, <2>5 DEF Inv
<1>6. QED
  BY <1>3, <1>4, <1>5

LEMMA NoneReadyInv == ASSUME Inv, NoneReady PROVE Inv'
<1>1. InFlight' = InFlight /\ Counted' = Counted
  BY SameRequests DEF NoneReady
<1>2. QED
  BY <1>1
  DEF Inv, Types, Loc, ConcurrencyBound, LateInv, Fate, NoneReady, channel, metrics

LEMMA AdmitInv ==
  ASSUME Inv, NEW r \in Requests, Admit(r)
  PROVE  Inv'
<1>1. /\ InFlight' = InFlight \cup {r} /\ r \notin InFlight
      /\ Counted' = Counted \cup {r} /\ r \notin Counted
  BY DEF Inv, Types, Admit, InFlight, Counted
<1>2. /\ Cardinality(InFlight') = Cardinality(InFlight) + 1
      /\ Cardinality(Counted') = Cardinality(Counted) + 1
  BY <1>1, FiniteRequests, FS_AddElement
<1>3. req' \in [Requests -> Status] /\ \A q \in Requests : q # r => req'[q] = req[q]
  BY DEF Inv, Types, Admit, Status
<1>4. req'[r] = "running"
  BY DEF Inv, Types, Admit
<1>5. pc = "incoming" /\ accepting /\ Cardinality(InFlight) < Concurrency
  BY DEF Inv, Loc, Admit
<1>6. /\ ConcurrencyBound'
      /\ gauge' = Cardinality(Counted)'
  BY <1>2, <1>5, FiniteRequests, WorkerAssumption DEF Inv, Types, ConcurrencyBound, Admit
<1>7. Types' /\ Loc' /\ LateInv'
  BY <1>3, <1>5 DEF Inv, Types, Loc, LateInv, Admit, channel
<1>8. Fate'
  BY <1>3, <1>4 DEF Inv, Fate, Admit, channel
<1>9. QED
  BY <1>6, <1>7, <1>8 DEF Inv

LEMMA EndOfStreamInv == ASSUME Inv, EndOfStream PROVE Inv'
<1>1. /\ End("error", req) /\ req \in [Requests -> Status]
      /\ UNCHANGED <<policy, signal, streamOpen, accepting, gauge, overCap, late>>
      /\ result = "none"
  BY DEF EndOfStream, Inv, Types, Loc, channel, metrics
<1>2. /\ Loc' /\ ConcurrencyBound'
      /\ pc' = "ended" /\ result' = "error" /\ subscribed' = FALSE
      /\ req' \in [Requests -> Status]
  BY <1>1, EndStep DEF Inv, Loc
<1>3. Counted' = Counted
  BY <1>1, DropAllRequests DEF End, Counted
<1>4. Types' /\ LateInv' /\ gauge' = Cardinality(Counted)'
  BY <1>1, <1>2, <1>3 DEF Inv, Types, LateInv
<1>5. Fate'
  BY <1>1, <1>2, DropAllRequests DEF Inv, Fate, End
<1>6. QED
  BY <1>2, <1>4, <1>5 DEF Inv

LEMMA SleepInv == ASSUME Inv, Sleep PROVE Inv'
<1>1. InFlight' = InFlight /\ Counted' = Counted
  BY SameRequests DEF Sleep
<1>2. QED
  BY <1>1
  DEF Inv, Types, Loc, ConcurrencyBound, LateInv, Fate, Sleep, channel, metrics

LEMMA NextInv == Inv /\ [Next]_vars => Inv'
<1>1. SUFFICES ASSUME Inv, [Next]_vars PROVE Inv'
  OBVIOUS
<1>2. CASE UNCHANGED vars
  <2>1. InFlight' = InFlight /\ Counted' = Counted
    BY <1>2, SameRequests DEF vars
  <2>2. QED
    BY <1>1, <1>2, <2>1 DEF Inv, Types, Loc, ConcurrencyBound, LateInv, Fate, vars
<1>3. CASE Environment
  BY <1>1, <1>3, SendInv, HandlerReadyInv, SignalInv, StreamEndsInv, AbortInv DEF Environment
<1>4. CASE Loop
  BY <1>1, <1>4, DrainedInv, PollSignalInv, StopEndpointInv, RepliedInv, ReplyFailedInv,
     PanickedInv, AdmitInv, NoneReadyInv, EndOfStreamInv, SleepInv DEF Loop
<1>5. QED
  BY <1>1, <1>2, <1>3, <1>4 DEF Next, Terminated

\* Inv holds in every state of every behaviour of the worker.
THEOREM Invariance == Spec => []Inv
BY InitInv, NextInv, PTL DEF Spec
-----------------------------------------------------------------------------
(* What follows from the invariant.                                        *)

\* Types are respected, and the gauge stays between 0 and the requests there are.
THEOREM TypeCorrect == Spec => []TypeOK
<1>1. Inv => TypeOK
  BY FiniteRequests, FS_CardinalityType, WorkerAssumption DEF Inv, Types, TypeOK
<1>2. QED
  BY <1>1, Invariance, PTL

\* The number of handlers never exceeds the limit (lines 156-173).
THEOREM BoundedConcurrency == Spec => []ConcurrencyBound
<1>1. Inv => ConcurrencyBound
  BY DEF Inv
<1>2. QED
  BY <1>1, Invariance, PTL

\* At most one request is taken after the shutdown request (biased select).
THEOREM OneLateAdmission == Spec => []LateAdmission
<1>1. Inv => LateAdmission
  BY DEF Inv, LateInv, LateAdmission
<1>2. QED
  BY <1>1, Invariance, PTL

\* A worker that returns Ok leaves no request half way (lines 152-154).
THEOREM ExitIsClean == Spec => []CleanExit
<1>1. ASSUME Inv, result = "ok"
      PROVE  /\ signal # "running"
             /\ InFlight \cup With("cancelled") \cup With("unpublished") = {}
             /\ policy # "LogAndContinue" => With("panicked") = {}
  <2>1. pc = "ended" /\ InFlight = {} /\ signal # "running"
    BY <1>1 DEF Inv, Types, Loc, Fate
  <2>2. \A r \in Requests : req[r] \notin {"cancelled", "unpublished"}
    BY <1>1 DEF Inv, Fate
  <2>3. policy # "LogAndContinue" => \A r \in Requests : req[r] # "panicked"
    BY <1>1 DEF Inv, Fate
  <2>4. QED
    BY <2>1, <2>2, <2>3 DEF With
<1>2. Inv => CleanExit
  BY <1>1 DEF CleanExit
<1>3. QED
  BY <1>2, Invariance, PTL

\* The gauge counts the handlers in flight and all that panicked or were dropped.
THEOREM GaugeAccounts == Spec => []GaugeAccounting
<1>1. ASSUME Inv PROVE GaugeAccounting
  <2> DEFINE P == With("panicked")
             C == With("cancelled")
  <2>1. /\ IsFiniteSet(InFlight) /\ IsFiniteSet(P) /\ IsFiniteSet(C)
        /\ Cardinality(InFlight) \in Nat /\ Cardinality(P) \in Nat /\ Cardinality(C) \in Nat
    BY FiniteRequests
  <2>2. InFlight \cap P = {} /\ (InFlight \cup P) \cap C = {}
    BY DEF InFlight, With
  <2>3. Counted = (InFlight \cup P) \cup C
    BY DEF InFlight, With, Counted
  <2> HIDE DEF P, C
  <2>4. /\ IsFiniteSet(InFlight \cup P)
        /\ Cardinality(InFlight \cup P) = Cardinality(InFlight) + Cardinality(P)
    BY <2>1, <2>2, DisjointUnion
  <2>5. Cardinality((InFlight \cup P) \cup C)
          = Cardinality(InFlight) + Cardinality(P) + Cardinality(C)
    BY <2>1, <2>2, <2>4, DisjointUnion
  <2>6. gauge = Cardinality(InFlight) + Cardinality(P) + Cardinality(C)
    BY <1>1, <2>3, <2>5 DEF Inv
  <2>7. QED
    BY <2>6 DEF GaugeAccounting, P, C
<1>2. QED
  BY <1>1, Invariance, PTL
-----------------------------------------------------------------------------
(* The worker implements BoundedWorker.                                    *)

Phase == CASE pc # "ended" /\ accepting -> "serving"
           [] pc # "ended" /\ ~accepting -> "draining"
           [] pc = "ended" /\ result = "ok" -> "drained"
           [] OTHER -> "broken"
Settled == With("replied") \cup With("unpublished") \cup With("panicked")

\* The abstract module's instance of Cardinality is the one used here.
LEMMA SameCardinality == \A S : Abstract!Cardinality(S) = Cardinality(S)
BY Zenon DEF Abstract!Cardinality, Cardinality

LEMMA InitAbstract == Init => Abstract!Init
BY DEF Init, Abstract!Init, InFlight, With

\* A step that ends the worker other than Ok breaks the abstract worker.
LEMMA BreakStep ==
  ASSUME Inv, pc # "ended", NEW f \in [Requests -> Status], NEW S \in SUBSET InFlight,
         S = {} \/ \E r \in InFlight : S = {r},
         \A q \in Requests \ S : f[q] = req[q],
         \A q \in S : f[q] \in {"unpublished", "panicked"},
         NEW how \in {"error", "panic", "aborted"}, End(how, f), UNCHANGED accepting
  PROVE  Abstract!Break
<1>1. pc' = "ended" /\ result' = how /\ req' = DropAll(f)
  BY DEF End
<1>2. \A q \in Requests :
         req'[q] = CASE f[q] \in {"running", "ready"} -> "cancelled"
                     [] f[q] = "queued" -> "abandoned"
                     [] OTHER -> f[q]
  BY <1>1 DEF DropAll
<1>3. InFlight' = {}
  BY <1>1, DropAllRequests
<1>4. Settled' = Settled \cup S
  BY <1>2 DEF Settled, With, InFlight
<1>5. With("cancelled")' = With("cancelled") \cup (InFlight \ S)
  BY <1>2 DEF With, InFlight
<1>6. Abstract!Cardinality(S) <= 1
  <2>1. CASE S = {}
    BY <2>1, FS_EmptySet, SameCardinality
  <2>2. CASE \E r \in InFlight : S = {r}
    BY <2>2, FS_Singleton, SameCardinality
  <2>3. QED
    BY <2>1, <2>2
<1>7. /\ Phase \in {"serving", "draining"} /\ Phase' = "broken"
  BY <1>1 DEF Phase, Inv, Types
<1>8. QED
  BY <1>3, <1>4, <1>5, <1>6, <1>7 DEF Abstract!Break, Phase, Settled

\* A step that keeps phase and requests is a stutter of the abstract worker.
LEMMA StutterStep ==
  ASSUME InFlight' = InFlight, Phase' = Phase,
         \A s \in {"replied", "unpublished", "panicked", "cancelled"} : With(s)' = With(s)
  PROVE  UNCHANGED Abstract!vars
BY DEF Abstract!vars, Phase

\* Steps that leave the requests and the phase of the worker alone.
LEMMA QuietStep ==
  ASSUME UNCHANGED <<req, accepting, result>>, (pc = "ended") <=> (pc' = "ended")
  PROVE  UNCHANGED Abstract!vars
<1>1. InFlight' = InFlight /\ Phase' = Phase
  BY DEF InFlight, Phase
<1>2. \A s \in {"replied", "unpublished", "panicked", "cancelled"} : With(s)' = With(s)
  BY DEF With
<1>3. QED
  BY <1>1, <1>2, StutterStep

LEMMA EnvironmentAbstract ==
  ASSUME Inv, Environment
  PROVE  [Abstract!Next]_(Abstract!vars)
<1>1. ASSUME NEW r \in Requests, Send(r) \/ HandlerReady(r)
      PROVE  UNCHANGED Abstract!vars
  <2>1. /\ \A q \in Requests : q # r => req'[q] = req[q]
        /\ \/ req[r] = "idle" /\ req'[r] \in {"queued", "refused"}
           \/ req[r] = "running" /\ req'[r] = "ready"
        /\ UNCHANGED <<pc, accepting, result>>
    BY <1>1 DEF Send, HandlerReady, Inv, Types
  <2>2. InFlight' = InFlight /\ Phase' = Phase
    BY <2>1 DEF InFlight, Phase
  <2>3. \A s \in {"replied", "unpublished", "panicked", "cancelled"} : With(s)' = With(s)
    BY <2>1 DEF With
  <2>4. QED
    BY <2>2, <2>3, StutterStep
<1>2. ASSUME Signal \/ StreamEnds
      PROVE  UNCHANGED Abstract!vars
  BY <1>2, QuietStep DEF Signal, StreamEnds
<1>3. ASSUME Abort
      PROVE  Abstract!Break
  <2>1. pc # "ended" /\ End("aborted", req) /\ UNCHANGED accepting /\ req \in [Requests -> Status]
    BY <1>3 DEF Abort, Inv, Types
  <2>2. /\ {} \in SUBSET InFlight
        /\ \A q \in Requests \ {} : req[q] = req[q]
        /\ \A q \in {} : req[q] \in {"unpublished", "panicked"}
    OBVIOUS
  <2>3. QED
    BY <2>1, <2>2, BreakStep
<1>4. QED
  BY <1>1, <1>2, <1>3 DEF Environment, Abstract!Next

LEMMA LoopAbstract ==
  ASSUME Inv, Loop
  PROVE  [Abstract!Next]_(Abstract!vars)
<1>1. ASSUME Drained PROVE Abstract!FinishDrain
  <2>1. /\ End("ok", req) /\ InFlight = {} /\ pc = "signal" /\ ~accepting
        /\ UNCHANGED accepting /\ req \in [Requests -> Status]
    BY <1>1 DEF Drained, Inv, Types
  <2>2. /\ InFlight' = {} /\ pc' = "ended" /\ result' = "ok"
        /\ \A r \in Requests : req[r] # "queued" => req'[r] = req[r]
        /\ \A r \in Requests : req[r] = "queued" => req'[r] = "abandoned"
    BY <2>1, DropAllRequests DEF End, DropAll, InFlight
  <2>3. \A s \in {"replied", "unpublished", "panicked", "cancelled"} : With(s)' = With(s)
    BY <2>2 DEF With
  <2>4. QED
    BY <2>1, <2>2, <2>3 DEF Abstract!FinishDrain
<1>2. ASSUME PollSignal PROVE Abstract!BeginDrain \/ UNCHANGED Abstract!vars
  <2>1. CASE accepting /\ signal # "running"
    <3>1. accepting /\ ~accepting' /\ pc # "ended" /\ pc' # "ended" /\ req' = req
      BY <1>2, <2>1 DEF PollSignal
    <3>2. Phase = "serving" /\ Phase' = "draining"
      BY <3>1 DEF Phase
    <3>3. InFlight' = InFlight /\ \A s : With(s)' = With(s)
      BY <3>1 DEF InFlight, With
    <3>4. QED
      BY <3>2, <3>3 DEF Abstract!BeginDrain, Phase
  <2>2. CASE ~(accepting /\ signal # "running")
    <3>1. UNCHANGED <<req, accepting, result>> /\ pc # "ended" /\ pc' # "ended"
      BY <1>2, <2>2 DEF PollSignal
    <3>2. QED
      BY <3>1, QuietStep
  <2>3. QED
    BY <2>1, <2>2
<1>3. ASSUME StopEndpoint \/ NoneReady \/ Sleep PROVE UNCHANGED Abstract!vars
  <2>1. UNCHANGED <<req, accepting, result>> /\ pc # "ended" /\ pc' # "ended"
    BY <1>3 DEF StopEndpoint, NoneReady, Sleep
  <2>2. QED
    BY <2>1, QuietStep
<1>4. ASSUME NEW r \in Requests, NEW s \in {"replied", "panicked"},
             pc = "flight", pc' = "signal", req[r] = "ready", req' = [req EXCEPT ![r] = s],
             UNCHANGED <<accepting, result>>
      PROVE  Abstract!Settle(r)
  <2>1. req'[r] = s /\ \A q \in Requests : q # r => req'[q] = req[q]
    BY <1>4 DEF Inv, Types
  <2>2. InFlight' = InFlight \ {r} /\ r \in InFlight
    BY <1>4, <2>1 DEF InFlight
  <2>3. Settled' = Settled \cup {r} /\ With("cancelled")' = With("cancelled")
    BY <1>4, <2>1 DEF Settled, With
  <2>4. Phase \in {"serving", "draining"} /\ Phase' = Phase
    BY <1>4 DEF Phase, Inv, Types
  <2>5. QED
    BY <2>2, <2>3, <2>4 DEF Abstract!Settle, Phase, Settled
<1>5. ASSUME NEW r \in Requests, NEW s \in {"unpublished", "panicked"},
             NEW how \in {"error", "panic"}, pc = "flight", req[r] = "ready",
             End(how, [req EXCEPT ![r] = s]), UNCHANGED accepting
      PROVE  Abstract!Break
  <2> DEFINE f == [req EXCEPT ![r] = s]
  <2>1. /\ f \in [Requests -> Status]
        /\ \A q \in Requests \ {r} : f[q] = req[q]
        /\ f[r] = s
    BY DEF Inv, Types, Status
  <2>2. {r} \in SUBSET InFlight /\ r \in InFlight
    BY <1>5 DEF InFlight
  <2>3. End(how, f)
    BY <1>5
  <2> HIDE DEF f
  <2>4. QED
    BY <1>5, <2>1, <2>2, <2>3, BreakStep
<1>6. ASSUME NEW r \in Requests, Replied(r) PROVE Abstract!Settle(r)
  BY <1>4, <1>6 DEF Replied
<1>7. ASSUME NEW r \in Requests, ReplyFailed(r) PROVE Abstract!Break
  BY <1>5, <1>7 DEF ReplyFailed
<1>8. ASSUME NEW r \in Requests, Panicked(r) PROVE Abstract!Settle(r) \/ Abstract!Break
  <2>1. policy \in {"LogAndContinue", "FailWorker", "Propagate"}
    BY WorkerAssumption DEF Inv, Types
  <2>2. QED
    BY <1>4, <1>5, <1>8, <2>1 DEF Panicked
<1>9. ASSUME NEW r \in Requests, Admit(r) PROVE Abstract!Admit(r)
  <2>1. /\ pc = "incoming" /\ pc' = "signal" /\ accepting /\ accepting'
        /\ Cardinality(InFlight) < Concurrency
    BY <1>9 DEF Admit, Inv, Loc
  <2>2. req'[r] = "running" /\ req[r] = "queued" /\ \A q \in Requests : q # r => req'[q] = req[q]
    BY <1>9 DEF Admit, Inv, Types
  <2>3. InFlight' = InFlight \cup {r} /\ r \notin InFlight
    BY <2>2 DEF InFlight
  <2>4. \A s \in {"replied", "unpublished", "panicked", "cancelled"} : With(s)' = With(s)
    BY <2>2 DEF With
  <2>5. QED
    BY <2>1, <2>3, <2>4, SameCardinality DEF Abstract!Admit
<1>10. ASSUME EndOfStream PROVE Abstract!Break
  <2>1. pc # "ended" /\ End("error", req) /\ UNCHANGED accepting /\ req \in [Requests -> Status]
    BY <1>10 DEF EndOfStream, Inv, Types
  <2>2. /\ {} \in SUBSET InFlight
        /\ \A q \in Requests \ {} : req[q] = req[q]
        /\ \A q \in {} : req[q] \in {"unpublished", "panicked"}
    OBVIOUS
  <2>3. QED
    BY <2>1, <2>2, BreakStep
<1>11. QED
  BY <1>1, <1>2, <1>3, <1>6, <1>7, <1>8, <1>9, <1>10 DEF Loop, Abstract!Next

\* Every behaviour of the request worker is one of the abstract worker.
THEOREM RequestWorkerRefines == Spec => ImplementsBoundedWorker
<1>1. Inv /\ [Next]_vars => [Abstract!Next]_(Abstract!vars)
  <2>1. SUFFICES ASSUME Inv, [Next]_vars PROVE [Abstract!Next]_(Abstract!vars)
    OBVIOUS
  <2>2. ASSUME UNCHANGED vars PROVE UNCHANGED Abstract!vars
    BY <2>2, QuietStep DEF vars
  <2>3. QED
    BY <2>1, <2>2, EnvironmentAbstract, LoopAbstract DEF Next, Terminated
<1>2. QED
  BY <1>1, InitAbstract, Invariance, PTL DEF Spec, ImplementsBoundedWorker, Abstract!Spec
=============================================================================
