---------------------------- MODULE LocalTransport ----------------------------
(***************************************************************************)
(* An application under test: TestApp.start, the in-memory transport with  *)
(* its fault plan and event log (testing.rs, nats-micro-testing), and the  *)
(* calls of generated clients that go through it (client/v2.rs), sealed by *)
(* SealedMessage where the operation is encrypted.  Calls run on several   *)
(* tasks; they share the plan and the log, each under its own lock.  What  *)
(* a call does between two of those, or to a handler's next suspension, is *)
(* one step.                                                               *)
(***************************************************************************)
EXTENDS FiniteSets, SealedMessage

CONSTANTS Calls,         \* calls the test makes
          Applications,  \* the services, streams and key of a test, see MCLocalTransport
          Requests,      \* what a call may be: operation, subject, headers, recipient, ...
          RequestFaults, \* errors a test plans for a request
          PublishFaults, \* errors a test plans for a publication
          FaultSubjects, \* bound: subjects they are planned for
          MaxFaults,     \* bound: faults planned in a test
          None

Kinds == {"request", "publish"}
\* A subject of a contract has ">" as its last token only (validate.rs, validate_subject).
Patterns == {p \in Seq(STRING) : \A i \in DOMAIN p : p[i] = ">" => i = Len(p)}
Operations == [kind : Kinds, pattern : Patterns, sealPayload : BOOLEAN, sealReply : BOOLEAN,
               optional : BOOLEAN]

\* What is served: of a consumer only its stream and durable name matter here.
ASSUME ApplicationsAssumption ==
  /\ None \notin Operations
  /\ \A a \in Applications :
       /\ a.services \in Seq([operations : Seq(Operations), consumers : Seq(STRING \X STRING)])
       /\ a.streams \in SUBSET STRING

\* Header values are texts; the client refuses to seal a header by a reserved name
\* (v2.rs, encrypted_header).
Texts == {"text"} \X STRING
ASSUME RequestsAssumption ==
  \A q \in Requests :
    /\ q.defaults \in [Names -> Seq(Texts)]
    /\ q.headers \in [Names -> Seq(Texts)]
    /\ q.secrets \in Seq(Names \X Texts)
    /\ \A i \in DOMAIN q.secrets : ~Reserved(q.secrets[i][1])
    /\ q.op \in Operations /\ q.subject \in Seq(STRING) /\ q.altered \in BOOLEAN

VARIABLES
  app,      \* what the test serves; never changes
  harness,  \* "new", "started" or "refused"
  plan,     \* FaultPlan: the faults to come
  events,   \* EventLog, as a set: a call publishes once
  phase,    \* where a call is: "idle", "publishing", "handling" or "ended"
  asked,    \* what the call is for
  frame,    \* the request as it goes over the transport
  route,    \* the operation that got the request
  seen,     \* the request as the handler sees it
  answer,   \* what the handler returned (history)
  outcome,  \* what send() returned
  planned,  \* faults planned so far (history)
  hits,     \* which call each fault was for (history)
  dropped   \* faults cleared from the plan (history)

fate == <<planned, hits, dropped>>
vars == <<app, harness, plan, events, phase, asked, frame, route, seen, answer, outcome, fate>>

Outcome(kind, of) == [kind |-> kind, of |-> of]
Unseen == [headers |-> <<>>, body |-> None]

TypeOK ==
  /\ app \in Applications
  /\ harness \in {"new", "started", "refused"}
  /\ \A i \in DOMAIN plan : plan[i].operation \in Kinds /\ plan[i].id \in 1..planned
  /\ phase \in [Calls -> {"idle", "publishing", "handling", "ended"}]
  /\ \A c \in Calls : asked[c] \in Requests \cup {None}
  /\ planned \in 0..MaxFaults
  /\ hits \subseteq (1..planned) \X Calls
  /\ dropped \subseteq 1..planned

Init ==
  /\ app \in Applications
  /\ harness = "new"
  /\ plan = <<>>
  /\ events = {}
  /\ phase = [c \in Calls |-> "idle"]
  /\ asked = [c \in Calls |-> None]
  /\ frame = [c \in Calls |-> None]
  /\ route = [c \in Calls |-> None]
  /\ seen = [c \in Calls |-> Unseen]
  /\ answer = [c \in Calls |-> "none yet"]
  /\ outcome = [c \in Calls |-> Outcome("pending", None)]
  /\ planned = 0
  /\ hits = {}
  /\ dropped = {}
-----------------------------------------------------------------------------
(* Startup: the services are validated one by one, the head first, and     *)
(* then their consumers registered with the simulator in the same order.   *)

\* No entry of the rows, taken in row after row, is there already.
AllFresh(rows) ==
  LET fresh(taken, entries) ==
        /\ \A i \in DOMAIN entries : entries[i] \notin taken
        /\ \A i, j \in DOMAIN entries : i < j => entries[i] # entries[j]
      after[i \in 0..Len(rows)] ==
        IF i = 0 THEN [ok |-> TRUE, taken |-> {}]
        ELSE [ok |-> after[i - 1].ok /\ fresh(after[i - 1].taken, rows[i]),
              taken |-> after[i - 1].taken \cup Range(rows[i])]
  IN  after[Len(rows)].ok

SubjectRows(services) ==
  [i \in 1..Len(services) |->
     [j \in DOMAIN services[i].operations |-> services[i].operations[j].pattern]]
ConsumerRows(services) == [i \in 1..Len(services) |-> services[i].consumers]
DurableRows(services) ==
  [i \in 1..Len(services) |-> [j \in DOMAIN services[i].consumers |-> services[i].consumers[j][2]]]

\* ServiceSetValidator: a durable name may occur again in another stream,
Validated(services) == AllFresh(SubjectRows(services)) /\ AllFresh(ConsumerRows(services))

\* for the simulator it may not, and the stream has to be declared.
Registered(services, streams) ==
  /\ \A i \in DOMAIN services : \A j \in DOMAIN services[i].consumers :
       services[i].consumers[j][1] \in streams
  /\ AllFresh(DurableRows(services))

IsSealed(op) == op.sealPayload \/ op.sealReply

Start ==
  /\ harness = "new"
  /\ LET needsKey == \E i \in DOMAIN app.services :
                       \E j \in DOMAIN app.services[i].operations : IsSealed(app.services[i].operations[j])
         starts == /\ Validated(app.services)
                   /\ needsKey => app.key # None
                   /\ Registered(app.services, app.streams)
     IN  harness' = IF starts THEN "started" ELSE "refused"
  /\ UNCHANGED <<app, plan, events, phase, asked, frame, route, seen, answer, outcome, fate>>
-----------------------------------------------------------------------------
(* The plan and the log in the test's hands.                               *)

PlanFault(kind, subject, error) ==
  /\ planned < MaxFaults
  /\ planned' = planned + 1
  /\ plan' = Append(plan, [operation |-> kind, subject |-> subject, error |-> error, id |-> planned + 1])
  /\ UNCHANGED <<app, harness, events, phase, asked, frame, route, seen, answer, outcome, hits, dropped>>

ClearFaults ==
  /\ plan' = <<>>
  /\ dropped' = dropped \cup {plan[i].id : i \in DOMAIN plan}
  /\ UNCHANGED <<app, harness, events, phase, asked, frame, route, seen, answer, outcome, planned, hits>>

\* EventSelection::clear.
ClearEvents(subject) ==
  /\ events' = {e \in events : e.subject # subject}
  /\ UNCHANGED <<app, harness, plan, phase, asked, frame, route, seen, answer, outcome, fate>>
-----------------------------------------------------------------------------
(* Routes.                                                                 *)

\* Where the loop of subject_matches returns: at the first token at which it does not go on.
Stop(pattern, subject) ==
  LET goesOn(i) == /\ i \in DOMAIN pattern /\ i \in DOMAIN subject
                   /\ pattern[i] # ">" /\ pattern[i] \in {"*", subject[i]}
  IN  CHOOSE i \in 1..(Len(subject) + 1) : ~goesOn(i) /\ \A j \in 1..(i - 1) : goesOn(j)

\* Deviation: a pattern matches what only begins like it.
MatchesPrefix(pattern, subject) ==
  LET i == Stop(pattern, subject)
  IN  IF i \in DOMAIN pattern /\ i \in DOMAIN subject THEN pattern[i] = ">" /\ i = Len(pattern)
      ELSE i > Len(pattern)

\* subject_matches, and what it returns there.
Matches(pattern, subject) ==
  LET i == Stop(pattern, subject)
  IN  IF i \in DOMAIN pattern /\ i \in DOMAIN subject THEN pattern[i] = ">" /\ i = Len(pattern)
      ELSE i > Len(pattern) /\ i > Len(subject)

Takes(op, subject) == op.kind = "request" /\ Matches(op.pattern, subject)

\* dispatch_local tries a service's requests in order; None if none takes the subject.
DispatchLocal(service, subject) ==
  LET i == SelectInSeq(service.operations, LAMBDA op : Takes(op, subject))
  IN  IF i = 0 THEN None ELSE service.operations[i]

\* dispatch asks the head, then the tail.
RouteOf(services, subject) ==
  LET i == SelectInSeq(services, LAMBDA service : DispatchLocal(service, subject) # None)
  IN  IF i = 0 THEN None ELSE DispatchLocal(services[i], subject)
-----------------------------------------------------------------------------
(* A call, up to the transport.                                            *)

\* send() fails before it reaches the transport.
Unsendable(q) == (IsSealed(q.op) /\ q.recipient = None) \/ q.badPayload

Input(c) == <<"input", c>>

\* The frame send() passes on; a test that uses the transport itself may alter it.
FrameOf(c, q) ==
  LET plain == MergeHeaders(q.defaults, q.headers)
      built == IF IsSealed(q.op)
                 THEN BuildForSubject(c, q.recipient, q.subject, plain, q.secrets, Input(c), q.op.sealPayload)
                 ELSE [subject |-> q.subject, headers |-> plain, body |-> Input(c)]
  IN  IF q.altered THEN [built EXCEPT !.body = Text("altered")] ELSE built

Due(q) == {i \in DOMAIN plan : plan[i].operation = q.op.kind /\ plan[i].subject = q.subject}

Ended(c, result) ==
  /\ phase' = [phase EXCEPT ![c] = "ended"]
  /\ outcome' = [outcome EXCEPT ![c] = result]

Sends(c, q) ==
  /\ harness = "started"
  /\ phase[c] = "idle"
  /\ asked' = [asked EXCEPT ![c] = q]
  /\ UNCHANGED <<app, harness>>

SendUnsendable(c, q) ==
  /\ Sends(c, q)
  /\ Unsendable(q)
  /\ Ended(c, Outcome("serialize", None))
  /\ UNCHANGED <<plan, events, frame, route, seen, answer, fate>>

\* Deviation: the plan is a stack.
SendFaultedLast(c, q) ==
  /\ Sends(c, q)
  /\ ~Unsendable(q)
  /\ Due(q) # {}
  /\ LET i == CHOOSE i \in Due(q) : \A j \in Due(q) : i >= j
     IN  /\ plan' = RemoveAt(plan, i)
         /\ hits' = hits \cup {<<plan[i].id, c>>}
         /\ Ended(c, Outcome("transport", plan[i].error))
  /\ UNCHANGED <<events, frame, route, seen, answer, planned, dropped>>

\* before_request and before_publish take the first fault that fits.
SendFaulted(c, q) ==
  /\ Sends(c, q)
  /\ ~Unsendable(q)
  /\ Due(q) # {}
  /\ LET i == CHOOSE i \in Due(q) : \A j \in Due(q) : i <= j
     IN  /\ plan' = RemoveAt(plan, i)
         /\ hits' = hits \cup {<<plan[i].id, c>>}
         /\ Ended(c, Outcome("transport", plan[i].error))
  /\ UNCHANGED <<events, frame, route, seen, answer, planned, dropped>>

\* No fault is due: a publication goes on to the log,
SendPublish(c, q) ==
  /\ Sends(c, q)
  /\ ~Unsendable(q) /\ Due(q) = {}
  /\ q.op.kind = "publish"
  /\ phase' = [phase EXCEPT ![c] = "publishing"]
  /\ frame' = [frame EXCEPT ![c] = FrameOf(c, q)]
  /\ UNCHANGED <<plan, events, route, seen, answer, outcome, fate>>

\* a request to the operation that takes it:
Dispatched(c, q) ==
  /\ Sends(c, q)
  /\ ~Unsendable(q) /\ Due(q) = {}
  /\ q.op.kind = "request"
  /\ frame' = [frame EXCEPT ![c] = FrameOf(c, q)]
  /\ route' = [route EXCEPT ![c] = RouteOf(app.services, q.subject)]
  /\ UNCHANGED <<plan, events, answer, fate>>

SendUnmatched(c, q) ==
  /\ Dispatched(c, q)
  /\ route'[c] = None
  /\ Ended(c, Outcome("transport", "NoResponders"))
  /\ UNCHANGED seen

\* an encrypted one prepares it, and a refusal is answered in the clear;
SendRefused(c, q) ==
  /\ Dispatched(c, q)
  /\ route'[c] # None /\ IsSealed(route'[c])
  /\ LET refusal == Refusal(app.key, frame'[c], route'[c].sealPayload)
     IN  refusal # "none" /\ Ended(c, Outcome("refused", refusal))
  /\ UNCHANGED seen

\* otherwise the handler runs, up to where it first waits.
SendHandled(c, q) ==
  /\ Dispatched(c, q)
  /\ route'[c] # None
  /\ LET msg == frame'[c]
         op == route'[c]
         map == IF IsSealed(op) THEN Sealed(msg) ELSE <<>>
     IN  /\ IsSealed(op) => Refusal(app.key, msg, op.sealPayload) = "none"
         /\ \E kept \in Overlays(map) :
              seen' = [seen EXCEPT ![c] = [headers |-> View(msg.headers, map, kept),
                                           body |-> Plaintext(msg, op.sealPayload)]]
  /\ phase' = [phase EXCEPT ![c] = "handling"]
  /\ UNCHANGED outcome

Send(c, q) == \/ SendUnsendable(c, q) \/ SendFaulted(c, q) \/ SendPublish(c, q)
              \/ SendUnmatched(c, q) \/ SendRefused(c, q) \/ SendHandled(c, q)

Record(c) ==
  /\ phase[c] = "publishing"
  /\ events' = events \cup {[subject |-> asked[c].subject, by |-> c, sent |-> frame[c]]}
  /\ Ended(c, Outcome("published", None))
  /\ UNCHANGED <<app, harness, plan, asked, frame, route, seen, answer, fate>>
-----------------------------------------------------------------------------
(* The answer and what the client makes of it.                             *)

\* What a handler returns: a value, an empty one, no value (optional operations), an
\* error, or an error whose payload was replaced by something that is not an error reply.
Answers(op) == {"value", "empty", "error", "odd error"} \cup (IF op.optional THEN {"absent"} ELSE {})

Result(c, r) == IF r = "value" THEN <<"result", c>> ELSE Text("")

\* An error travels in the clear, headed as one; a value is sealed where the operation says so.
ResponseTo(c, r) ==
  LET payload == Result(c, r)
  IN  [failed |-> r \in {"error", "odd error"},
       errorJson |-> r = "error",
       present0 |-> r = "absent",
       body |-> IF route[c].sealReply /\ r \notin {"error", "odd error"}
                  THEN SealReply(app.key, Found(frame[c].headers, EphKey)[2], payload) ELSE payload]

\* Deviation: every response of an operation that seals its responses is decrypted.
DecodedSealed(c, q, response) ==
  IF q.op.sealReply /\ ~OpensReply(q.recipient, c, response.body) THEN Outcome("decrypt", None)
  ELSE IF response.failed
    THEN IF response.errorJson THEN Outcome("service", c) ELSE Outcome("invalid", None)
  ELSE IF q.op.optional /\ response.present0 THEN Outcome("absent", None)
  ELSE Outcome("value", IF q.op.sealReply THEN response.body[3] ELSE response.body)

\* send() after the transport returned: decryption unless an error is reported, then the
\* decoder, which looks for an error first and then for an absent value.
Decoded(c, q, response) ==
  IF response.failed
    THEN IF response.errorJson THEN Outcome("service", c) ELSE Outcome("invalid", None)
  ELSE IF q.op.sealReply /\ ~OpensReply(q.recipient, c, response.body) THEN Outcome("decrypt", None)
  ELSE IF q.op.optional /\ response.present0 THEN Outcome("absent", None)
  ELSE Outcome("value", IF q.op.sealReply THEN response.body[3] ELSE response.body)

Answer(c, r) ==
  /\ phase[c] = "handling"
  /\ r \in Answers(route[c])
  /\ answer' = [answer EXCEPT ![c] = r]
  /\ Ended(c, Decoded(c, asked[c], ResponseTo(c, r)))
  /\ UNCHANGED <<app, harness, plan, events, asked, frame, route, seen, fate>>

\* The call's own timeout drops the handler.
TimeOut(c) ==
  /\ phase[c] = "handling"
  /\ asked[c].timed
  /\ Ended(c, Outcome("transport", "Timeout"))
  /\ UNCHANGED <<app, harness, plan, events, asked, frame, route, seen, answer, fate>>

\* The handler panics, or the test drops the call.
Gone(c) ==
  /\ phase[c] = "handling"
  /\ Ended(c, Outcome("gone", None))
  /\ UNCHANGED <<app, harness, plan, events, asked, frame, route, seen, answer, fate>>

Next ==
  \/ Start
  \/ \E subject \in FaultSubjects : \/ \E error \in RequestFaults : PlanFault("request", subject, error)
                                   \/ \E error \in PublishFaults : PlanFault("publish", subject, error)
                                   \/ ClearEvents(subject)
  \/ ClearFaults
  \/ \E c \in Calls : \/ \E q \in Requests : Send(c, q)
                      \/ \E r \in {"value", "empty", "error", "odd error", "absent"} : Answer(c, r)
                      \/ Record(c) \/ TimeOut(c) \/ Gone(c)

Spec == Init /\ [][Next]_vars
-----------------------------------------------------------------------------
(* Properties.                                                             *)

\* What a pattern means, without a loop.
Means(pattern, subject) ==
  \/ /\ Len(pattern) = Len(subject)
     /\ \A i \in DOMAIN pattern : pattern[i] \in {"*", subject[i]}
  \/ /\ pattern # <<>> /\ Last(pattern) = ">"
     /\ Len(subject) >= Len(pattern)
     /\ \A i \in 1..(Len(pattern) - 1) : pattern[i] \in {"*", subject[i]}

\* The application starts exactly if no two operations share a subject, no two
\* consumers a durable name, be it in two streams, every consumer's stream is declared
\* to the simulator, and there is a key for what is encrypted; and a request goes to
\* the first operation whose pattern means its subject.
RoutesExact ==
  LET ops == UNION {{i} \X DOMAIN app.services[i].operations : i \in DOMAIN app.services}
      op(p) == app.services[p[1]].operations[p[2]]
      durables == UNION {{i} \X DOMAIN app.services[i].consumers : i \in DOMAIN app.services}
      durable(p) == app.services[p[1]].consumers[p[2]]
      unique == /\ \A p, r \in ops : p # r => op(p).pattern # op(r).pattern
                /\ \A p, r \in durables : p # r => durable(p)[2] # durable(r)[2]
      declared == \A p \in durables : durable(p)[1] \in app.streams
      keyed == app.key = None => \A p \in ops : ~IsSealed(op(p))
      takes(p, c) == op(p).kind = "request" /\ Means(op(p).pattern, asked[c].subject)
      before(p, r) == p[1] < r[1] \/ (p[1] = r[1] /\ p[2] < r[2])
  IN  /\ harness = "started" => unique /\ declared /\ keyed
      /\ harness = "refused" => ~(unique /\ declared /\ keyed)
      /\ \A c \in Calls :
           /\ route[c] # None =>
                \E p \in ops : /\ route[c] = op(p) /\ takes(p, c)
                              /\ \A r \in ops : before(r, p) => ~takes(r, c)
           /\ outcome[c] = Outcome("transport", "NoResponders") =>
                (\E h \in hits : h[2] = c) \/ \A p \in ops : ~takes(p, c)

\* Every fault that was planned is still to come, was cleared, or has failed exactly
\* one call, with its own error, before the call had any effect; the faults of an
\* operation and subject strike in the order of the plan; and no call fails like a
\* faulted one for no reason.
FaultsExact ==
  LET waiting == {f.id : f \in Range(plan)}
      struck == {h[1] : h \in hits}
  IN  /\ 1..planned = waiting \cup struck \cup dropped
      /\ Cardinality(waiting) + Cardinality(struck) + Cardinality(dropped) = planned
      /\ Cardinality(hits) = Cardinality(struck)
      /\ \A h \in hits :
           /\ phase[h[2]] = "ended" /\ outcome[h[2]].kind = "transport"
           /\ outcome[h[2]].of \in (IF asked[h[2]].op.kind = "request" THEN RequestFaults ELSE PublishFaults)
           /\ route[h[2]] = None /\ answer[h[2]] = "none yet"
           /\ \A e \in events : e.by # h[2]
           /\ \A f \in Range(plan) : f.operation = asked[h[2]].op.kind /\ f.subject = asked[h[2]].subject
                                     => f.id > h[1]
      /\ \A c \in Calls : outcome[c].kind = "transport" /\ (\A h \in hits : h[2] # c) =>
                           \/ outcome[c].of = "Timeout" /\ asked[c].timed /\ seen[c] # Unseen
                           \/ outcome[c].of = "NoResponders" /\ asked[c].op.kind = "request"

\* The values a caller may mean by what it gave for a name.
Given(q, n) ==
  LET same == {i \in DOMAIN q.secrets : Fold[q.secrets[i][1]] = Fold[n]}
      last == {i \in same : \A j \in same : j > i => q.secrets[j][1] # q.secrets[i][1]}
  IN  IF IsSealed(q.op) /\ same # {} THEN {q.secrets[i][2] : i \in last}
      ELSE IF q.headers[n] # <<>> THEN Range(q.headers[n])
      ELSE IF q.defaults[n] # <<>> THEN Range(q.defaults[n]) ELSE {Text("")}

\* Whatever a header says in the end, the caller gave it: the last sealed value of the
\* name in some spelling, or else one of the call's values, or else of the client's
\* defaults; and the handler reads the body the caller sent.
HandlerSeesTheCall ==
  \A c \in Calls : seen[c] # Unseen /\ route[c] = asked[c].op =>
    /\ \A n \in Names : ~Reserved(n) => seen[c].headers[n] \in Given(asked[c], n)
    /\ seen[c].body = (IF asked[c].altered THEN Text("altered") ELSE Input(c))
    /\ IsSealed(asked[c].op) => ~asked[c].altered

\* The reasons to refuse a call.
Excuse(q) ==
  LET plain == MergeHeaders(q.defaults, q.headers)
      id == Found([plain EXCEPT ![RequestId] = IF @ = <<>> THEN @ ELSE <<Last(@)>>], RequestId)
  IN  \/ q.recipient # app.key
      \/ q.altered
      \/ plain[EphKey] # <<>>
      \/ plain[EncHeaders] # <<>> /\ q.secrets = <<>>
      \/ id \notin ValidIds \cup {Text("")}

\* An encrypted call is refused for these reasons only, and always for these: it was
\* sealed for another service, altered after it was signed, carries a plain header by
\* the name of one the builder sets or signs otherwise, or a request id that is not
\* well formed.
RefusedOnlyForCause ==
  \A c \in Calls : route[c] # None /\ route[c] = asked[c].op /\ IsSealed(route[c]) =>
    (outcome[c].kind = "refused" <=> Excuse(asked[c])) /\ (seen[c] = Unseen <=> Excuse(asked[c]))

\* The caller gets what its own handler returned, and nothing else: a value stays that
\* value, an absent one is told from an empty one, an error is an error even where
\* responses are encrypted; and there is no such outcome without an answer.
OutcomeIsTheHandlers ==
  \A c \in Calls :
    /\ answer[c] # "none yet" /\ route[c] = asked[c].op =>
         outcome[c] = CASE answer[c] \in {"value", "empty"} -> Outcome("value", Result(c, answer[c]))
                        [] answer[c] = "absent" -> Outcome("absent", None)
                        [] answer[c] = "error" -> Outcome("service", c)
                        [] answer[c] = "odd error" -> Outcome("invalid", None)
    /\ outcome[c].kind \in {"value", "absent", "service", "invalid", "decrypt"} => answer[c] # "none yet"

\* src/nats-micro/src/request.rs:236-246 has an invalid request id treated like a
\* missing one, for which an id is generated.
InvalidIdIsReplaced ==
  \A c \in Calls : outcome[c].kind = "refused" =>
    LET q == asked[c]
    IN  \/ q.recipient # app.key \/ q.altered
        \/ \E n \in Names : Reserved(n) /\ MergeHeaders(q.defaults, q.headers)[n] # <<>>
=============================================================================
