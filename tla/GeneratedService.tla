---------------------------- MODULE GeneratedService ----------------------------
(***************************************************************************)
(* One service from its impl block to one call: what #[service] generates   *)
(* for the client and for the server (service/client.rs, dispatch.rs,       *)
(* consumer.rs) meet over a message, and an error goes back through what    *)
(* #[service_error] generates.  The server binds one argument a step.       *)
(*                                                                         *)
(* A body is << >>, a value and how it was written, or bytes nobody can     *)
(* read.  Every type has a value "zero" that protobuf, raw bytes and text   *)
(* write as no bytes at all, and another, "some".                           *)
(***************************************************************************)
EXTENDS ServiceMacro

CONSTANTS Sources,       \* the impl blocks
          Tokens,        \* what callers put in the place of a parameter, dots and all: tuples of tokens
          Numbers,       \* tokens that a number parses from
          Values,        \* what a handler puts in the fields of its errors
          WireKinds, Unserialisable

Errors == INSTANCE ServiceError

\* What syn makes of an impl block and of the enum of its errors.
Maybe(set) == set \cup {None}
Types == Seq(STRING) \ {<< >>}
Templates == Seq([is : {"literal", "param", "malformed"}, text : STRING])
Arguments == [name : STRING, type : Types, header : Maybe(STRING)]
Fields == [type : STRING, source : BOOLEAN, from : BOOLEAN, backtrace : BOOLEAN, skip : BOOLEAN]
Variants ==
  [name : STRING, shape : {"unit", "named", "unnamed"}, fields : Seq(Fields), code : Maybe(Nat), kind : Maybe(STRING),
   internal : {"no", "yes", "expose"}, transparent : BOOLEAN, skipAll : BOOLEAN, message : {"none", "text", "code"}]
ErrorEnums == [external : BOOLEAN, variants : Seq(Variants)]
Policies == {"none", "optional", "required"}
Methods ==
  [name : STRING, kind : {"request", "publish", "subscribe", "consumer"}, async : BOOLEAN,
   subject : Maybe(Templates), filter : Maybe(Templates), args : Seq(Arguments), ok : Types, error : Maybe(ErrorEnums),
   response : Maybe(Types), auth : Maybe(Policies), queue : Maybe(STRING), concurrency : Maybe(Nat),
   stream : Maybe(STRING), durable : Maybe(STRING), ackWait : Maybe(Nat), backoff : Seq(Nat)]
Services ==
  [name : STRING, prefix : Seq(STRING), version : Seq(STRING), state : Types, methods : Seq(Methods),
   defaults : [concurrency : Nat, queue : Maybe(STRING), auth : Policies,
               codec : {"json", "protobuf", "raw", "utf8", "empty"}]]

\* rustc lets no two arguments of a method share a name; a unit variant has no fields; and
\* whatever is put into a subject is at least one token, an empty one maybe.  (The literals are
\* named because no prover takes a literal for a member of STRING.)
ASSUME ServicesAssumption ==
  /\ None \notin Nat \cup STRING \cup Seq(STRING) \cup {"zero", "some", "unit"}
  /\ "" \in Malformed
  /\ Tokens \subseteq Seq(STRING) \ {<< >>}
  /\ Sources \subseteq Services
  /\ \A s \in Sources : \A i \in DOMAIN s.methods :
       LET m == s.methods[i]
       IN /\ \A a, b \in DOMAIN m.args : m.args[a].name = m.args[b].name => a = b
          /\ m.error # None => \A v \in Range(m.error.variants) : v.shape = "unit" => v.fields = << >>

VARIABLES
  source,  \* the impl block; never changes
  stage,   \* "source", "refused", "ready", "sent", "binding", "running", "answered" or "done"
  call,    \* the operation the client calls, its parameters and payload; a None operation for another sender
  frame,   \* the message
  served,  \* the operation that got it
  bound,   \* its arguments so far
  outcome, \* what its handler returned
  reply,
  result   \* what the client makes of it

vars == <<source, stage, call, frame, served, bound, outcome, reply, result>>

Init ==
  /\ source \in Sources
  /\ stage = "source"
  /\ call = None /\ frame = None /\ served = None
  /\ outcome = None /\ reply = None /\ result = None
  /\ bound = << >>
-----------------------------------------------------------------------------
(* Compiling it.                                                           *)

\* rustc: the generated decoding of a payload has the argument's type.
PayloadCompiles(kind) ==
  kind.is = "payload" /\ kind.wrapper = "Direct" =>
    CASE kind.codec = "utf8" -> kind.decoded = <<"&", "str">>
      [] kind.codec = "raw" -> kind.decoded \in {<<"Bytes">>, <<"String">>, <<"Vec", "u8">>, <<"&", "[]", "u8">>}
      [] kind.codec = "empty" -> kind.decoded = <<"()">>
      [] OTHER -> TRUE

\* rustc: the decoder has the client's response type.
ResponseCompiles(m) ==
  LET response == Response(m)
  IN m.kind = "request" =>
       CASE response.codec = "empty" -> ~response.optional /\ response.wire = <<"()">>
         [] response.codec = "raw" /\ response.wrapper = "Direct" ->
              response.wire \in {<<"Bytes">>, <<"String">>, <<"Vec", "u8">>}
         [] response.codec = "utf8" -> response.wire \in {<<"str">>, <<"String">>}
         [] OTHER -> TRUE

Compiles ==
  \A i \in DOMAIN source.methods :
    LET m == source.methods[i]
    IN /\ \A a \in DOMAIN m.args : PayloadCompiles(Kinds(source, m)[a])
       /\ ResponseCompiles(m)
       /\ m.error # None => Errors!Expands(m.error)

Expand ==
  /\ stage = "source"
  /\ stage' = IF Accepts(source) /\ Compiles THEN "ready" ELSE "refused"
  /\ UNCHANGED <<source, call, frame, served, bound, outcome, reply, result>>
-----------------------------------------------------------------------------
(* The client.                                                             *)

Body(codec, value) ==
  IF codec = "empty" \/ (value = "zero" /\ codec \in {"protobuf", "raw", "utf8"}) THEN << >>
  ELSE <<IF codec = "utf8" THEN "raw" ELSE codec, value>>

Positions(m, is) == {i \in DOMAIN m.args : Kinds(source, m)[i].is = is}

\* None of an optional payload, and an operation without one, send no bytes.
PayloadBody(m, value) ==
  IF Positions(m, "payload") = {} \/ value = None THEN << >>
  ELSE Body(Kinds(source, m)[CHOOSE i \in Positions(m, "payload") : TRUE].codec, value)

PayloadValues(m) ==
  UNION {(IF Kinds(source, m)[i].codec = "empty" THEN {"unit"} ELSE {"zero", "some"})
           \cup (IF Kinds(source, m)[i].optional THEN {None} ELSE {}) : i \in Positions(m, "payload")}
    \cup (IF Positions(m, "payload") = {} THEN {None} ELSE {})

\* Only what a parameter's type displays as: a number's tokens, or any.
Parameters(m) ==
  {p \in [Positions(m, "subject") -> Tokens] :
     \A i \in DOMAIN p : m.args[i].type = <<"f64">> => Range(p[i]) \subseteq Numbers}

\* A value's own dots become dots of the subject.
SubjectExpression(m, parameters) ==
  LET template == Template(source, m)
      Arg(i) == CHOOSE a \in DOMAIN m.args : m.args[a].name = template[i].text
  IN FlattenSeq([i \in DOMAIN template |->
       IF template[i].is = "param" THEN parameters[Arg(i)] ELSE <<template[i].text>>])

Senders == [tenant : {None, "tenant"}, credentials : {"missing", "invalid", "forbidden", "valid"}]

\* The generated client: it seals an encrypted operation's call, and its payload if that is encrypted.
Call ==
  \E i \in DOMAIN source.methods, sender \in Senders :
    LET m == source.methods[i]
    IN /\ stage = "ready" /\ m.kind = "request"
       /\ \E parameters \in Parameters(m), value \in PayloadValues(m) :
            /\ call' = [operation |-> i, parameters |-> parameters, value |-> value]
            /\ frame' = [subject |-> SubjectExpression(m, parameters), body |-> PayloadBody(m, value),
                         sealed |-> Encrypted(source, m), from |-> sender]
       /\ stage' = "sent"
       /\ UNCHANGED <<source, served, bound, outcome, reply, result>>

\* Any other sender, of a message that fits what the service listens to or not.
Publish ==
  \E i \in Started(source), sender \in Senders, token \in Tokens :
    LET pattern == Pattern(Template(source, source.methods[i]))
    IN /\ stage = "ready"
       /\ call' = [operation |-> None, parameters |-> << >>, value |-> None]
       /\ \E body \in {<< >>, <<"json", "some">>, <<"junk", "some">>} :
            frame' = [subject |-> FlattenSeq([k \in DOMAIN pattern |->
                                    IF pattern[k] \in {"*", ">"} THEN token ELSE <<pattern[k]>>]),
                      body |-> body, sealed |-> FALSE, from |-> sender]
       /\ stage' = "sent"
       /\ UNCHANGED <<source, served, bound, outcome, reply, result>>
-----------------------------------------------------------------------------
(* The server.                                                             *)

Matches(pattern, subject) ==
  LET n == Len(pattern)
  IN IF pattern[n] = ">" THEN Len(subject) >= n /\ \A i \in 1..(n - 1) : pattern[i] \in {"*", subject[i]}
     ELSE Len(subject) = n /\ \A i \in 1..n : pattern[i] \in {"*", subject[i]}

Listening ==
  {i \in Started(source) : Matches(Pattern(Template(source, source.methods[i])), frame.subject)}

Deliver ==
  /\ stage = "sent"
  /\ served' \in Listening
  /\ stage' = "binding"
  /\ UNCHANGED <<source, call, frame, bound, outcome, reply, result>>

NoResponders ==
  /\ stage = "sent" /\ Listening = {}
  /\ stage' = "done"
  /\ result' = [is |-> "no responders"]
  /\ UNCHANGED <<source, call, frame, served, bound, outcome, reply>>

Operation == source.methods[served]
Answer(error, absent, body, sealed) == [error |-> error, absent |-> absent, body |-> body, sealed |-> sealed]

\* An ErrorReply of the framework has no details; a response without an error has no code.
Framework(code, kind) == [code |-> code, kind |-> kind, details |-> Errors!NoDetails, message |-> <<"framework">>]
NoError == Framework(None, None)

\* EncryptedRequest::prepare comes before the arguments.
Unprepared == Encrypted(source, Operation) /\ ~frame.sealed

Refuse ==
  /\ stage = "binding" /\ bound = << >> /\ Unprepared
  /\ stage' = "answered"
  /\ reply' = Answer(Framework(400, "ENCRYPT_REQUIRED"), FALSE, << >>, FALSE)
  /\ UNCHANGED <<source, call, frame, served, bound, outcome, result>>

Read(codec, body) == IF codec = "empty" THEN "unit" ELSE IF body = << >> THEN "zero" ELSE body[2]

\* decode_json, decode_proto and decode_text; bytes are always readable.
Unreadable(codec, text, body) ==
  \/ codec = "json" /\ (body = << >> \/ body[1] # "json")
  \/ codec = "protobuf" /\ body # << >> /\ body[1] # "protobuf"
  \/ text /\ body # << >> /\ body[1] = "junk"

DecodeErrors == [json |-> Framework(400, "BAD_JSON"), protobuf |-> Framework(400, "BAD_PROTOBUF"),
                 raw |-> Framework(400, "BAD_UTF8"), utf8 |-> Framework(400, "BAD_UTF8")]

\* The error one argument is refused with, NoError if it is there.
BindingError(arg, kind) ==
  LET who == frame.from.credentials
  IN CASE kind.is = "subject" ->
            IF kind.segment > Len(frame.subject) THEN Framework(400, "SUBJECT_PARAM_MISSING")
            ELSE IF arg.type = <<"f64">> /\ frame.subject[kind.segment] \notin Numbers
            THEN Framework(400, "SUBJECT_PARAM_INVALID") ELSE NoError
       [] kind.is = "header" ->
            IF ~kind.optional /\ frame.from.tenant = None THEN Framework(400, "INVALID_HEADER") ELSE NoError
       [] kind.is = "auth" ->
            IF who = "valid" \/ (kind.optional /\ who = "missing") THEN NoError
            ELSE IF who = "forbidden" THEN Framework(403, "FORBIDDEN") ELSE Framework(401, "UNAUTHORIZED")
       [] kind.is = "payload" ->
            IF kind.optional /\ frame.body = << >> THEN NoError
            ELSE IF Unreadable(kind.codec, kind.codec = "utf8" \/ kind.decoded = <<"String">>, frame.body)
            THEN DecodeErrors[kind.codec] ELSE NoError
       [] OTHER -> NoError

BoundValue(kind) ==
  CASE kind.is = "subject" -> frame.subject[kind.segment]
    [] kind.is = "header" -> frame.from.tenant
    [] kind.is = "auth" -> IF frame.from.credentials = "valid" THEN "claims" ELSE None
    [] kind.is = "payload" ->
         IF kind.optional /\ frame.body = << >> THEN None ELSE Read(kind.codec, frame.body)
    [] OTHER -> "context"

NextArgument == Len(bound) + 1
Unbound == stage = "binding" /\ ~Unprepared /\ NextArgument \in DOMAIN Operation.args

BindArgument ==
  /\ Unbound
  /\ BindingError(Operation.args[NextArgument], Kinds(source, Operation)[NextArgument]) = NoError
  /\ bound' = Append(bound, BoundValue(Kinds(source, Operation)[NextArgument]))
  /\ UNCHANGED <<source, stage, call, frame, served, outcome, reply, result>>

\* The first argument that cannot be bound ends the call; its error goes out in the clear.
RejectArgument ==
  LET error == BindingError(Operation.args[NextArgument], Kinds(source, Operation)[NextArgument])
  IN /\ Unbound /\ error # NoError
     /\ stage' = "answered"
     /\ reply' = Answer(error, FALSE, << >>, FALSE)
     /\ UNCHANGED <<source, call, frame, served, bound, outcome, result>>

OkValues(response) ==
  IF response.codec = "empty" THEN {"unit"}
  ELSE {"zero", "some"} \cup (IF response.optional THEN {None} ELSE {})

\* Deviation: an absent value is an empty body.
EncodeResponseBare(response, value) ==
  Answer(NoError, FALSE, IF value = None THEN << >> ELSE Body(response.codec, value), response.encrypted)

\* A wire type of () sends nothing, whatever the handler returned.
EncodeResponse(response, value) ==
  IF value = None THEN Answer(NoError, TRUE, << >>, response.encrypted)
  ELSE IF response.wrapper = "Direct" /\ response.wire = <<"()">> THEN Answer(NoError, FALSE, << >>, response.encrypted)
  ELSE Answer(NoError, FALSE, Body(response.codec, value), response.encrypted)

Bound == stage = "binding" /\ ~Unprepared /\ Len(bound) = Len(Operation.args)

Handled(returned, answer) ==
  /\ stage' = "answered"
  /\ outcome' = returned
  /\ reply' = answer
  /\ UNCHANGED <<source, call, frame, served, bound, result>>

HandlerReturns ==
  /\ Bound
  /\ \E value \in OkValues(Response(Operation)) :
       Handled([is |-> "ok", value |-> value], EncodeResponse(Response(Operation), value))

HandlerFails ==
  /\ Bound /\ Operation.error # None
  /\ \E i \in DOMAIN Operation.error.variants :
       LET v == Operation.error.variants[i]
       IN \E values \in [DOMAIN v.fields -> Values] :
            Handled([is |-> "error", variant |-> v, values |-> values],
                    Answer(Errors!IntoNatsError(v, values), FALSE, << >>, FALSE))
-----------------------------------------------------------------------------
(* The client again.                                                       *)

Decoded(m) ==
  LET response == Response(m)
  IN IF Operation.kind # "request" THEN [is |-> "timeout"]
     ELSE IF reply.error.code # None THEN (IF m.error = None THEN [is |-> "response"]
                                      ELSE Errors!FromNatsErrorResponse(m.error, reply.error))
     ELSE IF response.encrypted # reply.sealed THEN [is |-> "undecryptable"]
     ELSE IF response.optional /\ reply.absent THEN [is |-> "ok", value |-> None]
     ELSE IF Unreadable(response.codec, FALSE, reply.body) THEN [is |-> "undecodable"]
     ELSE [is |-> "ok", value |-> Read(response.codec, reply.body)]

Decode ==
  /\ stage = "answered"
  /\ stage' = "done"
  /\ result' = IF call.operation = None THEN [is |-> "ignored"] ELSE Decoded(source.methods[call.operation])
  /\ UNCHANGED <<source, call, frame, served, bound, outcome, reply>>

Next ==
  \/ Expand \/ Call \/ Publish \/ Deliver \/ NoResponders \/ Refuse
  \/ BindArgument \/ RejectArgument \/ HandlerReturns \/ HandlerFails \/ Decode

Spec == Init /\ [][Next]_vars
-----------------------------------------------------------------------------
(* Properties.                                                             *)

\* The contract of a service the macro accepts passes ContractDocument::validate, its subjects
\* pass the validation at startup, and the deployment made of it names everything the service starts.
AcceptedIsServable ==
  stage = "ready" =>
    LET doc == Document(source)
        deployed == Deployment(doc)
    IN /\ ContractValid(doc)
       /\ SubjectsUnique(doc)
       /\ \A i \in Started(source) : source.methods[i].name \in Range(deployed.endpoints) \cup Range(deployed.consumers)

\* What the contract says of an operation's authentication is what its handler gets: it runs only
\* with valid credentials if they are required, never with bad ones if they are optional.
AuthEnforced ==
  outcome # None =>
    LET policy == OperationSpec(source, Operation).auth
        who == frame.from.credentials
    IN /\ policy = "required" => who = "valid"
       /\ policy = "optional" => who \in {"valid", "missing"}

\* The handler of the operation a client calls gets the client's parameters and payload; only a
\* payload that is optional and writes no bytes becomes None.  Values with dots get another
\* operation or none, and never a handler of this one with its parameters shifted.
ArgumentsArrive ==
  outcome # None /\ call # None /\ call.operation = served =>
    /\ \A i \in Positions(Operation, "subject") : call.parameters[i] = <<bound[i]>>
    /\ \A i \in Positions(Operation, "payload") :
         \/ bound[i] = call.value
         \/ Kinds(source, Operation)[i].optional /\ frame.body = << >> /\ bound[i] = None

\* What a handler returns is what the client of its operation gets, None and empty values
\* told apart, under every codec; unless the client expects () of a handler that returns something
\* else, because its response is overridden with () or is an encrypted reference to it.
ResponsesArrive ==
  stage = "done" /\ outcome # None /\ call.operation = served /\ outcome.is = "ok" =>
    LET response == Response(Operation)
    IN \/ response.wire = <<"()">> /\ response.codec # "empty"
       \/ result = [is |-> "ok", value |-> outcome.value]

\* The client gets the variant the handler returned, with its fields, or no variant at all: it does
\* get it if every field is written, and nothing of an internal one leaves the server.
ErrorsArrive ==
  stage = "done" /\ outcome # None /\ call.operation = served /\ outcome.is = "error" =>
    LET v == outcome.variant
        whole == /\ ~Errors!HasSkipped(v) /\ (v.fields # << >> \/ v.shape = "unit")
                 /\ Range(outcome.values) \cap Unserialisable = {}
    IN IF v.internal # "no" \/ (v.code = None /\ (v.transparent \/ \E i \in DOMAIN v.fields : v.fields[i].from))
       THEN result = Errors!Untyped /\ reply.error.details = Errors!NoDetails /\ reply.error.message = Errors!HiddenMessage
       ELSE \/ result = Errors!Typed(v, outcome.values)
            \/ ~whole /\ result = Errors!Untyped
=============================================================================
