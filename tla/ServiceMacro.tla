------------------------------ MODULE ServiceMacro ------------------------------
(***************************************************************************)
(* What #[service] makes of an impl block (nats-micro-macros/src/service/): *)
(* the model it builds, what it refuses, and the specs it generates; and    *)
(* what contract.rs, deployment.rs and app/services.rs make of the specs.   *)
(*                                                                         *)
(* A type is the tuple of its names, outermost first:                       *)
(* <<"Option", "Encrypted", "Json", "T">>, <<"&", "str">>, <<"()">>.        *)
(* A template is a tuple of segments [is, text]: literals, parameters, and  *)
(* segments whose braces do not match.  Names with a character they may not *)
(* have, the empty one too, are Malformed.                                  *)
(***************************************************************************)
EXTENDS Naturals, Sequences, FiniteSets, SequencesExt

CONSTANTS None,
          Malformed,  \* strings that are no token
          Numerals    \* parts of a version that are all digits
-----------------------------------------------------------------------------
(* Types.                                                                  *)

References == {"&", "&static", "&mut"}
LastIdent(ty) == IF Head(ty) \in References \cup {"()", "[]"} THEN None ELSE Head(ty)
Inner(wrapper, ty) == IF LastIdent(ty) = wrapper /\ Len(ty) > 1 THEN Tail(ty) ELSE None
Peeled(wrapper, ty) == IF Inner(wrapper, ty) = None THEN ty ELSE Inner(wrapper, ty)
IsStr(ty) == Len(ty) = 2 /\ ty[1] \in References /\ ty[2] = "str"
AuthInner(ty) == Inner("Auth", Peeled("Option", ty))
ContainsEncrypted(ty) == "Encrypted" \in Range(ty)

WrapperCodecs == [Json |-> "json", Proto |-> "protobuf", Body |-> "raw", Text |-> "utf8"]

Payload(ty, codec) ==
  LET given == Peeled("Option", ty)
      value == Peeled("Encrypted", given)
      wrapped == LastIdent(value) \in DOMAIN WrapperCodecs
  IN [is |-> "payload", optional |-> given # ty, encrypted |-> value # given,
      wrapper |-> IF wrapped THEN LastIdent(value) ELSE "Direct",
      codec |-> IF wrapped THEN WrapperCodecs[LastIdent(value)] ELSE codec,
      decoded |-> IF wrapped THEN Tail(value) ELSE value]

ResponseCodec(ty) ==
  IF ty = <<"()">> THEN <<"empty", "Direct">>
  ELSE IF LastIdent(ty) \in {"Json", "Proto"} THEN <<WrapperCodecs[LastIdent(ty)], LastIdent(ty)>>
  ELSE IF LastIdent(ty) = "Response" THEN <<"raw", "Response">>
  ELSE IF LastIdent(ty) \in {"Bytes", "String"} \/ ty = <<"Vec", "u8">> THEN <<"raw", "Direct">>
  ELSE IF IsStr(ty) THEN <<"utf8", "Direct">>
  ELSE <<"json", "Direct">>

WireType(ty) ==
  IF Inner("Json", ty) # None \/ Inner("Proto", ty) # None \/ ty[1] \in References THEN Tail(ty) ELSE ty

Response(m) ==
  LET given == Peeled("Option", m.ok)
      value == Peeled("Encrypted", given)
      coded == IF m.kind = "consumer" THEN <<"empty", "Direct">> ELSE ResponseCodec(value)
  IN [optional |-> m.kind # "consumer" /\ given # m.ok, encrypted |-> value # given,
      codec |-> coded[1], wrapper |-> coded[2],
      wire |-> IF m.response # None THEN m.response ELSE WireType(value)]
-----------------------------------------------------------------------------
(* Subjects.                                                               *)

Literal(text) == [is |-> "literal", text |-> text]

Template(s, m) ==
  LET given == IF m.kind = "consumer" /\ m.filter # None THEN m.filter ELSE m.subject
  IN IF m.kind = "consumer" THEN (IF given = None THEN << >> ELSE given)
     ELSE [i \in DOMAIN s.prefix |-> Literal(s.prefix[i])] \o <<Literal("v" \o s.version[1])>>
            \o (IF given = None THEN <<Literal(m.name)>> ELSE given)

TemplateParses(kind, template) ==
  \A i \in DOMAIN template :
    /\ template[i].is # "malformed"
    /\ template[i] # Literal("")
    /\ kind \in {"request", "publish"} => template[i] \notin {Literal("*"), Literal(">")}

Pattern(template) == [i \in DOMAIN template |-> IF template[i].is = "param" THEN "*" ELSE template[i].text]

Placeholders(template) == {i \in DOMAIN template : template[i].is = "param"}

\* Deviation: a segment is counted from the end of the prefix.
SegmentOfLocal(template, name) ==
  LET i == SelectInSeq(template, LAMBDA segment : segment = [is |-> "param", text |-> name])
  IN IF i > 2 THEN i - 2 ELSE i

\* The placeholder an argument takes its value from: the first of its name.
SegmentOf(template, name) ==
  SelectInSeq(template, LAMBDA segment : segment = [is |-> "param", text |-> name])
-----------------------------------------------------------------------------
(* Arguments.                                                              *)

ArgumentKind(s, m, arg) ==
  LET segment == SegmentOf(Template(s, m), arg.name)
  IN IF segment > 0 THEN [is |-> "subject", segment |-> segment]
     ELSE IF arg.header # None THEN [is |-> "header", optional |-> Inner("Option", arg.type) # None]
     ELSE IF arg.type = <<"&">> \o s.state THEN [is |-> "state"]
     ELSE IF LastIdent(arg.type) \in {"StateRef", "Headers", "RequestMeta"} THEN [is |-> "context"]
     ELSE IF AuthInner(arg.type) # None THEN [is |-> "auth", optional |-> Inner("Option", arg.type) # None]
     ELSE Payload(arg.type, s.defaults.codec)

Kinds(s, m) == [i \in DOMAIN m.args |-> ArgumentKind(s, m, m.args[i])]

ArgumentParses(s, m, arg) ==
  LET kind == ArgumentKind(s, m, arg)
      value == Peeled("Encrypted", Peeled("Option", arg.type))
  IN /\ kind.is = "subject" => arg.header = None
     /\ kind.is = "header" => IsStr(Peeled("Option", arg.type))
     /\ kind.is = "payload" => /\ arg.type # <<"&mut">> \o s.state
                               /\ Head(arg.type) # "[]"
                               /\ Head(value) \in {"Json", "Proto"} => Len(value) > 1
     /\ LastIdent(arg.type) = "StateRef" /\ kind.is = "context" => Len(arg.type) > 1
-----------------------------------------------------------------------------
(* What the macro refuses.  The features json, protobuf and encryption are  *)
(* on, napi is off.                                                        *)

OrDefault(given, default) == IF given # None THEN given ELSE default

HasAuth(s, m, optional) == [is |-> "auth", optional |-> optional] \in Range(Kinds(s, m))

InferredAuth(s, m) ==
  IF HasAuth(s, m, FALSE) THEN "required" ELSE IF HasAuth(s, m, TRUE) THEN "optional" ELSE "none"

Auth(s, m) ==
  IF m.auth # None THEN m.auth
  ELSE IF s.defaults.auth # "none" THEN s.defaults.auth ELSE InferredAuth(s, m)

\* Deviation: an argument of either kind satisfies a policy.
AuthValidAny(s, m) == Auth(s, m) = "none" <=> InferredAuth(s, m) = "none"

AuthValid(s, m) ==
  CASE Auth(s, m) = "required" -> HasAuth(s, m, FALSE)
    [] Auth(s, m) = "optional" -> HasAuth(s, m, TRUE) /\ ~HasAuth(s, m, FALSE)
    [] Auth(s, m) = "none" -> InferredAuth(s, m) = "none"

RequestEncrypted(s, m) == \E i \in DOMAIN m.args : Kinds(s, m)[i].is = "payload" /\ Kinds(s, m)[i].encrypted
Encrypted(s, m) == Response(m).encrypted \/ RequestEncrypted(s, m)

SubjectValid(tokens) ==
  /\ tokens # << >>
  /\ \A i \in DOMAIN tokens : tokens[i] \notin Malformed /\ (tokens[i] = ">" => i = Len(tokens))

PlaceholdersValid(template, m) ==
  \A i \in Placeholders(template) :
    /\ \A j \in Placeholders(template) : template[i] = template[j] => i = j
    /\ \E a \in DOMAIN m.args : m.args[a].name = template[i].text

PayloadsValid(s, m) ==
  /\ Cardinality({i \in DOMAIN m.args : Kinds(s, m)[i].is = "payload"}) <= 1
  /\ \A i \in DOMAIN m.args : Kinds(s, m)[i].is = "payload" =>
       /\ m.args[i].type[1] \notin References
       /\ ContainsEncrypted(m.args[i].type) => Kinds(s, m)[i].encrypted

ResponseValid(m) ==
  LET response == Response(m)
      value == IF response.optional THEN Tail(m.ok) ELSE m.ok
  IN /\ ~(response.optional /\ response.wrapper = "Response")
     /\ value[1] \in References => value = <<"&static", "str">> \/ m.response # None
     /\ ContainsEncrypted(m.ok) => response.encrypted

ConsumerValid(m) ==
  /\ None \notin {m.stream, m.durable}
  /\ {m.stream, m.durable} \cap Malformed = {}
  /\ m.ackWait # 0
  /\ 0 \notin Range(m.backoff)

OperationValid(s, m) ==
  LET template == Template(s, m)
  IN /\ m.async \/ m.kind = "publish"
     /\ TemplateParses(m.kind, template)
     /\ \A i \in DOMAIN m.args : ArgumentParses(s, m, m.args[i])
     /\ OrDefault(m.concurrency, s.defaults.concurrency) > 0
     /\ OrDefault(m.queue, s.defaults.queue) \notin Malformed
     /\ SubjectValid(Pattern(template))
     /\ PlaceholdersValid(template, m)
     /\ PayloadsValid(s, m)
     /\ AuthValid(s, m)
     /\ ResponseValid(m)
     /\ Encrypted(s, m) => m.kind \in {"request", "publish"}
     /\ m.kind = "consumer" => ConsumerValid(m)

\* Deviation: operations are told apart by their templates.
SubjectsDifferByTemplate(s) ==
  \A i, j \in DOMAIN s.methods : i # j => Template(s, s.methods[i]) # Template(s, s.methods[j])

SubjectsDiffer(s) ==
  \A i, j \in DOMAIN s.methods :
    i # j /\ "consumer" \notin {s.methods[i].kind, s.methods[j].kind}
      => Pattern(Template(s, s.methods[i])) # Pattern(Template(s, s.methods[j]))

Accepts(s) ==
  /\ Len(s.version) = 3 /\ Range(s.version) \subseteq Numerals
  /\ s.name \notin Malformed
  /\ SubjectValid(s.prefix)
  /\ s.defaults.concurrency > 0
  /\ \A i, j \in DOMAIN s.methods : s.methods[i].name = s.methods[j].name => i = j
  /\ \A i \in DOMAIN s.methods : OperationValid(s, s.methods[i])
  /\ SubjectsDiffer(s)
-----------------------------------------------------------------------------
(* The specs it generates, and who reads them.  A spec stays at the position *)
(* of its method.                                                          *)

OperationSpec(s, m) ==
  [name |-> m.name, kind |-> m.kind, subject |-> Pattern(Template(s, m)),
   queue |-> OrDefault(m.queue, s.defaults.queue),
   requestCodec |-> LET payloads == {i \in DOMAIN m.args : Kinds(s, m)[i].is = "payload"}
                    IN IF payloads = {} THEN "empty" ELSE Kinds(s, m)[CHOOSE i \in payloads : TRUE].codec,
   responseCodec |-> Response(m).codec,
   requestEncrypted |-> RequestEncrypted(s, m), responseEncrypted |-> Response(m).encrypted,
   auth |-> Auth(s, m), concurrency |-> OrDefault(m.concurrency, s.defaults.concurrency)]

ConsumerSpec(s, m) ==
  [name |-> m.name, stream |-> m.stream, durable |-> m.durable, filter |-> Pattern(Template(s, m)),
   concurrency |-> OrDefault(m.concurrency, s.defaults.concurrency),
   ackWait |-> OrDefault(m.ackWait, 30000), backoff |-> m.backoff]

Document(s) ==
  LET Of(consumers) == {i \in DOMAIN s.methods : (s.methods[i].kind = "consumer") = consumers}
  IN [name |-> s.name, version |-> s.version,
      operations |-> [i \in Of(FALSE) |-> OperationSpec(s, s.methods[i])],
      consumers |-> [i \in Of(TRUE) |-> ConsumerSpec(s, s.methods[i])]]

\* ContractDocument::validate.
ContractValid(doc) ==
  /\ doc.name # ""
  /\ Len(doc.version) = 3 /\ Range(doc.version) \subseteq Numerals
  /\ \A i \in DOMAIN doc.operations :
       /\ doc.operations[i].subject # << >>
       /\ doc.operations[i].concurrency > 0
       /\ \A j \in DOMAIN doc.operations : doc.operations[i].subject = doc.operations[j].subject => i = j
  /\ \A i \in DOMAIN doc.consumers :
       /\ "" \notin {doc.consumers[i].stream, doc.consumers[i].durable} /\ doc.consumers[i].filter # << >>
       /\ doc.consumers[i].concurrency > 0

\* ServiceSetValidator::add, for a service that is alone in its application.
SubjectsUnique(doc) == IsInjective([i \in DOMAIN doc.operations |-> doc.operations[i].subject])

\* What Service::start spawns.
Started(s) == {i \in DOMAIN s.methods : s.methods[i].kind # "publish"}

Deployment(doc) ==
  [queues |-> {doc.operations[i].queue : i \in DOMAIN doc.operations} \ {None},
   endpoints |-> [i \in DOMAIN doc.operations |-> doc.operations[i].name],
   consumers |-> [i \in DOMAIN doc.consumers |-> doc.consumers[i].name]]
=============================================================================
