--------------------------- MODULE MCGeneratedService ---------------------------
(* Instances of GeneratedService for TLC: impl blocks that differ from a    *)
(* plain one in one part each.                                             *)
EXTENDS GeneratedService

Method(name, kind) ==
  [name |-> name, kind |-> kind, async |-> TRUE, subject |-> None, filter |-> None, args |-> << >>,
   ok |-> <<"()">>, error |-> None, response |-> None, auth |-> None, queue |-> None, concurrency |-> None,
   stream |-> None, durable |-> None, ackWait |-> None, backoff |-> << >>]
Arg(name, type) == [name |-> name, type |-> type, header |-> None]
Defaults == [concurrency |-> 256, queue |-> None, auth |-> "none", codec |-> "json"]
Of(methods) ==
  [name |-> "orders", prefix |-> <<"orders">>, version |-> <<"1", "0", "0">>, state |-> <<"State">>,
   defaults |-> Defaults, methods |-> methods]
Create == Method("create", "request")

\* A type as it is, optional, encrypted, both, and encrypted where it may not be.
Wrapped(ty) == {ty, <<"Option">> \o ty, <<"Encrypted">> \o ty, <<"Option", "Encrypted">> \o ty}
PayloadTypes ==
  UNION {Wrapped(ty) : ty \in {<<"Json", "T">>, <<"Proto", "T">>, <<"Body">>, <<"Text">>, <<"T">>, <<"Bytes">>,
                               <<"Vec", "u8">>, <<"String">>, <<"()">>, <<"&", "str">>, <<"Json">>}}
    \cup {<<"Json", "Encrypted", "T">>, <<"&mut", "State">>, <<"[]", "u8">>}
OfPayload(ty, codec) ==
  [Of(<<[Create EXCEPT !.args = <<Arg("input", ty)>>]>>) EXCEPT !.defaults.codec = codec]

ResponseTypes ==
  UNION {Wrapped(ty) : ty \in {<<"Json", "T">>, <<"Proto", "T">>, <<"T">>, <<"Bytes">>, <<"Vec", "u8">>,
                               <<"String">>, <<"()">>, <<"&static", "str">>, <<"&", "T">>, <<"&static", "()">>, <<"Response">>}}
    \cup {<<"Json", "Encrypted", "T">>}
OfResponse(ty, override) == Of(<<[Create EXCEPT !.ok = ty, !.response = override]>>)

AuthArgs == {<< >>, <<Arg("who", <<"Auth", "C">>)>>, <<Arg("who", <<"Option", "Auth", "C">>)>>,
             <<Arg("input", <<"T">>), Arg("who", <<"Auth", "C">>), Arg("maybe", <<"Option", "Auth", "C">>)>>}
OfAuth(args, auth, default) ==
  [Of(<<[Create EXCEPT !.args = args, !.auth = auth]>>) EXCEPT !.defaults.auth = default]

Param(name) == [is |-> "param", text |-> name]
Get(name, subject, args) == [Method(name, "request") EXCEPT !.subject = subject, !.args = args]
Watch(name, subject) == [Method(name, "subscribe") EXCEPT !.subject = subject]
Drain(name, durable) ==
  [Method(name, "consumer") EXCEPT !.filter = <<Literal("orders"), Literal("*")>>, !.stream = "ORDERS", !.durable = durable]
OneId == Get("one", <<Literal("by"), Param("id")>>, <<Arg("id", <<"f64">>)>>)
TwoIds == Get("two", <<Literal("by"), Param("id"), Param("kind")>>,
              <<Arg("kind", <<"&", "str">>), Arg("id", <<"f64">>)>>)
Header(name, ty) == [Arg(name, ty) EXCEPT !.header = "x-tenant"]
Subjects ==
  { <<OneId, TwoIds>>,
    <<OneId, Get("other", <<Literal("by"), Param("name")>>, <<Arg("name", <<"String">>)>>)>>,
    <<OneId, Get("mine", <<Literal("by"), Literal("7")>>, << >>)>>,
    <<OneId, Watch("all", <<Literal("by"), Literal(">")>>)>>,
    <<Get("named", <<Literal("by"), Param("name")>>, <<Arg("name", <<"String">>)>>)>>,
    <<Get("wild", <<Literal("by"), Literal("*")>>, << >>)>>,
    <<Get("lost", <<Param("id")>>, << >>)>>,
    <<Get("twice", <<Param("id"), Param("id")>>, <<Arg("id", <<"String">>)>>)>>,
    <<Get("both", <<Param("id")>>, <<Header("id", <<"&", "str">>)>>)>>,
    <<Get("brace", <<[is |-> "malformed", text |-> "{id"]>>, << >>)>>,
    <<Get("tenant", None, <<Header("tenant", <<"&", "str">>), Arg("input", <<"Option", "T">>)>>)>>,
    <<Get("maybe", None, <<Header("tenant", <<"Option", "&", "str">>), Arg("state", <<"&", "State">>), Arg("all", <<"Headers">>)>>)>>,
    <<Get("owned", None, <<Header("tenant", <<"String">>)>>)>>,
    <<Get("pair", None, <<Arg("a", <<"T">>), Arg("b", <<"T">>)>>)>>,
    <<Create, Create>>,
    <<Create, Method("created", "publish")>>,
    <<[Create EXCEPT !.async = FALSE]>>,
    <<[Create EXCEPT !.concurrency = 0]>>,
    <<[Create EXCEPT !.queue = ""]>>,
    <<Watch("raw", <<Literal(">"), Literal("x")>>)>>,
    <<Watch("sealed", None), Create>>,
    <<[Watch("sealed", None) EXCEPT !.args = <<Arg("input", <<"Encrypted", "T">>)>>]>>,
    <<Drain("drain", "worker")>>, <<Drain("drain", "worker"), Drain("audit", "audit")>>,
    <<Drain("drain", "worker"), Drain("again", "worker")>>,
    <<Drain("drain", None)>>, <<[Drain("drain", "worker") EXCEPT !.ackWait = 0]>>,
    <<[Drain("drain", "worker") EXCEPT !.args = <<Arg("input", <<"Json", "T">>)>>]>>,
    <<[Drain("drain", "worker") EXCEPT !.backoff = <<1, 0>>]>>, <<[Drain("drain", "worker") EXCEPT !.filter = None]>> }

Field(ty) == [type |-> ty, source |-> FALSE, from |-> FALSE, backtrace |-> FALSE, skip |-> FALSE]
Variant(name, shape, fields) ==
  [name |-> name, shape |-> shape, fields |-> fields, code |-> None, kind |-> None, internal |-> "no",
   transparent |-> FALSE, skipAll |-> FALSE, message |-> "text"]
Missing == [Variant("MISSING", "unit", << >>) EXCEPT !.code = 404]
Second ==
  { Variant("TEXT", "unnamed", <<Field("String")>>),
    Variant("PAIR", "named", <<Field("u32"), Field("String")>>),
    Variant("EMPTY", "unnamed", << >>),
    Variant("PARTLY", "named", <<Field("u32"), [Field("Secret") EXCEPT !.skip = TRUE]>>),
    [Variant("HIDDEN", "unnamed", <<Field("String")>>) EXCEPT !.skipAll = TRUE],
    Variant("WRAPPED", "unnamed", <<[Field("Io") EXCEPT !.from = TRUE]>>),
    [Variant("WRAPPED", "unnamed", <<[Field("Io") EXCEPT !.from = TRUE]>>) EXCEPT !.code = 503],
    Variant("WRAPPED", "named", <<[Field("Io") EXCEPT !.from = TRUE], Field("u32")>>),
    [Variant("THROUGH", "unnamed", <<Field("Io")>>) EXCEPT !.transparent = TRUE],
    [Variant("BROKEN", "unit", << >>) EXCEPT !.internal = "yes"],
    [Variant("BROKEN", "unnamed", <<Field("u32")>>) EXCEPT !.internal = "expose"],
    [Variant("GONE", "unit", << >>) EXCEPT !.code = 404, !.kind = "MISSING"],
    [Variant("GONE", "unit", << >>) EXCEPT !.kind = "gone"],
    [Variant("GONE", "unit", << >>) EXCEPT !.code = 302],
    [Variant("GONE", "unit", << >>) EXCEPT !.message = "code"] }
Enums ==
  {[external |-> external, variants |-> <<Missing, v>>] : v \in Second, external \in BOOLEAN}
    \cup {[external |-> FALSE, variants |-> <<[Missing EXCEPT !.internal = "yes", !.code = None],
                                              [Variant("GONE", "unit", << >>) EXCEPT !.internal = "yes"]>>]}
OfError(enum) == Of(<<[Create EXCEPT !.error = enum]>>)

MCSources ==
  {OfPayload(ty, codec) : ty \in PayloadTypes, codec \in {"json", "protobuf", "raw", "utf8", "empty"}}
    \cup {OfResponse(ty, override) : ty \in ResponseTypes, override \in {None, <<"String">>, <<"()">>}}
    \cup {OfAuth(args, auth, default) : args \in AuthArgs, auth \in {None, "none", "optional", "required"},
                                        default \in {"none", "optional", "required"}}
    \cup {Of(methods) : methods \in Subjects}
    \cup {OfError(enum) : enum \in Enums}
    \cup {[Of(<<Create>>) EXCEPT !.version = <<"1", "0">>], [Of(<<Create>>) EXCEPT !.name = ""],
          [Of(<<Create>>) EXCEPT !.prefix = <<"orders", ">">>], [Of(<<Create>>) EXCEPT !.defaults.concurrency = 0]}

MCTokens == {<<"7">>, <<"new">>, <<"1", "5">>}
=============================================================================
