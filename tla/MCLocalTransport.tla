--------------------------- MODULE MCLocalTransport ---------------------------
(* Instances of LocalTransport for TLC: services with overlapping patterns *)
(* and with every mix of encryption, applications that must not start, and *)
(* calls with headers in every place.                                      *)
EXTENDS LocalTransport

CONSTANTS c1, c2, k1, k2

MCNames == {EphKey, EncHeaders, Signature, RequestId, ClientVersion, "x-plain", "auth", "Auth"}
MCFold == [n \in MCNames |-> IF n = "Auth" THEN "auth" ELSE n]
MCValidIds == {Text("id-1")}

Op(kind, pattern, sealPayload, sealReply, optional) ==
  [kind |-> kind, pattern |-> pattern, sealPayload |-> sealPayload, sealReply |-> sealReply,
   optional |-> optional]

AnyUser == Op("request", <<"u", "*">>, FALSE, FALSE, FALSE)
FindUser == Op("request", <<"u", "find">>, FALSE, FALSE, TRUE)
Users == Op("request", <<"u", ">">>, FALSE, FALSE, FALSE)
PutSecret == Op("request", <<"s", "put">>, TRUE, TRUE, TRUE)
GetSecret == Op("request", <<"s", "get">>, FALSE, TRUE, FALSE)
TakeSecret == Op("request", <<"s", "take">>, TRUE, FALSE, FALSE)
Made == Op("publish", <<"e", "made">>, FALSE, FALSE, FALSE)
MadeSealed == Op("publish", <<"e", "sealed">>, TRUE, FALSE, FALSE)

Service(operations, consumers) == [operations |-> operations, consumers |-> consumers]
SecretService == Service(<<PutSecret, GetSecret, TakeSecret, MadeSealed>>, <<<<"st", "d1">>>>)
UserService == Service(<<FindUser, AnyUser, Made>>, <<>>)
OtherUsers == Service(<<Users>>, <<<<"st", "d2">>>>)

App(services, streams, key) == [services |-> services, streams |-> streams, key |-> key]

\* Two that start and, for each reason not to, one that does not: a subject or a durable
\* twice, no key, an undeclared stream, a durable name in two streams.
MCApplications ==
  {App(<<SecretService, UserService, Service(<<>>, <<<<"tr", "d2">>>>)>>, {"st", "tr"}, k1),
   App(<<OtherUsers, UserService>>, {"st"}, None)}
    \cup {App(<<UserService, Service(<<AnyUser>>, <<>>)>>, {}, k1),
          App(<<OtherUsers, Service(<<>>, <<<<"st", "d2">>>>)>>, {"st"}, k1),
          App(<<SecretService>>, {"st"}, None),
          App(<<SecretService>>, {"tr"}, k1),
          App(<<OtherUsers, Service(<<>>, <<<<"tr", "d2">>>>)>>, {"st", "tr"}, k1)}

H(name, values) == [NoHeaders EXCEPT ![name] = values]
A == Text("a")
B == Text("b")
C == Text("c")

Plain(op, subject) ==
  [op |-> op, subject |-> subject, defaults |-> NoHeaders, headers |-> NoHeaders, secrets |-> <<>>,
   recipient |-> k1, timed |-> FALSE, badPayload |-> FALSE, altered |-> FALSE]
Put == Plain(PutSecret, <<"s", "put">>)

MCRequests ==
  { [Plain(AnyUser, <<"u", "7">>) EXCEPT !.defaults = H("x-plain", <<A, B>>), !.timed = TRUE],
    [Plain(FindUser, <<"u", "find">>) EXCEPT !.defaults = H("x-plain", <<A>>), !.headers = H("x-plain", <<B>>)],
    Plain(Users, <<"u", "a", "b">>),
    [Put EXCEPT !.defaults = H("x-plain", <<A, B>>), !.secrets = <<<<"auth", A>>, <<"auth", B>>>>, !.timed = TRUE],
    [Put EXCEPT !.headers = H("auth", <<C>>), !.secrets = <<<<"Auth", A>>, <<"auth", B>>>>],
    [Put EXCEPT !.headers = H(EncHeaders, <<A>>), !.secrets = <<<<"auth", A>>>>],
    [Put EXCEPT !.headers = H(EncHeaders, <<A>>)],
    [Put EXCEPT !.headers = H(EphKey, <<A>>)],
    [Put EXCEPT !.headers = H(RequestId, <<Text("id 1")>>)],
    [Put EXCEPT !.headers = H(RequestId, <<Text("id-1")>>), !.defaults = H(ClientVersion, <<A>>)],
    [Put EXCEPT !.recipient = k2],
    [Put EXCEPT !.recipient = None],
    [Plain(GetSecret, <<"s", "get">>) EXCEPT !.altered = TRUE],
    Plain(GetSecret, <<"s", "get">>),
    Plain(TakeSecret, <<"s", "take">>),
    [Plain(Made, <<"e", "made">>) EXCEPT !.badPayload = TRUE],
    Plain(Made, <<"e", "made">>),
    Plain(MadeSealed, <<"e", "sealed">>) }

MCFaultSubjects == {<<"u", "7">>, <<"e", "made">>}

Symmetry == Permutations(Calls)
=============================================================================
