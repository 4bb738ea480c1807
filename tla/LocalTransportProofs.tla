-------------------------- MODULE LocalTransportProofs --------------------------
(***************************************************************************)
(* Proofs about calls through the in-memory transport, for any             *)
(* applications, requests and numbers of calls at a time: an encrypted     *)
(* call is refused exactly for the reasons there are to refuse it, and the *)
(* caller gets what its own handler returned; the application starts if it *)
(* is fit to, a call goes where the services say, and a planned fault      *)
(* strikes once.                                                           *)
(***************************************************************************)
EXTENDS LocalTransport, SequenceTheorems, FiniteSetTheorems, WellFoundedInduction, TLAPS

(* The frame of a sealed call, and what the service makes of it.           *)

\* The headers of a call before any are sealed.
PlainOf(q) == MergeHeaders(q.defaults, q.headers)

\* The id of a call as the builder signs it.
IdOf(q) == Found([PlainOf(q) EXCEPT ![RequestId] = IF @ = <<>> THEN @ ELSE <<Last(@)>>], RequestId)

\* The sealed headers of a call, and the envelope they travel in.
MapOf(q) == [n \in {q.secrets[i][1] : i \in DOMAIN q.secrets} |->
               q.secrets[SelectLastInSeq(q.secrets, LAMBDA s : s[1] = n)][2]]
BlobOf(c, q) == <<"envelope", c, KeyOf(q.recipient, c), MapOf(q)>>
BodyOf(c, q) == IF q.op.sealPayload THEN <<"envelope", c, KeyOf(q.recipient, c), Input(c)>> ELSE Input(c)

\* A frame's headers that decide whether it is refused, of a call c for q.
LEMMA FrameHeaders ==
  ASSUME NEW c, NEW q \in Requests, IsSealed(q.op)
  PROVE  LET m == FrameOf(c, q)
             h == m.headers
             signed == [subject |-> q.subject, eph |-> c, id |-> IdOf(q), version |-> Found(h, ClientVersion),
                        blob |-> IF q.secrets = <<>> THEN Text("") ELSE BlobOf(c, q), body |-> BodyOf(c, q)]
         IN  /\ m.subject = q.subject
             /\ m.body = IF q.altered THEN Text("altered") ELSE BodyOf(c, q)
             /\ h[EphKey] = IF PlainOf(q)[EphKey] # <<>> THEN <<Last(PlainOf(q)[EphKey])>> ELSE << <<"key", c>> >>
             /\ h[EncHeaders] = IF q.secrets # <<>> THEN <<BlobOf(c, q)>>
                                ELSE IF PlainOf(q)[EncHeaders] # <<>> THEN <<Last(PlainOf(q)[EncHeaders])>> ELSE <<>>
             /\ h[Signature] = << <<"mac", KeyOf(q.recipient, c), signed>> >>
             /\ Found(h, RequestId) = IdOf(q)
<1> DEFINE plain == PlainOf(q)
           inserted == [n \in Names |-> IF plain[n] # <<>> THEN <<Last(plain[n])>>
                                        ELSE IF n = EphKey THEN << <<"key", c>> >> ELSE <<>>]
           headers == IF q.secrets = <<>> THEN inserted ELSE [inserted EXCEPT ![EncHeaders] = <<BlobOf(c, q)>>]
           signed == Transcript(q.subject, c, Found(headers, RequestId), Found(headers, ClientVersion),
                                IF q.secrets = <<>> THEN Text("") ELSE BlobOf(c, q), BodyOf(c, q))
           h == [headers EXCEPT ![Signature] = << <<"mac", KeyOf(q.recipient, c), signed>> >>]
<1>1. FrameOf(c, q) = [[subject |-> q.subject, body |-> BodyOf(c, q), headers |-> h]
                         EXCEPT !.body = IF q.altered THEN Text("altered") ELSE @]
  BY ZenonT(60) DEF FrameOf, BuildForSubject, PlainOf, BlobOf, MapOf, BodyOf
<1>2. {EphKey, EncHeaders, Signature, RequestId, ClientVersion} \subseteq Names
  BY NamesAssumption
<1>3. /\ EphKey # EncHeaders /\ EphKey # Signature /\ EncHeaders # Signature
      /\ RequestId \notin {EphKey, EncHeaders, Signature}
      /\ ClientVersion \notin {EphKey, EncHeaders, Signature}
  BY DEF EphKey, EncHeaders, Signature, RequestId, ClientVersion
<1> HIDE DEF plain, signed
<1>4. \A n \in Names \ {EncHeaders} : headers[n] = inserted[n]
  OBVIOUS
<1>5. headers[EncHeaders] = IF q.secrets # <<>> THEN <<BlobOf(c, q)>>
                            ELSE IF plain[EncHeaders] # <<>> THEN <<Last(plain[EncHeaders])>> ELSE <<>>
  BY <1>2, <1>3
<1>6. DOMAIN headers = Names
  OBVIOUS
<1> HIDE DEF headers
<1>7. /\ \A n \in Names \ {Signature} : h[n] = headers[n]
      /\ h[Signature] = << <<"mac", KeyOf(q.recipient, c), signed>> >>
  BY <1>2, <1>6
<1> HIDE DEF h
<1>8. Found(headers, RequestId) = IdOf(q) /\ Found(h, RequestId) = IdOf(q)
  <2>1. headers[RequestId] = (IF plain[RequestId] # <<>> THEN <<Last(plain[RequestId])>> ELSE <<>>)
    BY <1>2, <1>3, <1>4
  <2>2. [plain EXCEPT ![RequestId] = IF @ = <<>> THEN @ ELSE <<Last(@)>>][RequestId]
          = (IF plain[RequestId] # <<>> THEN <<Last(plain[RequestId])>> ELSE <<>>)
    <3>1. DOMAIN plain = Names
      BY DEF plain, PlainOf, MergeHeaders
    <3>2. QED
      BY <1>2, <3>1
  <2>3. h[RequestId] = headers[RequestId]
    BY <1>2, <1>3, <1>7
  <2>4. QED
    BY <2>1, <2>2, <2>3 DEF Found, IdOf, plain
<1>9. Found(headers, ClientVersion) = Found(h, ClientVersion)
  BY <1>2, <1>3, <1>7 DEF Found
<1>10. h[EphKey] = IF plain[EphKey] # <<>> THEN <<Last(plain[EphKey])>> ELSE << <<"key", c>> >>
  BY <1>2, <1>3, <1>4, <1>7
<1>11. h[EncHeaders] = headers[EncHeaders]
  BY <1>2, <1>3, <1>7
<1>12. signed = [subject |-> q.subject, eph |-> c, id |-> IdOf(q), version |-> Found(h, ClientVersion),
                 blob |-> IF q.secrets = <<>> THEN Text("") ELSE BlobOf(c, q), body |-> BodyOf(c, q)]
  BY <1>8, <1>9 DEF signed, Transcript
<1>13. /\ FrameOf(c, q).subject = q.subject
       /\ FrameOf(c, q).body = IF q.altered THEN Text("altered") ELSE BodyOf(c, q)
       /\ FrameOf(c, q).headers = h
  BY <1>1
<1>14. QED
  BY <1>5, <1>7, <1>8, <1>10, <1>11, <1>12, <1>13 DEF plain

\* get() finds the value of a header that has one.
LEMMA FoundOne == ASSUME NEW h, NEW n, NEW v, h[n] = <<v>> PROVE Found(h, n) = v /\ h[n] # <<>>
BY DEF Found

LEMMA FoundNone == ASSUME NEW h, NEW n, h[n] = <<>> PROVE Found(h, n) = Text("")
BY DEF Found

\* A header the caller gave is a text.
LEMMA PlainIsText ==
  ASSUME NEW q \in Requests, NEW n \in Names, PlainOf(q)[n] # <<>>
  PROVE  Last(PlainOf(q)[n])[1] = "text"
<1>1. PlainOf(q)[n] \in Seq(Texts)
  BY RequestsAssumption DEF PlainOf, MergeHeaders
<1>2. Last(PlainOf(q)[n]) \in Texts
  <2>1. Len(PlainOf(q)[n]) \in 1..Len(PlainOf(q)[n])
    BY <1>1, EmptySeq, LenProperties
  <2>2. QED
    BY <1>1, <2>1, ElementOfSeq DEF Last
<1>3. QED
  BY <1>2 DEF Texts

\* The names of the sealed headers are the caller's, none of them reserved.
LEMMA MapNames == ASSUME NEW q \in Requests PROVE \A n \in DOMAIN MapOf(q) : ~Reserved(n)
BY RequestsAssumption DEF MapOf

\* What a signature proves: the frame was signed for this service, by the owner of its
\* ephemeral key, with the body, the id and the sealed headers it has.
LEMMA SignatureMeans ==
  ASSUME NEW c, NEW q \in Requests, IsSealed(q.op), NEW own, NEW d,
         Refusal(own, FrameOf(c, q), d) = "none"
  PROVE  LET m == FrameOf(c, q)
         IN  /\ own = q.recipient
             /\ Found(m.headers, EphKey)[2] = c
             /\ m.body = BodyOf(c, q)
             /\ ExistingId(m.headers) = IdOf(q)
<1> DEFINE m == FrameOf(c, q)
           h == m.headers
           signed == [subject |-> q.subject, eph |-> c, id |-> IdOf(q), version |-> Found(h, ClientVersion),
                      blob |-> IF q.secrets = <<>> THEN Text("") ELSE BlobOf(c, q), body |-> BodyOf(c, q)]
           verified == Transcript(m.subject, Found(h, EphKey)[2], ExistingId(h), Found(h, ClientVersion),
                                  Found(h, EncHeaders), m.body)
<1>1. Found(h, Signature) = <<"mac", KeyOf(own, Found(h, EphKey)[2]), verified>>
  BY DEF Refusal
<1>2. Found(h, Signature) = <<"mac", KeyOf(q.recipient, c), signed>>
  <2>1. h[Signature] = << <<"mac", KeyOf(q.recipient, c), signed>> >>
    BY FrameHeaders
  <2> HIDE DEF signed
  <2>2. QED
    BY <2>1 DEF Found
<1> HIDE DEF signed, verified, m
<1>3. KeyOf(own, Found(h, EphKey)[2]) = KeyOf(q.recipient, c) /\ signed = verified
  BY <1>1, <1>2
<1>4. own = q.recipient /\ Found(h, EphKey)[2] = c
  BY <1>3 DEF KeyOf
<1>5. m.body = BodyOf(c, q) /\ ExistingId(h) = IdOf(q)
  <2>1. signed.body = verified.body /\ signed.id = verified.id
    BY <1>3
  <2>2. QED
    BY <2>1 DEF signed, verified, Transcript
<1>6. QED
  BY <1>4, <1>5 DEF m

\* The body that was signed is not an altered one.
LEMMA SignedBody == ASSUME NEW c, NEW q PROVE BodyOf(c, q) # Text("altered")
BY DEF BodyOf, Input, Text

\* A call with an excuse is refused.
LEMMA ExcuseRefuses ==
  ASSUME NEW c, NEW q \in Requests, IsSealed(q.op), Excuse(q)
  PROVE  Refusal(app.key, FrameOf(c, q), q.op.sealPayload) # "none"
<1> DEFINE m == FrameOf(c, q)
           h == m.headers
<1>1. SUFFICES ASSUME Refusal(app.key, m, q.op.sealPayload) = "none" PROVE FALSE
  OBVIOUS
<1>2. /\ app.key = q.recipient
      /\ m.body = BodyOf(c, q)
      /\ ExistingId(h) = IdOf(q)
  BY <1>1, SignatureMeans
<1>3. /\ m.body = IF q.altered THEN Text("altered") ELSE BodyOf(c, q)
      /\ h[EphKey] = IF PlainOf(q)[EphKey] # <<>> THEN <<Last(PlainOf(q)[EphKey])>> ELSE << <<"key", c>> >>
      /\ h[EncHeaders] = IF q.secrets # <<>> THEN <<BlobOf(c, q)>>
                         ELSE IF PlainOf(q)[EncHeaders] # <<>> THEN <<Last(PlainOf(q)[EncHeaders])>> ELSE <<>>
      /\ Found(h, RequestId) = IdOf(q)
  BY FrameHeaders
<1>4. CASE q.altered
  BY <1>2, <1>3, <1>4, SignedBody
<1>5. CASE PlainOf(q)[EphKey] # <<>>
  <2>1. Found(h, EphKey) = Last(PlainOf(q)[EphKey])
    BY <1>3, <1>5, FoundOne
  <2>2. Found(h, EphKey)[1] = "text"
    BY <2>1, <1>5, PlainIsText, NamesAssumption
  <2>3. QED
    BY <1>1, <2>2 DEF Refusal
<1>6. CASE PlainOf(q)[EncHeaders] # <<>> /\ q.secrets = <<>>
  <2>1. Found(h, EncHeaders) = Last(PlainOf(q)[EncHeaders]) /\ h[EncHeaders] # <<>>
    BY <1>3, <1>6, FoundOne
  <2>2. Found(h, EncHeaders)[1] = "text"
    BY <2>1, <1>6, PlainIsText, NamesAssumption
  <2>3. QED
    BY <1>1, <2>1, <2>2 DEF Refusal
<1>7. CASE IdOf(q) \notin ValidIds \cup {Text("")}
  BY <1>2, <1>3, <1>7 DEF ExistingId
<1>8. QED
  BY <1>2, <1>4, <1>5, <1>6, <1>7 DEF Excuse, PlainOf, IdOf

\* A call without one is not.
LEMMA OnlyExcusesRefuse ==
  ASSUME NEW c, NEW q \in Requests, IsSealed(q.op), ~Excuse(q)
  PROVE  Refusal(app.key, FrameOf(c, q), q.op.sealPayload) = "none"
<1> DEFINE m == FrameOf(c, q)
           h == m.headers
           key == KeyOf(q.recipient, c)
           signed == [subject |-> q.subject, eph |-> c, id |-> IdOf(q), version |-> Found(h, ClientVersion),
                      blob |-> IF q.secrets = <<>> THEN Text("") ELSE BlobOf(c, q), body |-> BodyOf(c, q)]
<1>1. /\ q.recipient = app.key /\ ~q.altered
      /\ PlainOf(q)[EphKey] = <<>>
      /\ PlainOf(q)[EncHeaders] = <<>> \/ q.secrets # <<>>
      /\ IdOf(q) \in ValidIds \cup {Text("")}
  BY DEF Excuse, PlainOf, IdOf
<1>2. /\ m.subject = q.subject
      /\ m.body = BodyOf(c, q)
      /\ h[EphKey] = << <<"key", c>> >>
      /\ h[EncHeaders] = IF q.secrets # <<>> THEN <<BlobOf(c, q)>> ELSE <<>>
      /\ h[Signature] = << <<"mac", key, signed>> >>
      /\ Found(h, RequestId) = IdOf(q)
  BY <1>1, FrameHeaders
<1> HIDE DEF signed, key, m
<1>3. Found(h, EphKey) = <<"key", c>> /\ h[EphKey] # <<>> /\ h[Signature] # <<>>
  BY <1>2, FoundOne
<1>4. Found(h, EncHeaders) = (IF q.secrets = <<>> THEN Text("") ELSE BlobOf(c, q))
  <2>1. CASE q.secrets = <<>>
    BY <1>2, <2>1, FoundNone
  <2>2. CASE q.secrets # <<>>
    BY <1>2, <2>2, FoundOne
  <2>3. QED
    BY <2>1, <2>2
<1>5. ExistingId(h) = IdOf(q)
  BY <1>1, <1>2 DEF ExistingId
<1>6. Found(h, Signature) = <<"mac", key, signed>>
  BY <1>2, FoundOne
<1>7. signed = Transcript(m.subject, c, ExistingId(h), Found(h, ClientVersion), Found(h, EncHeaders), m.body)
  BY <1>2, <1>4, <1>5 DEF Transcript, signed
<1>8. h[EncHeaders] # <<>> => /\ Found(h, EncHeaders)[1] = "envelope" /\ Found(h, EncHeaders)[3] = key
                              /\ \A n \in DOMAIN Found(h, EncHeaders)[4] : ~Reserved(n)
  <2>1. SUFFICES ASSUME q.secrets # <<>> PROVE
          BlobOf(c, q)[1] = "envelope" /\ BlobOf(c, q)[3] = key /\ BlobOf(c, q)[4] = MapOf(q)
    BY <1>2, <1>4, MapNames
  <2>2. QED
    BY DEF BlobOf, key
<1>9. q.op.sealPayload => m.body[1] = "envelope" /\ m.body[2] = c /\ m.body[3] = key
  <2>1. SUFFICES ASSUME q.op.sealPayload PROVE m.body[1] = "envelope" /\ m.body[2] = c /\ m.body[3] = key
    OBVIOUS
  <2>2. m.body = <<"envelope", c, KeyOf(q.recipient, c), Input(c)>>
    BY <1>2, <2>1 DEF BodyOf
  <2>3. QED
    BY <2>2 DEF key
<1>10. KeyOf(app.key, Found(h, EphKey)[2]) = key /\ Found(h, EphKey)[2] = c /\ Found(h, EphKey)[1] = "key"
  <2>1. Found(h, EphKey)[2] = c /\ Found(h, EphKey)[1] = "key"
    BY <1>3
  <2>2. QED
    BY <1>1, <2>1 DEF key
<1>11. Refusal(app.key, m, q.op.sealPayload) = "none"
  BY <1>3, <1>6, <1>7, <1>8, <1>9, <1>10 DEF Refusal
<1>12. QED
  BY <1>11 DEF m
-----------------------------------------------------------------------------
(* What the handler of a call sees.                                        *)

LEMMA LastExists ==
  ASSUME NEW n \in Nat, NEW I \in SUBSET (1..n), I # {}
  PROVE  Max(I) \in I /\ \A i \in I : Max(I) >= i
<1> DEFINE T == {n - i : i \in I}
<1>1. T \subseteq Nat /\ T # {}
  <2>1. \A i \in I : i \in 1..n /\ n - i \in Nat
    OBVIOUS
  <2>2. T \subseteq Nat
    BY <2>1
  <2>3. PICK i \in I : TRUE
    OBVIOUS
  <2>4. n - i \in T
    OBVIOUS
  <2>5. QED
    BY <2>2, <2>4
<1>2. PICK t \in T : \A u \in T : <<u, t>> \notin OpToRel(<, Nat)
  BY <1>1, WFMin, NatLessThanWellFounded
<1>3. PICK i \in I : t = n - i
  OBVIOUS
<1>4. \A j \in I : i >= j
  <2>1. SUFFICES ASSUME NEW j \in I, j > i PROVE FALSE
    OBVIOUS
  <2>2. n - j \in T /\ n - j < t /\ n - j \in Nat /\ t \in Nat
    BY <1>3, <2>1
  <2>3. <<n - j, t>> \in OpToRel(<, Nat)
    BY <2>2 DEF OpToRel
  <2>4. QED
    BY <1>2, <2>2, <2>3
<1>5. QED
  BY <1>3, <1>4 DEF Max

\* A sealed header has the last of the values the caller gave for its name.
LEMMA MapIsLast ==
  ASSUME NEW q \in Requests, NEW m \in DOMAIN MapOf(q)
  PROVE  \E i \in DOMAIN q.secrets :
           /\ q.secrets[i][1] = m /\ MapOf(q)[m] = q.secrets[i][2]
           /\ \A j \in DOMAIN q.secrets : j > i => q.secrets[j][1] # m
<1> DEFINE I == {i \in 1..Len(q.secrets) : q.secrets[i][1] = m}
           i == SelectLastInSeq(q.secrets, LAMBDA s : s[1] = m)
<1>1. Len(q.secrets) \in Nat /\ DOMAIN q.secrets = 1..Len(q.secrets)
  BY RequestsAssumption, LenProperties
<1>2. m \in {q.secrets[j][1] : j \in DOMAIN q.secrets}
  BY DEF MapOf
<1>3. I # {}
  BY <1>1, <1>2
<1>4. i = Max(I)
  BY <1>3 DEF SelectLastInSeq
<1>5. MapOf(q)[m] = q.secrets[i][2]
  BY <1>2 DEF MapOf
<1>6. Max(I) \in I /\ \A j \in I : Max(I) >= j
  BY <1>1, <1>3, LastExists
<1> HIDE DEF i
<1>7. i \in DOMAIN q.secrets /\ q.secrets[i][1] = m
  BY <1>1, <1>4, <1>6
<1>8. \A j \in DOMAIN q.secrets : j > i => q.secrets[j][1] # m
  BY <1>1, <1>4, <1>6
<1>9. QED
  BY <1>5, <1>7, <1>8

\* The frame's own header of a name that is not reserved.
LEMMA PlainHeaders ==
  ASSUME NEW c, NEW q \in Requests, NEW n \in Names, ~Reserved(n)
  PROVE  LET h == FrameOf(c, q).headers
         IN  h[n] = IF ~IsSealed(q.op) THEN PlainOf(q)[n]
                    ELSE IF PlainOf(q)[n] # <<>> THEN <<Last(PlainOf(q)[n])>> ELSE <<>>
<1> DEFINE plain == PlainOf(q)
           inserted == [x \in Names |-> IF plain[x] # <<>> THEN <<Last(plain[x])>>
                                        ELSE IF x = EphKey THEN << <<"key", c>> >> ELSE <<>>]
           headers == IF q.secrets = <<>> THEN inserted ELSE [inserted EXCEPT ![EncHeaders] = <<BlobOf(c, q)>>]
           signed == Transcript(q.subject, c, Found(headers, RequestId), Found(headers, ClientVersion),
                                IF q.secrets = <<>> THEN Text("") ELSE BlobOf(c, q), BodyOf(c, q))
           h == [headers EXCEPT ![Signature] = << <<"mac", KeyOf(q.recipient, c), signed>> >>]
<1>1. n \notin {EphKey, EncHeaders, Signature}
  BY NamesAssumption DEF Reserved
<1>2. CASE ~IsSealed(q.op)
  <2>1. FrameOf(c, q) = [[subject |-> q.subject, headers |-> plain, body |-> Input(c)]
                           EXCEPT !.body = IF q.altered THEN Text("altered") ELSE @]
    BY <1>2 DEF FrameOf, PlainOf
  <2>2. FrameOf(c, q).headers = plain
    BY <2>1
  <2>3. QED
    BY <1>2, <2>2
<1>3. CASE IsSealed(q.op)
  <2>1. FrameOf(c, q) = [[subject |-> q.subject, body |-> BodyOf(c, q), headers |-> h]
                           EXCEPT !.body = IF q.altered THEN Text("altered") ELSE @]
    BY <1>3, ZenonT(60) DEF FrameOf, BuildForSubject, PlainOf, BlobOf, MapOf, BodyOf
  <2> HIDE DEF signed, plain
  <2>2. FrameOf(c, q).headers = h
    BY <2>1
  <2>3. h[n] = inserted[n]
    BY <1>1
  <2>4. QED
    BY <1>1, <1>3, <2>2, <2>3 DEF plain
<1>4. QED
  BY <1>2, <1>3

\* get() finds one of the values a caller or the client's defaults gave a plain name.
LEMMA PlainGiven ==
  ASSUME NEW c, NEW q \in Requests, NEW n \in Names, ~Reserved(n)
  PROVE  Found(FrameOf(c, q).headers, n) \in
           (IF q.headers[n] # <<>> THEN Range(q.headers[n])
            ELSE IF q.defaults[n] # <<>> THEN Range(q.defaults[n]) ELSE {Text("")})
<1> DEFINE h == FrameOf(c, q).headers
           s == PlainOf(q)[n]
<1>1. s = (IF q.headers[n] # <<>> THEN q.headers[n] ELSE q.defaults[n]) /\ s \in Seq(Texts)
  BY RequestsAssumption DEF PlainOf, MergeHeaders
<1>2. h[n] = IF ~IsSealed(q.op) THEN s ELSE IF s # <<>> THEN <<Last(s)>> ELSE <<>>
  BY PlainHeaders
<1> HIDE DEF h, s
<1>3. CASE s = <<>>
  <2>1. h[n] = <<>>
    BY <1>2, <1>3
  <2>2. QED
    BY <1>1, <1>3, <2>1, FoundNone DEF h
<1>4. CASE s # <<>>
  <2>1. 1 \in DOMAIN s /\ Len(s) \in DOMAIN s
    BY <1>1, <1>4, EmptySeq, LenProperties
  <2>2. s[1] \in Range(s) /\ s[Len(s)] \in Range(s)
    BY <2>1 DEF Range
  <2>3. Found(h, n) \in {s[1], s[Len(s)]}
    <3>1. CASE IsSealed(q.op)
      <4>1. h[n] = <<Last(s)>>
        BY <1>2, <1>4, <3>1
      <4>2. QED
        BY <4>1, FoundOne DEF Last
    <3>2. CASE ~IsSealed(q.op)
      BY <1>2, <1>4, <3>2 DEF Found
    <3>3. QED
      BY <3>1, <3>2
  <2>4. Found(h, n) \in Range(s)
    BY <2>2, <2>3
  <2>5. QED
    BY <1>1, <1>4, <2>4 DEF h
<1>5. QED
  BY <1>3, <1>4

\* What a handler sees of the headers of a call that has no excuse.
LEMMA HeadersGiven ==
  ASSUME NEW c, NEW q \in Requests, IsSealed(q.op) => ~Excuse(q), NEW n \in Names, ~Reserved(n),
         NEW kept \in Overlays(IF IsSealed(q.op) THEN Sealed(FrameOf(c, q)) ELSE <<>>)
  PROVE  View(FrameOf(c, q).headers, IF IsSealed(q.op) THEN Sealed(FrameOf(c, q)) ELSE <<>>, kept)[n]
           \in Given(q, n)
<1> DEFINE h == FrameOf(c, q).headers
           map == IF IsSealed(q.op) THEN Sealed(FrameOf(c, q)) ELSE <<>>
           same == {i \in DOMAIN q.secrets : Fold[q.secrets[i][1]] = Fold[n]}
           plainly == IF q.headers[n] # <<>> THEN Range(q.headers[n])
                      ELSE IF q.defaults[n] # <<>> THEN Range(q.defaults[n]) ELSE {Text("")}
<1>1. map = IF IsSealed(q.op) /\ q.secrets # <<>> THEN MapOf(q) ELSE <<>>
  <2>1. CASE IsSealed(q.op) /\ q.secrets # <<>>
    <3>1. h[EncHeaders] = <<BlobOf(c, q)>>
      BY <2>1, FrameHeaders
    <3>2. Sealed(FrameOf(c, q)) = BlobOf(c, q)[4]
      BY <3>1 DEF Sealed
    <3>3. QED
      BY <2>1, <3>2 DEF BlobOf
  <2>2. CASE IsSealed(q.op) /\ q.secrets = <<>>
    <3>1. PlainOf(q)[EncHeaders] = <<>>
      BY <2>2 DEF Excuse, PlainOf
    <3>2. h[EncHeaders] = <<>>
      BY <2>2, <3>1, FrameHeaders
    <3>3. QED
      BY <2>2, <3>2 DEF Sealed
  <2>3. QED
    BY <2>1, <2>2
<1>2. Found(h, n) \in plainly
  BY PlainGiven
<1>3. kept \subseteq DOMAIN map /\ \A x \in DOMAIN map : \E m \in kept : Fold[m] = Fold[x]
  <2>1. kept \subseteq DOMAIN map /\ \A x \in DOMAIN map : Cardinality({m \in kept : Fold[m] = Fold[x]}) = 1
    BY DEF Overlays
  <2> HIDE DEF map
  <2>2. ASSUME NEW x \in DOMAIN map PROVE \E m \in kept : Fold[m] = Fold[x]
    <3> DEFINE Spellings == {m \in kept : Fold[m] = Fold[x]}
    <3>1. Cardinality(Spellings) = 1
      BY <2>1, <2>2
    <3> HIDE DEF Spellings
    <3>2. Spellings # {}
      <4>1. Cardinality({}) = 0
        BY FS_EmptySet
      <4>2. SUFFICES ASSUME Spellings = {} PROVE FALSE
        OBVIOUS
      <4>3. QED
        BY <3>1, <4>1, <4>2
    <3>3. QED
      BY <3>2 DEF Spellings
  <2>3. QED
    BY <2>1, <2>2
<1> HIDE DEF h, map, plainly
<1>4. CASE \E m \in kept : Fold[m] = Fold[n]
  <2> DEFINE m == CHOOSE m \in kept : Fold[m] = Fold[n]
  <2>1. m \in kept /\ Fold[m] = Fold[n]
    BY <1>4
  <2> HIDE DEF m
  <2>2. IsSealed(q.op) /\ map = MapOf(q) /\ m \in DOMAIN MapOf(q)
    BY <1>1, <1>3, <2>1
  <2>3. PICK i \in DOMAIN q.secrets :
          /\ q.secrets[i][1] = m /\ MapOf(q)[m] = q.secrets[i][2]
          /\ \A j \in DOMAIN q.secrets : j > i => q.secrets[j][1] # m
    BY <2>2, MapIsLast
  <2>4. i \in same /\ MapOf(q)[m] \in Given(q, n)
    BY <2>1, <2>2, <2>3 DEF Given
  <2>5. View(h, map, kept)[n] = map[m]
    BY <1>4 DEF View, m
  <2>6. QED
    BY <2>2, <2>4, <2>5 DEF h, map
<1>5. CASE ~\E m \in kept : Fold[m] = Fold[n]
  <2>1. View(h, map, kept)[n] = Found(h, n)
    BY <1>5 DEF View
  <2>2. ~(IsSealed(q.op) /\ same # {})
    <3>1. SUFFICES ASSUME IsSealed(q.op), NEW i \in same PROVE FALSE
      OBVIOUS
    <3>2. q.secrets # <<>>
      BY <3>1
    <3>3. q.secrets[i][1] \in DOMAIN map
      BY <1>1, <3>1, <3>2 DEF MapOf
    <3>4. QED
      BY <1>3, <1>5, <3>1, <3>3
  <2>3. Given(q, n) = plainly
    BY <2>2 DEF Given, plainly
  <2>4. QED
    BY <1>2, <2>1, <2>3 DEF h, map
<1>6. QED
  BY <1>4, <1>5

\* The body it reads.
LEMMA BodyRead ==
  ASSUME NEW c, NEW q \in Requests, IsSealed(q.op) => ~Excuse(q)
  PROVE  Plaintext(FrameOf(c, q), q.op.sealPayload) = IF q.altered THEN Text("altered") ELSE Input(c)
<1>1. CASE IsSealed(q.op)
  <2>1. FrameOf(c, q).body = BodyOf(c, q) /\ ~q.altered
    BY <1>1, FrameHeaders DEF Excuse
  <2>2. CASE q.op.sealPayload
    <3>1. BodyOf(c, q)[4] = Input(c)
      BY <2>2 DEF BodyOf
    <3>2. QED
      BY <2>1, <2>2, <3>1 DEF Plaintext
  <2>3. CASE ~q.op.sealPayload
    BY <2>1, <2>3 DEF Plaintext, BodyOf
  <2>4. QED
    BY <2>2, <2>3
<1>2. CASE ~IsSealed(q.op)
  <2>1. FrameOf(c, q) = [[subject |-> q.subject, headers |-> PlainOf(q), body |-> Input(c)]
                           EXCEPT !.body = IF q.altered THEN Text("altered") ELSE @]
    BY <1>2 DEF FrameOf, PlainOf
  <2>2. FrameOf(c, q).body = IF q.altered THEN Text("altered") ELSE Input(c)
    BY <2>1
  <2>3. QED
    BY <1>2, <2>2 DEF Plaintext, IsSealed
<1>3. QED
  BY <1>1, <1>2
-----------------------------------------------------------------------------
(* The invariant, call by call.                                            *)

\* Every call has each of its slots.
SlotsInv ==
  /\ DOMAIN phase = Calls /\ DOMAIN asked = Calls /\ DOMAIN frame = Calls /\ DOMAIN route = Calls
  /\ DOMAIN seen = Calls /\ DOMAIN answer = Calls /\ DOMAIN outcome = Calls

\* How a call ends when its handler's answer is decoded.
Answered == {"value", "absent", "service", "invalid", "decrypt"}

\* A call whose handler runs was served the frame it sent; only such a call is answered, and
\* a route that does not lead to a handler leads to a refusal or to nothing.
CallInv(c) ==
  /\ phase[c] \in {"idle", "publishing", "handling", "ended"}
  /\ phase[c] # "ended" => /\ outcome[c] = Outcome("pending", None) /\ answer[c] = "none yet"
  /\ phase[c] \in {"idle", "publishing"} => route[c] = None /\ seen[c] = Unseen
  /\ phase[c] = "handling" =>
       /\ asked[c] \in Requests /\ ~Unsendable(asked[c])
       /\ route[c] # None /\ seen[c] # Unseen
       /\ frame[c] = FrameOf(c, asked[c])
       /\ IsSealed(route[c]) => Refusal(app.key, frame[c], route[c].sealPayload) = "none"
  /\ outcome[c].kind \in Answered => answer[c] # "none yet"
  /\ route[c] # None => (outcome[c].kind = "refused" <=> seen[c] = Unseen)

Refused(c) ==
  route[c] # None /\ route[c] = asked[c].op /\ IsSealed(route[c]) =>
    (outcome[c].kind = "refused" <=> Excuse(asked[c])) /\ (seen[c] = Unseen <=> Excuse(asked[c]))

Returned(c) ==
  answer[c] # "none yet" /\ route[c] = asked[c].op =>
    outcome[c] = CASE answer[c] \in {"value", "empty"} -> Outcome("value", Result(c, answer[c]))
                   [] answer[c] = "absent" -> Outcome("absent", None)
                   [] answer[c] = "error" -> Outcome("service", c)
                   [] answer[c] = "odd error" -> Outcome("invalid", None)

Inv == SlotsInv /\ \A c \in Calls : CallInv(c) /\ Refused(c) /\ Returned(c)

\* Of c everything is as it was.
Same(c) ==
  /\ phase'[c] = phase[c] /\ asked'[c] = asked[c] /\ frame'[c] = frame[c] /\ route'[c] = route[c]
  /\ seen'[c] = seen[c] /\ answer'[c] = answer[c] /\ outcome'[c] = outcome[c]

\* A call that is as it was keeps its part of the invariant.
LEMMA SameKeeps ==
  ASSUME Inv, NEW c \in Calls, Same(c), app' = app
  PROVE  CallInv(c)' /\ Refused(c)' /\ Returned(c)'
<1>1. CallInv(c) /\ Refused(c) /\ Returned(c)
  BY DEF Inv
<1>2. CallInv(c)'
  BY <1>1 DEF Same, CallInv
<1>3. Refused(c)'
  BY <1>1 DEF Same, Refused, Excuse
<1>4. Returned(c)'
  BY <1>1 DEF Same, Returned
<1>5. QED
  BY <1>2, <1>3, <1>4

\* A step that leaves the calls alone.
LEMMA QuietInv ==
  ASSUME Inv, UNCHANGED <<app, phase, asked, frame, route, seen, answer, outcome>>
  PROVE  Inv'
<1>1. \A c \in Calls : Same(c)
  BY DEF Same
<1>2. SlotsInv'
  BY DEF Inv, SlotsInv
<1>3. QED
  BY <1>1, <1>2, SameKeeps DEF Inv

\* A step of one call leaves the others alone, so its own part is what is left to show.
LEMMA OneCall ==
  ASSUME Inv, SlotsInv', NEW c \in Calls, app' = app, \A d \in Calls \ {c} : Same(d),
         CallInv(c)', Refused(c)', Returned(c)'
  PROVE  Inv'
<1>1. \A d \in Calls \ {c} : CallInv(d)' /\ Refused(d)' /\ Returned(d)'
  BY SameKeeps
<1>2. QED
  BY <1>1 DEF Inv

LEMMA OutcomeKind ==
  ASSUME NEW result, NEW kind, NEW of, result = Outcome(kind, of) PROVE result.kind = kind
BY DEF Outcome

LEMMA InitInv == Init => Inv
<1>1. SUFFICES ASSUME Init PROVE Inv
  OBVIOUS
<1>2. SlotsInv
  BY <1>1 DEF Init, SlotsInv
<1>3. ASSUME NEW c \in Calls PROVE CallInv(c) /\ Refused(c) /\ Returned(c)
  <2>1. phase[c] = "idle" /\ route[c] = None
    BY <1>1, <1>3 DEF Init
  <2>2. seen[c] = Unseen
    BY <1>1, <1>3 DEF Init
  <2>3. answer[c] = "none yet"
    BY <1>1, <1>3 DEF Init
  <2>4. outcome[c] = Outcome("pending", None)
    BY <1>1, <1>3 DEF Init
  <2>5. outcome[c].kind = "pending"
    BY <2>4 DEF Outcome
  <2>6. QED
    BY <2>1, <2>2, <2>3, <2>4, <2>5 DEF CallInv, Refused, Returned, Answered
<1>4. QED
  BY <1>2, <1>3 DEF Inv

\* What the end of a call writes.
LEMMA EndedSlots ==
  ASSUME SlotsInv, NEW c \in Calls, NEW result, Ended(c, result)
  PROVE  /\ DOMAIN phase' = Calls /\ DOMAIN outcome' = Calls
         /\ phase'[c] = "ended" /\ outcome'[c] = result
         /\ \A d \in Calls \ {c} : phase'[d] = phase[d] /\ outcome'[d] = outcome[d]
BY DEF SlotsInv, Ended

\* A call that ends before it has a route.
LEMMA EndsUnrouted ==
  ASSUME Inv, NEW c \in Calls, NEW q, Sends(c, q), NEW kind, NEW of, kind \notin Answered \cup {"refused"},
         Ended(c, Outcome(kind, of)), UNCHANGED <<frame, route, seen, answer>>
  PROVE  Inv'
<1>1. /\ DOMAIN phase' = Calls /\ DOMAIN outcome' = Calls
      /\ phase'[c] = "ended" /\ outcome'[c] = Outcome(kind, of)
      /\ \A d \in Calls \ {c} : phase'[d] = phase[d] /\ outcome'[d] = outcome[d]
  BY EndedSlots DEF Inv
<1>2. DOMAIN asked' = Calls /\ \A d \in Calls \ {c} : asked'[d] = asked[d]
  BY DEF Sends, Inv, SlotsInv
<1>3. SlotsInv'
  BY <1>1, <1>2 DEF Inv, SlotsInv
<1>4. \A d \in Calls \ {c} : Same(d)
  BY <1>1, <1>2 DEF Same
<1>5. route'[c] = None /\ answer'[c] = "none yet"
  BY DEF Sends, Inv, CallInv
<1>6. outcome'[c].kind = kind
  BY <1>1 DEF Outcome
<1>7. CallInv(c)' /\ Refused(c)' /\ Returned(c)'
  BY <1>1, <1>5, <1>6 DEF CallInv, Refused, Returned
<1>8. QED
  BY <1>3, <1>4, <1>7, OneCall DEF Sends

LEMMA UnsendableInv == ASSUME Inv, NEW c \in Calls, NEW q, SendUnsendable(c, q) PROVE Inv'
BY EndsUnrouted DEF SendUnsendable, Answered

LEMMA FaultedInv == ASSUME Inv, NEW c \in Calls, NEW q, SendFaulted(c, q) PROVE Inv'
<1>1. PICK error : Ended(c, Outcome("transport", error))
  BY DEF SendFaulted
<1>2. Sends(c, q) /\ UNCHANGED <<frame, route, seen, answer>>
  BY DEF SendFaulted
<1>3. QED
  BY <1>1, <1>2, EndsUnrouted DEF Answered

LEMMA PublishInv == ASSUME Inv, NEW c \in Calls, NEW q, SendPublish(c, q) PROVE Inv'
<1>1. /\ phase[c] = "idle" /\ app' = app /\ asked' = [asked EXCEPT ![c] = q]
      /\ phase' = [phase EXCEPT ![c] = "publishing"] /\ frame' = [frame EXCEPT ![c] = FrameOf(c, q)]
      /\ UNCHANGED <<route, seen, answer, outcome>>
  BY DEF SendPublish, Sends
<1>2. SlotsInv
  BY DEF Inv
<1>3. SlotsInv'
  BY <1>1, <1>2 DEF SlotsInv
<1>4. \A d \in Calls \ {c} : Same(d)
  BY <1>1, <1>2 DEF SlotsInv, Same
<1>5. phase'[c] = "publishing"
  BY <1>1, <1>2 DEF SlotsInv
<1>6. /\ route'[c] = None /\ seen'[c] = Unseen /\ answer'[c] = "none yet"
      /\ outcome'[c] = Outcome("pending", None) /\ outcome'[c].kind \notin Answered
  BY <1>1 DEF Inv, CallInv
<1>7. CallInv(c)' /\ Refused(c)' /\ Returned(c)'
  BY <1>5, <1>6 DEF CallInv, Refused, Returned
<1>8. QED
  BY <1>1, <1>3, <1>4, <1>7, OneCall

\* What is written when a request is dispatched.
LEMMA DispatchedSlots ==
  ASSUME Inv, NEW c \in Calls, NEW q, Dispatched(c, q)
  PROVE  /\ DOMAIN asked' = Calls /\ DOMAIN frame' = Calls /\ DOMAIN route' = Calls
         /\ asked'[c] = q /\ frame'[c] = FrameOf(c, q) /\ answer'[c] = "none yet"
         /\ \A d \in Calls \ {c} : /\ asked'[d] = asked[d] /\ frame'[d] = frame[d]
                                   /\ route'[d] = route[d] /\ answer'[d] = answer[d]
         /\ seen[c] = Unseen /\ outcome[c] = Outcome("pending", None)
         /\ DOMAIN answer' = Calls /\ app' = app /\ ~Unsendable(q)
<1>1. /\ phase[c] = "idle" /\ app' = app /\ answer' = answer /\ ~Unsendable(q)
      /\ asked' = [asked EXCEPT ![c] = q] /\ frame' = [frame EXCEPT ![c] = FrameOf(c, q)]
      /\ route' = [route EXCEPT ![c] = RouteOf(app.services, q.subject)]
  BY DEF Dispatched, Sends
<1>2. SlotsInv /\ CallInv(c)
  BY DEF Inv
<1> HIDE DEF Inv
<1>3. DOMAIN asked' = Calls /\ asked'[c] = q /\ \A d \in Calls \ {c} : asked'[d] = asked[d]
  BY <1>1, <1>2 DEF SlotsInv
<1>4. DOMAIN frame' = Calls /\ frame'[c] = FrameOf(c, q) /\ \A d \in Calls \ {c} : frame'[d] = frame[d]
  BY <1>1, <1>2 DEF SlotsInv
<1>5. DOMAIN route' = Calls /\ \A d \in Calls \ {c} : route'[d] = route[d]
  BY <1>1, <1>2 DEF SlotsInv
<1>6. seen[c] = Unseen /\ outcome[c] = Outcome("pending", None) /\ answer[c] = "none yet"
  BY <1>1, <1>2 DEF CallInv
<1>7. QED
  BY <1>1, <1>2, <1>3, <1>4, <1>5, <1>6 DEF SlotsInv

LEMMA UnmatchedInv == ASSUME Inv, NEW c \in Calls, NEW q, SendUnmatched(c, q) PROVE Inv'
<1>1. /\ Dispatched(c, q) /\ route'[c] = None /\ seen' = seen
      /\ Ended(c, Outcome("transport", "NoResponders"))
  BY DEF SendUnmatched
<1>2. /\ DOMAIN asked' = Calls /\ DOMAIN frame' = Calls /\ DOMAIN route' = Calls
      /\ answer'[c] = "none yet" /\ DOMAIN answer' = Calls /\ app' = app
      /\ \A d \in Calls \ {c} : /\ asked'[d] = asked[d] /\ frame'[d] = frame[d]
                                /\ route'[d] = route[d] /\ answer'[d] = answer[d]
  BY <1>1, DispatchedSlots
<1>3. /\ DOMAIN phase' = Calls /\ DOMAIN outcome' = Calls
      /\ phase'[c] = "ended" /\ outcome'[c] = Outcome("transport", "NoResponders")
      /\ \A d \in Calls \ {c} : phase'[d] = phase[d] /\ outcome'[d] = outcome[d]
  BY <1>1, EndedSlots DEF Inv
<1>4. SlotsInv'
  BY <1>1, <1>2, <1>3 DEF Inv, SlotsInv
<1>5. \A d \in Calls \ {c} : Same(d)
  BY <1>1, <1>2, <1>3 DEF Same
<1>6. outcome'[c].kind = "transport"
  BY <1>3 DEF Outcome
<1>7. CallInv(c)' /\ Refused(c)' /\ Returned(c)'
  BY <1>1, <1>2, <1>3, <1>6 DEF CallInv, Refused, Returned, Answered
<1>8. QED
  BY <1>2, <1>4, <1>5, <1>7, OneCall

\* A refused call had an excuse.
LEMMA RefusedInv == ASSUME Inv, NEW c \in Calls, NEW q \in Requests, SendRefused(c, q) PROVE Inv'
<1>1. PICK refusal :
        /\ refusal = Refusal(app.key, frame'[c], route'[c].sealPayload)
        /\ refusal # "none" /\ Ended(c, Outcome("refused", refusal))
  BY DEF SendRefused
<1>2. Dispatched(c, q) /\ route'[c] # None /\ IsSealed(route'[c]) /\ seen' = seen
  BY DEF SendRefused
<1>3. /\ DOMAIN asked' = Calls /\ DOMAIN frame' = Calls /\ DOMAIN route' = Calls
      /\ asked'[c] = q /\ frame'[c] = FrameOf(c, q)
      /\ answer'[c] = "none yet" /\ seen[c] = Unseen /\ DOMAIN answer' = Calls /\ app' = app
      /\ \A d \in Calls \ {c} : /\ asked'[d] = asked[d] /\ frame'[d] = frame[d]
                                /\ route'[d] = route[d] /\ answer'[d] = answer[d]
  BY <1>2, DispatchedSlots
<1>4. /\ DOMAIN phase' = Calls /\ DOMAIN outcome' = Calls
      /\ phase'[c] = "ended" /\ outcome'[c] = Outcome("refused", refusal)
      /\ \A d \in Calls \ {c} : phase'[d] = phase[d] /\ outcome'[d] = outcome[d]
  BY <1>1, EndedSlots DEF Inv
<1>5. SlotsInv'
  BY <1>2, <1>3, <1>4 DEF Inv, SlotsInv
<1>6. \A d \in Calls \ {c} : Same(d)
  BY <1>2, <1>3, <1>4 DEF Same
<1>7. outcome'[c].kind = "refused" /\ seen'[c] = Unseen
  <2>1. outcome'[c].kind = "refused"
    BY <1>4, OutcomeKind
  <2>2. QED
    BY <1>2, <1>3, <2>1
<1>8. CallInv(c)'
  BY <1>2, <1>3, <1>4, <1>7 DEF CallInv, Answered
<1>9. Refused(c)'
  <2>1. route'[c] = q.op => Excuse(q)
    <3>1. SUFFICES ASSUME route'[c] = q.op, ~Excuse(q) PROVE FALSE
      OBVIOUS
    <3>2. Refusal(app.key, FrameOf(c, q), q.op.sealPayload) = "none"
      BY <1>2, <3>1, OnlyExcusesRefuse
    <3>3. QED
      BY <1>1, <1>3, <3>1, <3>2
  <2>2. Excuse(q) => Excuse(q)'
    BY <1>3 DEF Excuse
  <2>3. QED
    BY <1>3, <1>7, <2>1, <2>2 DEF Refused
<1>10. Returned(c)'
  BY <1>3 DEF Returned
<1>11. QED
  BY <1>3, <1>5, <1>6, <1>8, <1>9, <1>10, OneCall

\* What a handler sees has headers.
LEMMA ViewSeen == ASSUME NEW h, NEW map, NEW kept, NEW body PROVE [headers |-> View(h, map, kept), body |-> body] # Unseen
<1>1. DOMAIN View(h, map, kept) = Names
  BY DEF View
<1>2. Names # {}
  BY NamesAssumption
<1>3. DOMAIN <<>> = {}
  OBVIOUS
<1>4. QED
  BY <1>1, <1>2, <1>3 DEF Unseen

\* A call that is handled had none.
LEMMA HandledInv == ASSUME Inv, NEW c \in Calls, NEW q \in Requests, SendHandled(c, q) PROVE Inv'
<1>1. /\ Dispatched(c, q) /\ route'[c] # None
      /\ IsSealed(route'[c]) => Refusal(app.key, frame'[c], route'[c].sealPayload) = "none"
      /\ phase' = [phase EXCEPT ![c] = "handling"] /\ outcome' = outcome
  BY DEF SendHandled
<1>2. PICK h, map, kept, body : seen' = [seen EXCEPT ![c] = [headers |-> View(h, map, kept), body |-> body]]
  BY ZenonT(60) DEF SendHandled
<1>3. /\ DOMAIN asked' = Calls /\ DOMAIN frame' = Calls /\ DOMAIN route' = Calls
      /\ asked'[c] = q /\ frame'[c] = FrameOf(c, q) /\ outcome[c] = Outcome("pending", None)
      /\ answer'[c] = "none yet" /\ DOMAIN answer' = Calls /\ app' = app /\ ~Unsendable(q)
      /\ \A d \in Calls \ {c} : /\ asked'[d] = asked[d] /\ frame'[d] = frame[d]
                                /\ route'[d] = route[d] /\ answer'[d] = answer[d]
  BY <1>1, DispatchedSlots
<1>4. SlotsInv
  BY DEF Inv
<1>5. /\ DOMAIN phase' = Calls /\ phase'[c] = "handling" /\ \A d \in Calls \ {c} : phase'[d] = phase[d]
  BY <1>1, <1>4 DEF SlotsInv
<1>6. DOMAIN seen' = Calls /\ seen'[c] # Unseen /\ \A d \in Calls \ {c} : seen'[d] = seen[d]
  BY <1>2, <1>4, ViewSeen DEF SlotsInv
<1>7. SlotsInv'
  BY <1>1, <1>3, <1>4, <1>5, <1>6 DEF SlotsInv
<1>8. \A d \in Calls \ {c} : Same(d)
  BY <1>1, <1>3, <1>5, <1>6 DEF Same
<1>9. outcome'[c] = Outcome("pending", None) /\ outcome'[c].kind = "pending"
  <2>1. outcome'[c] = Outcome("pending", None)
    BY <1>1, <1>3
  <2>2. QED
    BY <2>1, OutcomeKind
<1>10. CallInv(c)'
  <2>1. ~Unsendable(q)'
    BY <1>3 DEF Unsendable
  <2>2. FrameOf(c, q) = FrameOf(c, q)'
    OBVIOUS
  <2>3. QED
    BY <1>1, <1>3, <1>5, <1>6, <1>9, <2>1, <2>2 DEF CallInv, Answered
<1>11. Refused(c)'
  <2>1. route'[c] = q.op /\ IsSealed(q.op) => ~Excuse(q)
    BY <1>1, <1>3, ExcuseRefuses
  <2>2. Excuse(q) <=> Excuse(q)'
    BY <1>3 DEF Excuse
  <2>3. QED
    BY <1>3, <1>6, <1>9, <2>1, <2>2 DEF Refused
<1>12. Returned(c)'
  BY <1>3 DEF Returned
<1>13. QED
  BY <1>3, <1>7, <1>8, <1>10, <1>11, <1>12, OneCall

\* A call whose handler ran ends: what it was, what it saw and its route stay.
LEMMA HandlingEnds ==
  ASSUME Inv, NEW c \in Calls, phase[c] = "handling", NEW result, Ended(c, result),
         UNCHANGED <<app, asked, frame, route, seen>>, DOMAIN answer' = Calls,
         \A d \in Calls \ {c} : answer'[d] = answer[d],
         result.kind # "refused", result.kind \in Answered => answer'[c] # "none yet", Returned(c)'
  PROVE  Inv'
<1>1. /\ DOMAIN phase' = Calls /\ DOMAIN outcome' = Calls
      /\ phase'[c] = "ended" /\ outcome'[c] = result
      /\ \A d \in Calls \ {c} : phase'[d] = phase[d] /\ outcome'[d] = outcome[d]
  BY EndedSlots DEF Inv
<1>2. SlotsInv'
  BY <1>1 DEF Inv, SlotsInv
<1>3. \A d \in Calls \ {c} : Same(d)
  BY <1>1 DEF Same
<1>4. CallInv(c) /\ Refused(c)
  BY DEF Inv
<1>5. route[c] # None /\ seen[c] # Unseen /\ outcome[c].kind = "pending"
  <2>1. route[c] # None /\ seen[c] # Unseen /\ outcome[c] = Outcome("pending", None)
    BY <1>4 DEF CallInv
  <2>2. QED
    BY <2>1, OutcomeKind
<1>6. CallInv(c)'
  BY <1>1, <1>5 DEF CallInv
<1>7. Refused(c)'
  <2>1. Excuse(asked[c]) <=> Excuse(asked[c])'
    BY DEF Excuse
  <2>2. QED
    BY <1>1, <1>4, <1>5, <2>1 DEF Refused
<1>8. QED
  BY <1>2, <1>3, <1>6, <1>7, OneCall

\* The two ways a call ends without an answer.
LEMMA Unanswered ==
  ASSUME Inv, NEW c \in Calls, phase[c] = "handling", NEW kind, NEW of, Ended(c, Outcome(kind, of)),
         UNCHANGED <<app, asked, frame, route, seen, answer>>, kind \notin Answered \cup {"refused"}
  PROVE  Inv'
<1>1. DOMAIN answer' = Calls /\ answer'[c] = "none yet"
  BY DEF Inv, SlotsInv, CallInv
<1>2. Returned(c)'
  BY <1>1 DEF Returned
<1>3. Outcome(kind, of).kind = kind
  BY DEF Outcome
<1>4. QED
  BY <1>1, <1>2, <1>3, HandlingEnds

LEMMA TimeOutInv == ASSUME Inv, NEW c \in Calls, TimeOut(c) PROVE Inv'
<1>1. /\ phase[c] = "handling" /\ Ended(c, Outcome("transport", "Timeout"))
      /\ UNCHANGED <<app, asked, frame, route, seen, answer>>
  BY DEF TimeOut
<1>2. QED
  BY <1>1, Unanswered DEF Answered

LEMMA GoneInv == ASSUME Inv, NEW c \in Calls, Gone(c) PROVE Inv'
<1>1. /\ phase[c] = "handling" /\ Ended(c, Outcome("gone", None))
      /\ UNCHANGED <<app, asked, frame, route, seen, answer>>
  BY DEF Gone
<1>2. QED
  BY <1>1, Unanswered DEF Answered

\* A publication is recorded: it never had a route.
LEMMA RecordInv == ASSUME Inv, NEW c \in Calls, Record(c) PROVE Inv'
<1>1. /\ phase[c] = "publishing" /\ Ended(c, Outcome("published", None))
      /\ UNCHANGED <<app, asked, frame, route, seen, answer>>
  BY DEF Record
<1>2. /\ DOMAIN phase' = Calls /\ DOMAIN outcome' = Calls
      /\ phase'[c] = "ended" /\ outcome'[c] = Outcome("published", None)
      /\ \A d \in Calls \ {c} : phase'[d] = phase[d] /\ outcome'[d] = outcome[d]
  BY <1>1, EndedSlots DEF Inv
<1>3. SlotsInv'
  BY <1>1, <1>2 DEF Inv, SlotsInv
<1>4. \A d \in Calls \ {c} : Same(d)
  BY <1>1, <1>2 DEF Same
<1>5. route'[c] = None /\ answer'[c] = "none yet" /\ seen'[c] = Unseen
  BY <1>1 DEF Inv, CallInv
<1>6. outcome'[c].kind = "published"
  BY <1>2, OutcomeKind
<1>7. CallInv(c)' /\ Refused(c)' /\ Returned(c)'
  BY <1>2, <1>5, <1>6 DEF CallInv, Refused, Returned, Answered
<1>8. QED
  BY <1>1, <1>3, <1>4, <1>7, OneCall

\* The client opens what the service that read the call sealed.
LEMMA ReplyOpens ==
  ASSUME Inv, NEW c \in Calls, phase[c] = "handling", route[c] = asked[c].op, route[c].sealReply, NEW payload
  PROVE  LET reply == SealReply(app.key, Found(frame[c].headers, EphKey)[2], payload)
         IN  OpensReply(asked[c].recipient, c, reply) /\ reply[3] = payload
<1>1. /\ asked[c] \in Requests /\ frame[c] = FrameOf(c, asked[c])
      /\ IsSealed(route[c]) => Refusal(app.key, frame[c], route[c].sealPayload) = "none"
  BY DEF Inv, CallInv
<1>2. IsSealed(asked[c].op)
  BY DEF IsSealed
<1>3. Refusal(app.key, FrameOf(c, asked[c]), route[c].sealPayload) = "none"
  BY <1>1, <1>2
<1>4. app.key = asked[c].recipient /\ Found(frame[c].headers, EphKey)[2] = c
  BY <1>1, <1>2, <1>3, SignatureMeans
<1>5. QED
  BY <1>4 DEF SealReply, OpensReply

\* What the client makes of each answer of its own operation.
LEMMA DecodedMeans ==
  ASSUME Inv, NEW c \in Calls, phase[c] = "handling", NEW r \in Answers(route[c]), route[c] = asked[c].op
  PROVE  Decoded(c, asked[c], ResponseTo(c, r)) =
           CASE r \in {"value", "empty"} -> Outcome("value", Result(c, r))
             [] r = "absent" -> Outcome("absent", None)
             [] r = "error" -> Outcome("service", c)
             [] r = "odd error" -> Outcome("invalid", None)
<1> DEFINE q == asked[c]
           response == ResponseTo(c, r)
           sealed == SealReply(app.key, Found(frame[c].headers, EphKey)[2], Result(c, r))
<1>1. /\ response.failed <=> r \in {"error", "odd error"}
      /\ response.errorJson <=> r = "error"
      /\ response.present0 <=> r = "absent"
      /\ response.body = IF route[c].sealReply /\ r \notin {"error", "odd error"} THEN sealed ELSE Result(c, r)
  BY DEF ResponseTo
<1>2. /\ r \in {"value", "empty", "error", "odd error", "absent"}
      /\ r = "absent" => q.op.optional
  BY DEF Answers
<1>3. q.op.sealReply => OpensReply(q.recipient, c, sealed) /\ sealed[3] = Result(c, r)
  BY ReplyOpens
<1> HIDE DEF response, sealed
<1>4. CASE r \in {"error", "odd error"}
  BY <1>1, <1>4 DEF Decoded, response
<1>5. CASE r \in {"value", "empty", "absent"}
  <2>1. /\ ~response.failed
        /\ q.op.sealReply => OpensReply(q.recipient, c, response.body) /\ response.body[3] = Result(c, r)
        /\ ~q.op.sealReply => response.body = Result(c, r)
    BY <1>1, <1>3, <1>5
  <2>2. Decoded(c, q, response) = IF q.op.optional /\ response.present0 THEN Outcome("absent", None)
                                  ELSE Outcome("value", Result(c, r))
    BY <2>1 DEF Decoded
  <2>3. QED
    BY <1>1, <1>2, <1>5, <2>2 DEF response
<1>6. QED
  BY <1>2, <1>4, <1>5

\* A decoded response is no refusal.
LEMMA DecodedKinds ==
  ASSUME NEW c, NEW q, NEW response
  PROVE  Decoded(c, q, response).kind \in Answered
BY DEF Decoded, Outcome, Answered

LEMMA AnswerInv == ASSUME Inv, NEW c \in Calls, NEW r, Answer(c, r) PROVE Inv'
<1> DEFINE result == Decoded(c, asked[c], ResponseTo(c, r))
<1>1. /\ phase[c] = "handling" /\ r \in Answers(route[c]) /\ answer' = [answer EXCEPT ![c] = r]
      /\ Ended(c, result) /\ UNCHANGED <<app, asked, frame, route, seen>>
  BY DEF Answer
<1>2. SlotsInv
  BY DEF Inv
<1>3. DOMAIN answer' = Calls /\ answer'[c] = r /\ \A d \in Calls \ {c} : answer'[d] = answer[d]
  BY <1>1, <1>2 DEF SlotsInv
<1>4. outcome'[c] = result
  BY <1>1, <1>2, EndedSlots
<1>5. result.kind \in Answered /\ result.kind # "refused" /\ r # "none yet"
  BY <1>1, DecodedKinds DEF Answered, Answers
<1>6. Returned(c)'
  <2>1. route[c] = asked[c].op =>
          result = CASE r \in {"value", "empty"} -> Outcome("value", Result(c, r))
                     [] r = "absent" -> Outcome("absent", None)
                     [] r = "error" -> Outcome("service", c)
                     [] r = "odd error" -> Outcome("invalid", None)
    BY <1>1, DecodedMeans
  <2> HIDE DEF result
  <2>2. QED
    BY <1>1, <1>3, <1>4, <2>1 DEF Returned
<1> HIDE DEF result
<1>7. QED
  BY <1>1, <1>3, <1>5, <1>6, HandlingEnds

LEMMA SendInv == ASSUME Inv, NEW c \in Calls, NEW q \in Requests, Send(c, q) PROVE Inv'
<1>1. CASE SendUnsendable(c, q)
  BY <1>1, UnsendableInv
<1>2. CASE SendFaulted(c, q)
  BY <1>2, FaultedInv
<1>3. CASE SendPublish(c, q)
  BY <1>3, PublishInv
<1>4. CASE SendUnmatched(c, q)
  BY <1>4, UnmatchedInv
<1>5. CASE SendRefused(c, q)
  BY <1>5, RefusedInv
<1>6. CASE SendHandled(c, q)
  BY <1>6, HandledInv
<1>7. QED
  BY <1>1, <1>2, <1>3, <1>4, <1>5, <1>6 DEF Send

LEMMA NextInv == Inv /\ [Next]_vars => Inv'
<1> SUFFICES ASSUME Inv, [Next]_vars PROVE Inv'
  OBVIOUS
<1>1. CASE UNCHANGED vars
  BY <1>1, QuietInv DEF vars
<1>2. CASE Start
  BY <1>2, QuietInv DEF Start
<1>3. ASSUME NEW kind, NEW subject, NEW error, PlanFault(kind, subject, error) PROVE Inv'
  BY <1>3, QuietInv DEF PlanFault
<1>4. ASSUME NEW subject, ClearEvents(subject) PROVE Inv'
  BY <1>4, QuietInv DEF ClearEvents
<1>5. CASE ClearFaults
  BY <1>5, QuietInv DEF ClearFaults
<1>6. ASSUME NEW c \in Calls, NEW q \in Requests, Send(c, q) PROVE Inv'
  BY <1>6, SendInv
<1>7. ASSUME NEW c \in Calls, NEW r, Answer(c, r) PROVE Inv'
  BY <1>7, AnswerInv
<1>8. ASSUME NEW c \in Calls, Record(c) \/ TimeOut(c) \/ Gone(c) PROVE Inv'
  BY <1>8, RecordInv, TimeOutInv, GoneInv
<1>9. QED
  BY <1>1, <1>2, <1>3, <1>4, <1>5, <1>6, <1>7, <1>8 DEF Next

\* Every call at every moment: the frame a running handler was served is the one its
\* caller built, and what a call came to fits what it was for.
THEOREM TransportInvariant == Spec => []Inv
BY InitInv, NextInv, PTL DEF Spec

\* Of encrypted calls exactly those are refused that were sealed for another service,
\* altered after they were signed, or built with a plain header or a request id that the
\* service reads otherwise than it was signed (EncryptedRequest::prepare).
THEOREM RefusalIsExact == Spec => []RefusedOnlyForCause
<1>1. Inv => RefusedOnlyForCause
  BY DEF Inv, Refused, RefusedOnlyForCause
<1>2. QED
  BY <1>1, TransportInvariant, PTL

\* The caller gets what its own handler returned, sealed or not, and gets nothing like
\* it without an answer (client/v2.rs, send and the decoders).
THEOREM CallersGetTheAnswer == Spec => []OutcomeIsTheHandlers
<1>1. Inv => OutcomeIsTheHandlers
  BY DEF Inv, CallInv, Returned, Answered, OutcomeIsTheHandlers
<1>2. QED
  BY <1>1, TransportInvariant, PTL
-----------------------------------------------------------------------------
(* The call as its handler sees it.                                        *)

SeesTheCall(c) ==
  seen[c] # Unseen /\ route[c] = asked[c].op =>
    /\ \A n \in Names : ~Reserved(n) => seen[c].headers[n] \in Given(asked[c], n)
    /\ seen[c].body = (IF asked[c].altered THEN Text("altered") ELSE Input(c))
    /\ IsSealed(asked[c].op) => ~asked[c].altered

\* What a handler sees when it begins.
LEMMA HandledSees ==
  ASSUME Inv, NEW c \in Calls, NEW q \in Requests, SendHandled(c, q)
  PROVE  SeesTheCall(c)'
<1>1. /\ Dispatched(c, q) /\ route'[c] # None
      /\ IsSealed(route'[c]) => Refusal(app.key, frame'[c], route'[c].sealPayload) = "none"
  BY DEF SendHandled
<1>2. PICK kept \in Overlays(IF IsSealed(route'[c]) THEN Sealed(frame'[c]) ELSE <<>>) :
        seen' = [seen EXCEPT ![c] =
                   [headers |-> View(frame'[c].headers,
                                     IF IsSealed(route'[c]) THEN Sealed(frame'[c]) ELSE <<>>, kept),
                    body |-> Plaintext(frame'[c], route'[c].sealPayload)]]
  BY DEF SendHandled
<1>3. asked'[c] = q /\ frame'[c] = FrameOf(c, q) /\ app' = app
  BY <1>1, DispatchedSlots
<1>4. DOMAIN seen = Calls
  BY DEF Inv, SlotsInv
<1>5. SUFFICES ASSUME route'[c] = q.op PROVE SeesTheCall(c)'
  BY <1>3 DEF SeesTheCall
<1>6. IsSealed(q.op) => ~Excuse(q)
  BY <1>1, <1>3, <1>5, ExcuseRefuses
<1>7. seen'[c].headers = View(FrameOf(c, q).headers,
                              IF IsSealed(q.op) THEN Sealed(FrameOf(c, q)) ELSE <<>>, kept)
  BY <1>2, <1>3, <1>4, <1>5
<1>8. seen'[c].body = Plaintext(FrameOf(c, q), q.op.sealPayload)
  BY <1>2, <1>3, <1>4, <1>5
<1>9. kept \in Overlays(IF IsSealed(q.op) THEN Sealed(FrameOf(c, q)) ELSE <<>>)
  BY <1>3, <1>5
<1>10. \A n \in Names : ~Reserved(n) => seen'[c].headers[n] \in Given(q, n)
  BY <1>6, <1>7, <1>9, HeadersGiven
<1>11. seen'[c].body = IF q.altered THEN Text("altered") ELSE Input(c)
  BY <1>6, <1>8, BodyRead
<1>12. IsSealed(q.op) => ~q.altered
  BY <1>6 DEF Excuse
<1>13. QED
  BY <1>3, <1>10, <1>11, <1>12 DEF SeesTheCall

\* Apart from that step a call that was seen is the call it was.
LEMMA StaysSeen ==
  ASSUME Inv, Next, NEW c \in Calls, \A q \in Requests : ~SendHandled(c, q)
  PROVE  \/ seen'[c] = seen[c] /\ route'[c] = route[c] /\ asked'[c] = asked[c]
         \/ seen'[c] = Unseen
<1>1. ASSUME NEW d \in Calls, NEW q \in Requests, Send(d, q)
      PROVE  \/ seen'[c] = seen[c] /\ route'[c] = route[c] /\ asked'[c] = asked[c]
             \/ seen'[c] = Unseen
  <2>1. CASE d = c
    <3>1. seen' = seen /\ phase[c] = "idle"
      BY <1>1, <2>1 DEF Send, SendUnsendable, SendFaulted, SendPublish, SendUnmatched, SendRefused,
                        Dispatched, Sends
    <3>2. seen[c] = Unseen
      BY <3>1 DEF Inv, CallInv
    <3>3. QED
      BY <3>1, <3>2
  <2>2. CASE d # c
    <3>1. asked' = [asked EXCEPT ![d] = q]
      BY <1>1 DEF Send, SendUnsendable, SendFaulted, SendPublish, SendUnmatched, SendRefused,
                  SendHandled, Dispatched, Sends
    <3>2. route' = route \/ route' = [route EXCEPT ![d] = RouteOf(app.services, q.subject)]
      BY <1>1 DEF Send, SendUnsendable, SendFaulted, SendPublish, SendUnmatched, SendRefused,
                  SendHandled, Dispatched
    <3>3. seen' = seen \/ \E v : seen' = [seen EXCEPT ![d] = v]
      BY <1>1 DEF Send, SendUnsendable, SendFaulted, SendPublish, SendUnmatched, SendRefused, SendHandled
    <3>4. QED
      BY <2>2, <3>1, <3>2, <3>3 DEF Inv, SlotsInv
  <2>3. QED
    BY <2>1, <2>2
<1>2. CASE Start \/ ClearFaults
  BY <1>2 DEF Start, ClearFaults
<1>3. ASSUME NEW kind, NEW subject, NEW error, PlanFault(kind, subject, error)
      PROVE  seen' = seen /\ route' = route /\ asked' = asked
  BY <1>3 DEF PlanFault
<1>4. ASSUME NEW subject, ClearEvents(subject) PROVE seen' = seen /\ route' = route /\ asked' = asked
  BY <1>4 DEF ClearEvents
<1>5. ASSUME NEW d \in Calls, (\E r : Answer(d, r)) \/ Record(d) \/ TimeOut(d) \/ Gone(d)
      PROVE  seen' = seen /\ route' = route /\ asked' = asked
  BY <1>5 DEF Answer, Record, TimeOut, Gone
<1>6. QED
  BY <1>1, <1>2, <1>3, <1>4, <1>5 DEF Next

LEMMA SeesNext ==
  Inv /\ (\A c \in Calls : SeesTheCall(c)) /\ [Next]_vars => (\A c \in Calls : SeesTheCall(c))'
<1> SUFFICES ASSUME Inv, \A d \in Calls : SeesTheCall(d), [Next]_vars, NEW c \in Calls
             PROVE  SeesTheCall(c)'
  OBVIOUS
<1>1. CASE UNCHANGED vars
  BY <1>1 DEF vars, SeesTheCall
<1>2. ASSUME NEW q \in Requests, SendHandled(c, q) PROVE SeesTheCall(c)'
  BY <1>2, HandledSees
<1>3. CASE Next /\ \A q \in Requests : ~SendHandled(c, q)
  <2>1. \/ seen'[c] = seen[c] /\ route'[c] = route[c] /\ asked'[c] = asked[c]
        \/ seen'[c] = Unseen
    BY <1>3, StaysSeen
  <2>2. CASE seen'[c] = Unseen
    BY <2>2 DEF SeesTheCall
  <2>3. CASE seen'[c] = seen[c] /\ route'[c] = route[c] /\ asked'[c] = asked[c]
    BY <2>3 DEF SeesTheCall
  <2>4. QED
    BY <2>1, <2>2, <2>3
<1>4. QED
  BY <1>1, <1>2, <1>3

\* A handler reads the body its caller sent, and of each header that is not reserved
\* a value the caller may mean: the last one it sealed under the name in some spelling, or else
\* its own or a default one (Headers::get over the overlay and the frame).
THEOREM HandlersSeeTheirCall == Spec => []HandlerSeesTheCall
<1>1. Init => \A c \in Calls : SeesTheCall(c)
  <2>1. SUFFICES ASSUME Init, NEW c \in Calls PROVE seen[c] = Unseen
    BY DEF SeesTheCall
  <2>2. QED
    BY <2>1 DEF Init
<1>2. (\A c \in Calls : SeesTheCall(c)) => HandlerSeesTheCall
  BY DEF SeesTheCall, HandlerSeesTheCall
<1>3. QED
  BY <1>1, <1>2, SeesNext, TransportInvariant, PTL DEF Spec
-----------------------------------------------------------------------------
(* Least positions, recursion, and what patterns match.                    *)

\* Every non-empty set of numbers has a least one.
LEMMA LeastExists ==
  ASSUME NEW I \in SUBSET Nat, I # {}
  PROVE  \E i \in I : \A j \in I : i <= j
<1>1. PICK i \in I : \A j \in I : <<j, i>> \notin OpToRel(<, Nat)
  BY WFMin, NatLessThanWellFounded
<1>2. ASSUME NEW j \in I, ~(i <= j) PROVE FALSE
  <2>1. i \in Nat /\ j \in Nat /\ j < i
    BY <1>2
  <2>2. <<j, i>> \in OpToRel(<, Nat)
    BY <2>1 DEF OpToRel
  <2>3. QED
    BY <1>1, <1>2, <2>2
<1>3. QED
  BY <1>2

\* The first position of a sequence with a property is what SelectInSeq takes.
LEMMA MinIsLeast ==
  ASSUME NEW I \in SUBSET Nat, I # {}
  PROVE  Min(I) \in I /\ \A j \in I : Min(I) <= j
BY LeastExists DEF Min

\* Induction over the numbers, for a set of them.
LEMMA Inductively ==
  ASSUME NEW S, 0 \in S, \A n \in Nat : n \in S => n + 1 \in S
  PROVE  Nat \subseteq S
<1>1. SUFFICES ASSUME Nat \ S # {} PROVE FALSE
  OBVIOUS
<1>2. PICK m \in Nat \ S : \A j \in Nat \ S : m <= j
  BY <1>1, LeastExists
<1>3. m - 1 \in Nat /\ m - 1 \in S
  BY <1>2
<1>4. QED
  BY <1>2, <1>3

\* A function may be defined by recursion on its arguments.
Recurs(f, n, base, step) == f[0] = base /\ \A i \in 1..n : f[i] = step[<<i, f[i - 1]>>]

\* The recursion has a function.
LEMMA Recursively ==
  ASSUME NEW n \in Nat, NEW V, NEW base \in V, NEW step \in [(1..n) \X V -> V]
  PROVE  \E f \in [0..n -> V] : Recurs(f, n, base, step)
<1> DEFINE Up(m, f) == f[0] = base /\ \A i \in 1..m : f[i] = step[<<i, f[i - 1]>>]
           S == {m \in Nat : m <= n => \E f \in [0..m -> V] : Up(m, f)}
<1>1. 0 \in S
  <2>1. [i \in 0..0 |-> base] \in [0..0 -> V] /\ Up(0, [i \in 0..0 |-> base])
    OBVIOUS
  <2>2. QED
    BY <2>1
<1>2. ASSUME NEW m \in Nat, m \in S PROVE m + 1 \in S
  <2>1. SUFFICES ASSUME m + 1 <= n PROVE \E f \in [0..(m + 1) -> V] : Up(m + 1, f)
    OBVIOUS
  <2>2. PICK f \in [0..m -> V] : Up(m, f)
    BY <1>2, <2>1
  <2> DEFINE next == step[<<m + 1, f[m]>>]
             g == [i \in 0..(m + 1) |-> IF i = m + 1 THEN next ELSE f[i]]
  <2>3. next \in V
    BY <2>1
  <2> HIDE DEF next
  <2>4. g \in [0..(m + 1) -> V]
    BY <2>3
  <2>5. g[0] = f[0] /\ g[m + 1] = next /\ \A i \in 0..m : g[i] = f[i]
    OBVIOUS
  <2> HIDE DEF g
  <2>6. \A i \in 1..(m + 1) : g[i] = step[<<i, g[i - 1]>>]
    <3>1. ASSUME NEW i \in 1..(m + 1) PROVE g[i] = step[<<i, g[i - 1]>>]
      <4>1. CASE i = m + 1
        <5>1. g[i - 1] = f[m]
          BY <2>5, <4>1
        <5>2. QED
          BY <2>5, <4>1, <5>1 DEF next
      <4>2. CASE i # m + 1
        <5>1. i \in 1..m /\ i - 1 \in 0..m
          BY <4>2
        <5>2. QED
          BY <2>2, <2>5, <5>1
      <4>3. QED
        BY <4>1, <4>2
    <3>2. QED
      BY <3>1
  <2>7. QED
    BY <2>2, <2>4, <2>5, <2>6
<1>3. n \in S
  <2> HIDE DEF S
  <2>1. QED
    BY <1>1, <1>2, Inductively
<1>4. PICK f \in [0..n -> V] : Up(n, f)
  BY <1>3
<1>5. QED
  BY <1>4 DEF Recurs

\* subject_matches stops where its loop first does not go on.
LEMMA StopIsFirst ==
  ASSUME NEW pattern, NEW subject \in Seq(STRING)
  PROVE  LET goesOn(i) == /\ i \in DOMAIN pattern /\ i \in DOMAIN subject
                          /\ pattern[i] # ">" /\ pattern[i] \in {"*", subject[i]}
             s == Stop(pattern, subject)
         IN  s \in 1..(Len(subject) + 1) /\ ~goesOn(s) /\ \A j \in 1..(s - 1) : goesOn(j)
<1> DEFINE goesOn(i) == /\ i \in DOMAIN pattern /\ i \in DOMAIN subject
                        /\ pattern[i] # ">" /\ pattern[i] \in {"*", subject[i]}
           I == {i \in 1..(Len(subject) + 1) : ~goesOn(i)}
<1>1. Len(subject) \in Nat /\ DOMAIN subject = 1..Len(subject)
  BY LenProperties
<1>2. Len(subject) + 1 \in I
  BY <1>1
<1>3. I \subseteq Nat
  BY <1>1
<1>4. PICK i \in I : \A j \in I : i <= j
  BY <1>2, <1>3, LeastExists
<1>5. \A j \in 1..(i - 1) : goesOn(j)
  <2>1. ASSUME NEW j \in 1..(i - 1), ~goesOn(j) PROVE FALSE
    <3>1. j \in I
      BY <1>1, <1>4, <2>1
    <3>2. QED
      BY <1>1, <1>4, <2>1, <3>1
  <2>2. QED
    BY <2>1
<1>6. i \in 1..(Len(subject) + 1) /\ ~goesOn(i)
  BY <1>4
<1> HIDE DEF I
<1>7. Stop(pattern, subject) = CHOOSE k \in 1..(Len(subject) + 1) : ~goesOn(k) /\ \A j \in 1..(k - 1) : goesOn(j)
  BY DEF Stop
<1> HIDE DEF goesOn
<1>8. LET s == Stop(pattern, subject)
      IN  s \in 1..(Len(subject) + 1) /\ ~goesOn(s) /\ \A j \in 1..(s - 1) : goesOn(j)
  BY <1>5, <1>6, <1>7
<1>9. QED
  BY <1>8 DEF goesOn

\* The loop computes what patterns mean.
LEMMA MatchesMeans ==
  ASSUME NEW pattern \in Patterns, NEW subject \in Seq(STRING)
  PROVE  Matches(pattern, subject) <=> Means(pattern, subject)
<1> DEFINE s == Stop(pattern, subject)
           P == Len(pattern)
           N == Len(subject)
<1>0. pattern \in Seq(STRING)
  BY DEF Patterns
<1>1. /\ P \in Nat /\ DOMAIN pattern = 1..P
      /\ N \in Nat /\ DOMAIN subject = 1..N
  BY <1>0, LenProperties
<1>9. \A i \in 1..P : pattern[i] = ">" => i = P
  BY <1>0, <1>1 DEF Patterns
<1>2. /\ s \in 1..(N + 1)
      /\ ~(s \in 1..P /\ s \in 1..N /\ pattern[s] # ">" /\ pattern[s] \in {"*", subject[s]})
      /\ \A j \in 1..(s - 1) : /\ j \in 1..P /\ j \in 1..N
                               /\ pattern[j] # ">" /\ pattern[j] \in {"*", subject[j]}
  BY <1>1, StopIsFirst
<1>3. Matches(pattern, subject) <=> IF s \in 1..P /\ s \in 1..N THEN pattern[s] = ">" /\ s = P ELSE s > P /\ s > N
  BY <1>1 DEF Matches
<1>4. pattern # <<>> <=> P > 0
  BY <1>0, <1>1, EmptySeq
<1>5. Means(pattern, subject) <=>
        \/ P = N /\ \A i \in 1..P : pattern[i] \in {"*", subject[i]}
        \/ /\ P > 0 /\ pattern[P] = ">" /\ N >= P
           /\ \A i \in 1..(P - 1) : pattern[i] \in {"*", subject[i]}
  BY <1>1, <1>4 DEF Means, Last
<1> HIDE DEF s, P, N
<1>6. ASSUME Matches(pattern, subject) PROVE Means(pattern, subject)
  BY <1>1, <1>2, <1>3, <1>5, <1>9, <1>6
<1>7. ASSUME Means(pattern, subject) PROVE Matches(pattern, subject)
  <2>1. CASE s \in 1..P /\ s \in 1..N
    BY <1>1, <1>2, <1>3, <1>5, <1>9, <1>7, <2>1
  <2>2. CASE ~(s \in 1..P /\ s \in 1..N)
    BY <1>1, <1>2, <1>3, <1>5, <1>9, <1>7, <2>2
  <2>3. QED
    BY <2>1, <2>2
<1>8. QED
  BY <1>6, <1>7
-----------------------------------------------------------------------------
(* Dispatch.                                                               *)

\* dispatch_local finds the first request of a service that takes the subject.
LEMMA DispatchLocalFirst ==
  ASSUME NEW service, service.operations \in Seq(Operations), NEW subject
  PROVE  LET ops == service.operations
             d == DispatchLocal(service, subject)
         IN  /\ d = None => \A j \in DOMAIN ops : ~Takes(ops[j], subject)
             /\ d # None => \E j \in DOMAIN ops : /\ d = ops[j] /\ Takes(ops[j], subject)
                                                 /\ \A k \in 1..(j - 1) : ~Takes(ops[k], subject)
<1> DEFINE ops == service.operations
           I == {i \in 1..Len(ops) : Takes(ops[i], subject)}
<1>1. Len(ops) \in Nat /\ DOMAIN ops = 1..Len(ops) /\ \A i \in 1..Len(ops) : ops[i] # None
  <2>1. Len(ops) \in Nat /\ DOMAIN ops = 1..Len(ops)
    BY LenProperties
  <2>2. \A i \in 1..Len(ops) : ops[i] # None
    BY ElementOfSeq, ApplicationsAssumption
  <2>3. QED
    BY <2>1, <2>2
<1>2. DispatchLocal(service, subject) = LET i == IF I # {} THEN Min(I) ELSE 0
                                        IN  IF i = 0 THEN None ELSE ops[i]
  BY DEF DispatchLocal, SelectInSeq
<1>3. CASE I = {}
  <2>1. DispatchLocal(service, subject) = None
    BY <1>2, <1>3
  <2>2. QED
    BY <1>1, <1>3, <2>1
<1>4. CASE I # {}
  <2> DEFINE m == Min(I)
  <2>1. m \in I /\ \A j \in I : m <= j
    <3>1. I \in SUBSET Nat
      BY <1>1
    <3> HIDE DEF I
    <3>2. QED
      BY <1>4, <3>1, MinIsLeast
  <2>2. DispatchLocal(service, subject) = ops[m]
    BY <1>1, <1>2, <1>4, <2>1
  <2> HIDE DEF m
  <2>3. m \in DOMAIN ops /\ Takes(ops[m], subject) /\ \A k \in 1..(m - 1) : ~Takes(ops[k], subject)
    BY <1>1, <2>1
  <2>4. QED
    BY <1>1, <2>2, <2>3
<1>5. QED
  BY <1>3, <1>4

\* What a test may serve.
Services == [operations : Seq(Operations), consumers : Seq(STRING \X STRING)]

\* The fields of what is served.
LEMMA ServiceFields ==
  ASSUME NEW services \in Seq(Services), NEW i \in 1..Len(services)
  PROVE  services[i].operations \in Seq(Operations) /\ services[i].consumers \in Seq(STRING \X STRING)
<1>1. services[i] \in Services
  BY ElementOfSeq
<1> DEFINE O == Seq(Operations)
           D == Seq(STRING \X STRING)
<1>2. services[i] \in [operations : O, consumers : D]
  BY <1>1 DEF Services
<1> HIDE DEF O, D
<1>3. services[i].operations \in O /\ services[i].consumers \in D
  BY <1>2
<1>4. QED
  BY <1>3 DEF O, D

\* dispatch finds the first request of the first service that has one for the subject.
LEMMA RouteIsFirst ==
  ASSUME NEW services \in Seq(Services), NEW subject
  PROVE  LET r == RouteOf(services, subject)
             takes(i, j) == Takes(services[i].operations[j], subject)
         IN  /\ r = None => \A i \in DOMAIN services : \A j \in DOMAIN services[i].operations : ~takes(i, j)
             /\ r # None => \E i \in DOMAIN services : \E j \in DOMAIN services[i].operations :
                              /\ r = services[i].operations[j] /\ takes(i, j)
                              /\ \A k \in 1..(j - 1) : ~takes(i, k)
                              /\ \A h \in 1..(i - 1) : \A k \in DOMAIN services[h].operations : ~takes(h, k)
<1> DEFINE I == {i \in 1..Len(services) : DispatchLocal(services[i], subject) # None}
<1>1. Len(services) \in Nat /\ DOMAIN services = 1..Len(services)
  BY LenProperties
<1>2. \A i \in 1..Len(services) : services[i].operations \in Seq(Operations)
  BY ServiceFields
<1>3. RouteOf(services, subject) = LET i == IF I # {} THEN Min(I) ELSE 0
                                   IN  IF i = 0 THEN None ELSE DispatchLocal(services[i], subject)
  BY DEF RouteOf, SelectInSeq
<1>4. ASSUME NEW i \in 1..Len(services), i \notin I
      PROVE  \A j \in DOMAIN services[i].operations : ~Takes(services[i].operations[j], subject)
  <2>1. DispatchLocal(services[i], subject) = None
    BY <1>4
  <2>2. QED
    BY <1>2, <2>1, DispatchLocalFirst
<1>5. CASE I = {}
  <2>1. RouteOf(services, subject) = None
    BY <1>3, <1>5
  <2>2. QED
    BY <1>1, <1>4, <1>5, <2>1
<1>6. CASE I # {}
  <2> DEFINE m == Min(I)
  <2>1. m \in I /\ \A j \in I : m <= j
    <3>1. I \in SUBSET Nat
      BY <1>1
    <3> HIDE DEF I
    <3>2. QED
      BY <1>6, <3>1, MinIsLeast
  <2>2. RouteOf(services, subject) = DispatchLocal(services[m], subject)
    BY <1>1, <1>3, <1>6, <2>1
  <2> HIDE DEF m
  <2>3. m \in DOMAIN services /\ DispatchLocal(services[m], subject) # None
    BY <1>1, <2>1
  <2>4. \A h \in 1..(m - 1) : h \in 1..Len(services) /\ h \notin I
    BY <1>1, <2>1
  <2>5. \A h \in 1..(m - 1) : \A k \in DOMAIN services[h].operations : ~Takes(services[h].operations[k], subject)
    <3> HIDE DEF I
    <3> QED BY <1>4, <2>4
  <2>6. PICK j \in DOMAIN services[m].operations :
          /\ DispatchLocal(services[m], subject) = services[m].operations[j]
          /\ Takes(services[m].operations[j], subject)
          /\ \A k \in 1..(j - 1) : ~Takes(services[m].operations[k], subject)
    BY <1>1, <1>2, <2>3, DispatchLocalFirst
  <2>7. QED
    BY <2>2, <2>3, <2>5, <2>6
<1>7. QED
  BY <1>5, <1>6
-----------------------------------------------------------------------------
(* Validation.                                                             *)

\* The entries of the first k rows, and that no two are the same.
Entries(rows, k) == UNION {Range(rows[i]) : i \in 1..k}
Distinct(rows, k) ==
  \A i \in 1..k : \A j \in DOMAIN rows[i] :
    /\ \A h \in 1..(i - 1) : \A l \in DOMAIN rows[h] : rows[h][l] # rows[i][j]
    /\ \A l \in DOMAIN rows[i] : l < j => rows[i][l] # rows[i][j]
\* What the loop of AllFresh asks of a row.
Fresh(taken, entries) ==
  /\ \A i \in DOMAIN entries : entries[i] \notin taken
  /\ \A i, j \in DOMAIN entries : i < j => entries[i] # entries[j]

\* A row more: nothing in it was there before, nor occurs twice in it.
LEMMA FreshNext ==
  ASSUME NEW rows, NEW k \in Nat
  PROVE  /\ Distinct(rows, k + 1) <=> Distinct(rows, k) /\ Fresh(Entries(rows, k), rows[k + 1])
         /\ Entries(rows, k + 1) = Entries(rows, k) \cup Range(rows[k + 1])
<1>1. 1..(k + 1) = (1..k) \cup {k + 1}
  OBVIOUS
<1>2. Entries(rows, k + 1) = Entries(rows, k) \cup Range(rows[k + 1])
  BY <1>1 DEF Entries
<1>3. (\A j \in DOMAIN rows[k + 1] : rows[k + 1][j] \notin Entries(rows, k))
        <=> \A j \in DOMAIN rows[k + 1] : \A h \in 1..k : \A l \in DOMAIN rows[h] : rows[h][l] # rows[k + 1][j]
  BY DEF Entries, Range
<1>4. Distinct(rows, k + 1) <=>
        /\ Distinct(rows, k)
        /\ \A j \in DOMAIN rows[k + 1] :
             /\ \A h \in 1..((k + 1) - 1) : \A l \in DOMAIN rows[h] : rows[h][l] # rows[k + 1][j]
             /\ \A l \in DOMAIN rows[k + 1] : l < j => rows[k + 1][l] # rows[k + 1][j]
  BY <1>1 DEF Distinct
<1>5. (k + 1) - 1 = k
  OBVIOUS
<1>6. QED
  BY <1>2, <1>3, <1>4, <1>5 DEF Fresh

\* What the loop holds after a row more.
Taken(rows, i, v) == [ok |-> v.ok /\ Fresh(v.taken, rows[i]), taken |-> v.taken \cup Range(rows[i])]

\* What the loop holds after each row.
LEMMA LoopRuns ==
  ASSUME NEW rows, NEW n \in Nat, Len(rows) = n
  PROVE  \E f \in [0..n -> [ok : BOOLEAN, taken : SUBSET Entries(rows, n)]] :
           /\ f[0] = [ok |-> TRUE, taken |-> {}]
           /\ \A i \in 1..n : f[i] = Taken(rows, i, f[i - 1])
           /\ AllFresh(rows) = f[n].ok
<1> DEFINE V == [ok : BOOLEAN, taken : SUBSET Entries(rows, n)]
           base == [ok |-> TRUE, taken |-> {}]
           step == [x \in (1..n) \X V |-> Taken(rows, x[1], x[2])]
           IsRun(f) == f = [i \in 0..n |-> IF i = 0 THEN base ELSE Taken(rows, i, f[i - 1])]
           after == CHOOSE f : IsRun(f)
<1>2. base \in V
  OBVIOUS
<1>3. step \in [(1..n) \X V -> V]
  <2>1. ASSUME NEW i \in 1..n, NEW v \in V PROVE Taken(rows, i, v) \in V
    <3>1. v.taken \subseteq Entries(rows, n)
      OBVIOUS
    <3>2. Range(rows[i]) \subseteq Entries(rows, n)
      BY DEF Entries
    <3>3. (v.ok /\ Fresh(v.taken, rows[i])) \in BOOLEAN
      OBVIOUS
    <3>4. v.taken \cup Range(rows[i]) \in SUBSET Entries(rows, n)
      BY <3>1, <3>2
    <3>5. QED
      BY <3>3, <3>4 DEF Taken
  <2> HIDE DEF V
  <2>2. QED
    BY <2>1
<1>4. PICK f \in [0..n -> V] : Recurs(f, n, base, step)
  <2> HIDE DEF V, base, step
  <2>1. QED
    BY <1>2, <1>3, Recursively
<1> HIDE DEF V
<1>5. \A i \in 1..n : f[i] = Taken(rows, i, f[i - 1])
  <2>1. ASSUME NEW i \in 1..n PROVE f[i] = Taken(rows, i, f[i - 1])
    <3>1. f[i - 1] \in V
      BY <1>4
    <3>2. f[i] = step[<<i, f[i - 1]>>]
      BY <1>4 DEF Recurs
    <3>3. QED
      BY <3>1, <3>2
  <2>2. QED
    BY <2>1
<1> HIDE DEF base
<1>6. IsRun(f)
  BY <1>4, <1>5 DEF Recurs
<1>7. ASSUME NEW g, IsRun(g) PROVE g[0] = base /\ \A i \in 1..n : g[i] = Taken(rows, i, g[i - 1])
  BY <1>7
<1>8. IsRun(after)
  <2> HIDE DEF IsRun
  <2>1. QED
    BY <1>6
<1>9. after[0] = base /\ \A i \in 1..n : after[i] = Taken(rows, i, after[i - 1])
  <2> HIDE DEF IsRun, after
  <2>1. QED
    BY <1>7, <1>8
<1>10. AllFresh(rows) = after[n].ok
  BY DEF AllFresh, base, Taken, Fresh
<1>11. after \in [0..n -> V]
  <2> HIDE DEF after, step
  <2> DEFINE R == {k \in Nat : k <= n => after[k] = f[k]}
  <2>1. 0 \in R
    BY <1>4, <1>9 DEF Recurs
  <2>2. ASSUME NEW k \in Nat, k \in R PROVE k + 1 \in R
    BY <1>5, <1>9, <2>2
  <2>3. Nat \subseteq R
    <3> HIDE DEF R
    <3>1. QED
      BY <2>1, <2>2, Inductively
  <2>4. \A k \in 0..n : after[k] = f[k]
    BY <2>3
  <2>5. DOMAIN after = 0..n /\ after = [i \in 0..n |-> after[i]]
    <3> HIDE DEF R
    <3>1. \A g : IsRun(g) => DOMAIN g = 0..n /\ g = [i \in 0..n |-> g[i]]
      OBVIOUS
    <3> HIDE DEF IsRun
    <3>2. QED
      BY <1>8, <3>1
  <2>6. QED
    BY <2>4, <2>5
<1>12. QED
  <2> HIDE DEF after, IsRun, step
  <2>1. QED
    BY <1>9, <1>10, <1>11 DEF base, V

\* The loop accepts rows in which nothing occurs twice, and no others.
LEMMA FreshIsDistinct ==
  ASSUME NEW rows, NEW n \in Nat, Len(rows) = n
  PROVE  AllFresh(rows) <=> Distinct(rows, n)
<1>1. PICK after \in [0..n -> [ok : BOOLEAN, taken : SUBSET Entries(rows, n)]] :
        /\ after[0] = [ok |-> TRUE, taken |-> {}]
        /\ \A i \in 1..n : after[i] = Taken(rows, i, after[i - 1])
        /\ AllFresh(rows) = after[n].ok
  BY LoopRuns
<1> DEFINE Reached(k) == (after[k].ok <=> Distinct(rows, k)) /\ after[k].taken = Entries(rows, k)
           R == {k \in Nat : k <= n => Reached(k)}
<1>2. 0 \in R
  <2>1. Distinct(rows, 0) /\ Entries(rows, 0) = {}
    BY DEF Distinct, Entries
  <2>2. after[0].ok /\ after[0].taken = {}
    BY <1>1
  <2>3. QED
    BY <2>1, <2>2
<1>3. ASSUME NEW k \in Nat, k \in R PROVE k + 1 \in R
  <2>1. SUFFICES ASSUME k + 1 <= n PROVE Reached(k + 1)
    OBVIOUS
  <2>2. Reached(k)
    BY <1>3, <2>1
  <2>3. k + 1 \in 1..n /\ (k + 1) - 1 = k
    BY <2>1
  <2>4. after[k + 1] = Taken(rows, k + 1, after[k])
    BY <1>1, <2>3
  <2>5. /\ after[k + 1].ok <=> after[k].ok /\ Fresh(after[k].taken, rows[k + 1])
        /\ after[k + 1].taken = after[k].taken \cup Range(rows[k + 1])
    <3> DEFINE ok == after[k].ok /\ Fresh(after[k].taken, rows[k + 1])
    <3>1. ok \in BOOLEAN
      OBVIOUS
    <3>2. after[k + 1] = [ok |-> ok, taken |-> after[k].taken \cup Range(rows[k + 1])]
      BY <2>4 DEF Taken
    <3> HIDE DEF ok
    <3>3. (after[k + 1].ok <=> ok) /\ after[k + 1].taken = after[k].taken \cup Range(rows[k + 1])
      BY <3>1, <3>2
    <3>4. QED
      BY <3>3 DEF ok
  <2>6. /\ Distinct(rows, k + 1) <=> Distinct(rows, k) /\ Fresh(Entries(rows, k), rows[k + 1])
        /\ Entries(rows, k + 1) = Entries(rows, k) \cup Range(rows[k + 1])
    BY FreshNext
  <2>7. QED
    BY <2>2, <2>5, <2>6
<1>4. n \in R
  <2>1. Nat \subseteq R
    <3> HIDE DEF R
    <3>1. QED
      BY <1>2, <1>3, Inductively
  <2>2. QED
    BY <2>1
<1>5. QED
  BY <1>1, <1>4

\* Nothing occurs twice if no two places hold the same.
UniqueIn(rows, places) == \A p, r \in places : p # r => rows[p[1]][p[2]] # rows[r[1]][r[2]]
PlacesIn(rows, n) == UNION {{i} \X DOMAIN rows[i] : i \in 1..n}

\* Row by row or place by place, it is the same.
LEMMA DistinctIsUnique ==
  ASSUME NEW n \in Nat, NEW rows, \A i \in 1..n : \E m \in Nat : DOMAIN rows[i] = 1..m
  PROVE  Distinct(rows, n) <=> UniqueIn(rows, PlacesIn(rows, n))
<1> DEFINE places == UNION {{i} \X DOMAIN rows[i] : i \in 1..n}
           Unique == \A p, r \in places : p # r => rows[p[1]][p[2]] # rows[r[1]][r[2]]
<1>1. \A i \in 1..n : \A j \in DOMAIN rows[i] : j \in Nat
  <2>1. SUFFICES ASSUME NEW i \in 1..n, NEW j \in DOMAIN rows[i] PROVE j \in Nat
    OBVIOUS
  <2>2. PICK m \in Nat : DOMAIN rows[i] = 1..m
    OBVIOUS
  <2>3. QED
    BY <2>2
<1>2. ASSUME NEW i \in 1..n, NEW j \in DOMAIN rows[i] PROVE <<i, j>> \in places
  <2>1. <<i, j>> \in {i} \X DOMAIN rows[i]
    BY <1>2
  <2>2. QED
    BY <2>1
<1>3. ASSUME NEW p \in places PROVE p[1] \in 1..n /\ p[2] \in DOMAIN rows[p[1]] /\ p = <<p[1], p[2]>>
  <2>1. PICK i \in 1..n : p \in {i} \X DOMAIN rows[i]
    BY <1>3
  <2>2. QED
    BY <2>1
<1> HIDE DEF places
<1>4. ASSUME Distinct(rows, n) PROVE Unique
  <2>1. SUFFICES ASSUME NEW p \in places, NEW r \in places, p # r, rows[p[1]][p[2]] = rows[r[1]][r[2]] PROVE FALSE
    OBVIOUS
  <2>2. /\ p[1] \in 1..n /\ p[2] \in DOMAIN rows[p[1]] /\ p[2] \in Nat
        /\ r[1] \in 1..n /\ r[2] \in DOMAIN rows[r[1]] /\ r[2] \in Nat
        /\ p[1] # r[1] \/ p[2] # r[2]
    BY <1>1, <1>3, <2>1
  <2>8. /\ \A h \in 1..(r[1] - 1) : \A l \in DOMAIN rows[h] : rows[h][l] # rows[r[1]][r[2]]
        /\ \A h \in 1..(p[1] - 1) : \A l \in DOMAIN rows[h] : rows[h][l] # rows[p[1]][p[2]]
    BY <1>4, <2>2 DEF Distinct
  <2>3. CASE p[1] < r[1]
    <3>1. p[1] \in 1..(r[1] - 1)
      BY <2>2, <2>3
    <3>2. QED
      BY <2>1, <2>2, <2>8, <3>1
  <2>4. CASE r[1] < p[1]
    <3>1. r[1] \in 1..(p[1] - 1)
      BY <2>2, <2>4
    <3>2. QED
      BY <2>1, <2>2, <2>8, <3>1
  <2>5. CASE p[1] = r[1] /\ p[2] < r[2]
    BY <1>4, <2>1, <2>2, <2>5 DEF Distinct
  <2>6. CASE p[1] = r[1] /\ r[2] < p[2]
    BY <1>4, <2>1, <2>2, <2>6 DEF Distinct
  <2>7. QED
    BY <2>2, <2>3, <2>4, <2>5, <2>6
<1>5. ASSUME Unique PROVE Distinct(rows, n)
  <2>1. SUFFICES ASSUME NEW i \in 1..n, NEW j \in DOMAIN rows[i]
                 PROVE  /\ \A h \in 1..(i - 1) : \A l \in DOMAIN rows[h] : rows[h][l] # rows[i][j]
                        /\ \A l \in DOMAIN rows[i] : l < j => rows[i][l] # rows[i][j]
    BY DEF Distinct
  <2>2. ASSUME NEW h \in 1..(i - 1), NEW l \in DOMAIN rows[h] PROVE rows[h][l] # rows[i][j]
    <3>1. <<h, l>> \in places /\ <<i, j>> \in places /\ <<h, l>> # <<i, j>>
      BY <1>2, <2>1, <2>2
    <3>2. QED
      BY <1>5, <3>1
  <2>3. ASSUME NEW l \in DOMAIN rows[i], l < j PROVE rows[i][l] # rows[i][j]
    <3>1. <<i, l>> \in places /\ <<i, j>> \in places /\ <<i, l>> # <<i, j>>
      BY <1>1, <1>2, <2>1, <2>3
    <3>2. QED
      BY <1>5, <3>1
  <2>4. QED
    BY <2>2, <2>3
<1>6. QED
  BY <1>4, <1>5 DEF places, UniqueIn, PlacesIn

\* A function on 1..n has length n.
LEMMA RowsLen == ASSUME NEW n \in Nat, NEW rows, rows = [i \in 1..n |-> rows[i]] PROVE Len(rows) = n
<1> DEFINE S == {rows[i] : i \in 1..n}
<1>1. rows \in [1..n -> S]
  OBVIOUS
<1>2. rows \in Seq(S)
  BY <1>1
<1>3. Len(rows) \in Nat /\ DOMAIN rows = 1..Len(rows)
  BY <1>2, LenProperties
<1>4. 1..n = 1..Len(rows)
  BY <1>1, <1>3
<1>5. QED
  BY <1>3, <1>4

\* The places of the application, and what RoutesExact asks of them.
Operation(p) == app.services[p[1]].operations[p[2]]
Places == UNION {{i} \X DOMAIN app.services[i].operations : i \in DOMAIN app.services}
Consumer(p) == app.services[p[1]].consumers[p[2]]
Durables == UNION {{i} \X DOMAIN app.services[i].consumers : i \in DOMAIN app.services}
Unique ==
  /\ \A p, r \in Places : p # r => Operation(p).pattern # Operation(r).pattern
  /\ \A p, r \in Durables : p # r => Consumer(p)[2] # Consumer(r)[2]
Declared == \A p \in Durables : Consumer(p)[1] \in app.streams
Keyed == app.key = None => \A p \in Places : ~IsSealed(Operation(p))

\* What is served, by ApplicationsAssumption.
LEMMA AppServices == ASSUME app \in Applications PROVE app.services \in Seq(Services)
BY ApplicationsAssumption DEF Services

\* The places are pairs of a service and an operation of it.
LEMMA InPlaces ==
  /\ \A p \in Places : /\ p[1] \in DOMAIN app.services /\ p[2] \in DOMAIN app.services[p[1]].operations
                       /\ p = <<p[1], p[2]>>
  /\ \A i \in DOMAIN app.services : \A j \in DOMAIN app.services[i].operations : <<i, j>> \in Places
<1>1. ASSUME NEW p \in Places
      PROVE  p[1] \in DOMAIN app.services /\ p[2] \in DOMAIN app.services[p[1]].operations /\ p = <<p[1], p[2]>>
  <2>1. PICK i \in DOMAIN app.services : p \in {i} \X DOMAIN app.services[i].operations
    BY <1>1 DEF Places
  <2>2. QED
    BY <2>1
<1>2. ASSUME NEW i \in DOMAIN app.services, NEW j \in DOMAIN app.services[i].operations PROVE <<i, j>> \in Places
  <2>1. <<i, j>> \in {i} \X DOMAIN app.services[i].operations
    BY <1>2
  <2>2. QED
    BY <2>1 DEF Places
<1>3. QED
  BY <1>1, <1>2

\* So are those of the consumers.
LEMMA InDurables ==
  /\ \A p \in Durables : /\ p[1] \in DOMAIN app.services /\ p[2] \in DOMAIN app.services[p[1]].consumers
                         /\ p = <<p[1], p[2]>>
  /\ \A i \in DOMAIN app.services : \A j \in DOMAIN app.services[i].consumers : <<i, j>> \in Durables
<1>1. ASSUME NEW p \in Durables
      PROVE  p[1] \in DOMAIN app.services /\ p[2] \in DOMAIN app.services[p[1]].consumers /\ p = <<p[1], p[2]>>
  <2>1. PICK i \in DOMAIN app.services : p \in {i} \X DOMAIN app.services[i].consumers
    BY <1>1 DEF Durables
  <2>2. QED
    BY <2>1
<1>2. ASSUME NEW i \in DOMAIN app.services, NEW j \in DOMAIN app.services[i].consumers PROVE <<i, j>> \in Durables
  <2>1. <<i, j>> \in {i} \X DOMAIN app.services[i].consumers
    BY <1>2
  <2>2. QED
    BY <2>1 DEF Durables
<1>3. QED
  BY <1>1, <1>2

\* The validator and the simulator accept what is unique and declared, and nothing else:
\* two consumers of one name are two entries for the simulator wherever they are.
LEMMA StartableIsUnique ==
  ASSUME app \in Applications
  PROVE  Validated(app.services) /\ Registered(app.services, app.streams) <=> Unique /\ Declared
<1> DEFINE services == app.services
           n == Len(services)
           S == SubjectRows(services)
           C == ConsumerRows(services)
           D == DurableRows(services)
<1>1. services \in Seq(Services) /\ n \in Nat /\ DOMAIN services = 1..n
  BY AppServices, LenProperties
<1>2. Len(S) = n /\ Len(C) = n /\ Len(D) = n
  <2>1. S = [i \in 1..n |-> S[i]] /\ C = [i \in 1..n |-> C[i]] /\ D = [i \in 1..n |-> D[i]]
    BY DEF SubjectRows, ConsumerRows, DurableRows
  <2> HIDE DEF S, C, D, n
  <2>2. QED
    BY <1>1, <2>1, RowsLen
<1>3. ASSUME NEW i \in 1..n
      PROVE  /\ DOMAIN S[i] = DOMAIN services[i].operations
             /\ \A j \in DOMAIN services[i].operations : S[i][j] = services[i].operations[j].pattern
             /\ C[i] = services[i].consumers
             /\ DOMAIN D[i] = DOMAIN services[i].consumers
             /\ \A j \in DOMAIN services[i].consumers : D[i][j] = services[i].consumers[j][2]
             /\ \E m \in Nat : DOMAIN S[i] = 1..m
             /\ \E m \in Nat : DOMAIN C[i] = 1..m
             /\ \E m \in Nat : DOMAIN D[i] = 1..m
  <2>1. services[i].operations \in Seq(Operations) /\ services[i].consumers \in Seq(STRING \X STRING)
    BY <1>1, ServiceFields
  <2>2. /\ Len(services[i].operations) \in Nat /\ DOMAIN services[i].operations = 1..Len(services[i].operations)
        /\ Len(services[i].consumers) \in Nat /\ DOMAIN services[i].consumers = 1..Len(services[i].consumers)
    BY <2>1, LenProperties
  <2>3. /\ DOMAIN S[i] = DOMAIN services[i].operations
        /\ \A j \in DOMAIN services[i].operations : S[i][j] = services[i].operations[j].pattern
        /\ C[i] = services[i].consumers
        /\ DOMAIN D[i] = DOMAIN services[i].consumers
        /\ \A j \in DOMAIN services[i].consumers : D[i][j] = services[i].consumers[j][2]
    BY <1>3 DEF SubjectRows, ConsumerRows, DurableRows
  <2> HIDE DEF S, C, D, services
  <2>4. QED
    BY <2>2, <2>3
<1>4. /\ Validated(services) <=> Distinct(S, n) /\ Distinct(C, n)
      /\ Registered(services, app.streams) <=>
           /\ \A i \in 1..n : \A j \in DOMAIN services[i].consumers : services[i].consumers[j][1] \in app.streams
           /\ Distinct(D, n)
  <2>1. AllFresh(S) <=> Distinct(S, n)
    BY <1>1, <1>2, FreshIsDistinct
  <2>2. AllFresh(C) <=> Distinct(C, n)
    BY <1>1, <1>2, FreshIsDistinct
  <2>3. AllFresh(D) <=> Distinct(D, n)
    BY <1>1, <1>2, FreshIsDistinct
  <2>4. Validated(services) <=> AllFresh(S) /\ AllFresh(C)
    BY DEF Validated
  <2>5. Registered(services, app.streams) <=>
          /\ \A i \in DOMAIN services : \A j \in DOMAIN services[i].consumers : services[i].consumers[j][1] \in app.streams
          /\ AllFresh(D)
    BY DEF Registered
  <2> HIDE DEF S, C, D, n, services
  <2>6. QED
    BY <1>1, <2>1, <2>2, <2>3, <2>4, <2>5
<1> HIDE DEF S, C, D, n
<1>5. PlacesIn(S, n) = Places /\ PlacesIn(C, n) = Durables /\ PlacesIn(D, n) = Durables
  <2>1. \A i \in 1..n : {i} \X DOMAIN S[i] = {i} \X DOMAIN services[i].operations
    BY <1>3
  <2>2. \A i \in 1..n : {i} \X DOMAIN C[i] = {i} \X DOMAIN services[i].consumers
    BY <1>3
  <2>3. \A i \in 1..n : {i} \X DOMAIN D[i] = {i} \X DOMAIN services[i].consumers
    BY <1>3
  <2>4. PlacesIn(S, n) = Places
    BY <1>1, <2>1 DEF Places, PlacesIn
  <2>5. PlacesIn(C, n) = Durables
    BY <1>1, <2>2 DEF Durables, PlacesIn
  <2>6. PlacesIn(D, n) = Durables
    BY <1>1, <2>3 DEF Durables, PlacesIn
  <2>7. QED
    BY <2>4, <2>5, <2>6
<1>6. /\ Distinct(S, n) <=> \A p, r \in Places : p # r => S[p[1]][p[2]] # S[r[1]][r[2]]
      /\ Distinct(C, n) <=> \A p, r \in Durables : p # r => C[p[1]][p[2]] # C[r[1]][r[2]]
      /\ Distinct(D, n) <=> \A p, r \in Durables : p # r => D[p[1]][p[2]] # D[r[1]][r[2]]
  <2>1. /\ \A i \in 1..n : \E m \in Nat : DOMAIN S[i] = 1..m
        /\ \A i \in 1..n : \E m \in Nat : DOMAIN C[i] = 1..m
        /\ \A i \in 1..n : \E m \in Nat : DOMAIN D[i] = 1..m
    BY <1>3
  <2>2. Distinct(S, n) <=> UniqueIn(S, PlacesIn(S, n))
    BY <1>1, <2>1, DistinctIsUnique
  <2>3. Distinct(C, n) <=> UniqueIn(C, PlacesIn(C, n))
    BY <1>1, <2>1, DistinctIsUnique
  <2>4. Distinct(D, n) <=> UniqueIn(D, PlacesIn(D, n))
    BY <1>1, <2>1, DistinctIsUnique
  <2>5. QED
    BY <1>5, <2>2, <2>3, <2>4 DEF UniqueIn
<1>7. \A p \in Places : S[p[1]][p[2]] = Operation(p).pattern
  BY <1>1, <1>3, InPlaces DEF Operation
<1>8. \A p \in Durables : C[p[1]][p[2]] = Consumer(p) /\ D[p[1]][p[2]] = Consumer(p)[2]
  BY <1>1, <1>3, InDurables DEF Consumer
<1>9. (\A i \in 1..n : \A j \in DOMAIN services[i].consumers : services[i].consumers[j][1] \in app.streams) <=> Declared
  <2>1. ASSUME NEW i \in 1..n, NEW j \in DOMAIN services[i].consumers, Declared
        PROVE  services[i].consumers[j][1] \in app.streams
    <3>1. <<i, j>> \in Durables /\ Consumer(<<i, j>>) = services[i].consumers[j]
      BY <1>1, <2>1, InDurables DEF Consumer
    <3>2. QED
      BY <2>1, <3>1 DEF Declared
  <2>2. ASSUME \A i \in 1..n : \A j \in DOMAIN services[i].consumers : services[i].consumers[j][1] \in app.streams
        PROVE  Declared
    BY <1>1, <2>2, InDurables DEF Declared, Consumer
  <2>3. QED
    BY <2>1, <2>2
<1>10. Distinct(S, n) <=> \A p, r \in Places : p # r => Operation(p).pattern # Operation(r).pattern
  BY <1>6, <1>7
<1>11. Distinct(D, n) <=> \A p, r \in Durables : p # r => Consumer(p)[2] # Consumer(r)[2]
  BY <1>6, <1>8
<1>12. Distinct(D, n) => Distinct(C, n)
  BY <1>6, <1>8
<1>13. QED
  BY <1>4, <1>9, <1>10, <1>11, <1>12 DEF Unique
-----------------------------------------------------------------------------
(* A call, its route and its failures.                                     *)

\* What of a call its route and its failures depend on.
Kept(c) ==
  /\ phase'[c] = phase[c] /\ asked'[c] = asked[c] /\ route'[c] = route[c] /\ seen'[c] = seen[c]
  /\ answer'[c] = answer[c] /\ outcome'[c] = outcome[c]

\* The steps of a call.
ActsFor(c) ==
  \/ \E q \in Requests : Send(c, q)
  \/ \E r : Answer(c, r)
  \/ Record(c) \/ TimeOut(c) \/ Gone(c)

\* A call acts for itself.
LEMMA OthersKept ==
  ASSUME Inv, NEW c \in Calls, ActsFor(c)
  PROVE  app' = app /\ \A d \in Calls \ {c} : Kept(d)
<1>1. SlotsInv
  BY DEF Inv
<1>2. app' = app
  BY DEF ActsFor, Send, SendUnsendable, SendFaulted, SendPublish, SendUnmatched, SendRefused,
         SendHandled, Dispatched, Sends, Answer, Record, TimeOut, Gone
<1>3. asked' = asked \/ \E v : asked' = [asked EXCEPT ![c] = v]
  BY DEF ActsFor, Send, SendUnsendable, SendFaulted, SendPublish, SendUnmatched, SendRefused,
         SendHandled, Dispatched, Sends, Answer, Record, TimeOut, Gone
<1>4. route' = route \/ \E v : route' = [route EXCEPT ![c] = v]
  BY DEF ActsFor, Send, SendUnsendable, SendFaulted, SendPublish, SendUnmatched, SendRefused,
         SendHandled, Dispatched, Answer, Record, TimeOut, Gone
<1>5. seen' = seen \/ \E v : seen' = [seen EXCEPT ![c] = v]
  BY DEF ActsFor, Send, SendUnsendable, SendFaulted, SendPublish, SendUnmatched, SendRefused,
         SendHandled, Answer, Record, TimeOut, Gone
<1>6. answer' = answer \/ \E v : answer' = [answer EXCEPT ![c] = v]
  BY DEF ActsFor, Send, SendUnsendable, SendFaulted, SendPublish, SendUnmatched, SendRefused,
         SendHandled, Dispatched, Answer, Record, TimeOut, Gone
<1>7. phase' = phase \/ \E v : phase' = [phase EXCEPT ![c] = v]
  BY DEF ActsFor, Send, SendUnsendable, SendFaulted, SendPublish, SendUnmatched, SendRefused,
         SendHandled, Ended, Answer, Record, TimeOut, Gone
<1>8. outcome' = outcome \/ \E v : outcome' = [outcome EXCEPT ![c] = v]
  BY DEF ActsFor, Send, SendUnsendable, SendFaulted, SendPublish, SendUnmatched, SendRefused,
         SendHandled, Ended, Answer, Record, TimeOut, Gone
<1>9. QED
  BY <1>1, <1>2, <1>3, <1>4, <1>5, <1>6, <1>7, <1>8 DEF SlotsInv, Kept

\* The steps, by whom they concern: startup, the test, or one call.
LEMMA StepsOfCalls ==
  ASSUME [Next]_vars
  PROVE  \/ UNCHANGED vars \/ Start \/ ClearFaults
         \/ \E subject \in FaultSubjects : \/ \E error \in RequestFaults : PlanFault("request", subject, error)
                                          \/ \E error \in PublishFaults : PlanFault("publish", subject, error)
                                          \/ ClearEvents(subject)
         \/ \E c \in Calls : ActsFor(c)
BY DEF Next, ActsFor

\* The errors that may be planned for an operation, the calls that got a fault or are logged.
FaultsOf(kind) == IF kind = "request" THEN RequestFaults ELSE PublishFaults
IsHit(c) == \E h \in hits : h[2] = c
Published(c) == \E e \in events : e.by = c

\* A call's route is the one there is; it fails in the transport by a fault that was planned
\* for it, before anything else, or by its own timeout, or because there is no route.
Own(c) ==
  /\ phase[c] # "idle" => asked[c] \in Requests
  /\ route[c] # None => route[c] = RouteOf(app.services, asked[c].subject)
  /\ outcome[c].kind = "transport" /\ ~IsHit(c) =>
       \/ outcome[c] = Outcome("transport", "Timeout") /\ asked[c].timed /\ seen[c] # Unseen
       \/ /\ outcome[c] = Outcome("transport", "NoResponders") /\ asked[c].op.kind = "request"
          /\ RouteOf(app.services, asked[c].subject) = None
  /\ IsHit(c) => /\ phase[c] = "ended" /\ outcome[c].kind = "transport"
                  /\ outcome[c].of \in FaultsOf(asked[c].op.kind)
                  /\ route[c] = None /\ answer[c] = "none yet"
  /\ Published(c) => phase[c] = "ended" /\ outcome[c].kind = "published"

\* The faults there may be, the ids of those to come and of those that struck.
Faults == [operation : Kinds, subject : FaultSubjects, error : RequestFaults \cup PublishFaults, id : Nat]
Waiting == {f.id : f \in Range(plan)}
Struck == {h[1] : h \in hits}

\* The books of the plan: a fault is to come, has struck or was cleared, and nothing else;
\* it struck one call, before the faults behind it for the same operation and subject.
PlanInv ==
  /\ planned \in Nat
  /\ plan \in Seq(Faults)
  /\ \A i \in DOMAIN plan : plan[i].id \in 1..planned /\ plan[i].error \in FaultsOf(plan[i].operation)
  /\ \A i, j \in DOMAIN plan : i < j => plan[i].id < plan[j].id
  /\ \A h \in hits : h[1] \in 1..planned /\ h[2] \in Calls /\ h = <<h[1], h[2]>>
  /\ 1..planned = Waiting \cup Struck \cup dropped
  /\ Waiting \cap Struck = {} /\ Waiting \cap dropped = {} /\ Struck \cap dropped = {}
  /\ \A h, g \in hits : h[1] = g[1] => h = g
  /\ \A h \in hits : \A i \in DOMAIN plan :
       plan[i].operation = asked[h[2]].op.kind /\ plan[i].subject = asked[h[2]].subject => plan[i].id > h[1]

\* Startup has decided by what is unique, what is declared and what has a key.
StartInv ==
  /\ app \in Applications
  /\ harness = "started" => Unique /\ Declared /\ Keyed
  /\ harness = "refused" => ~(Unique /\ Declared /\ Keyed)

\* A call that nothing happens to.
LEMMA OwnKept ==
  ASSUME NEW d \in Calls, Own(d), Kept(d), app' = app, IsHit(d)' <=> IsHit(d), Published(d)' => Published(d)
  PROVE  Own(d)'
BY DEF Own, Kept

\* What the end of a call leaves.
LEMMA OwnEnded ==
  ASSUME Inv, NEW c \in Calls, NEW kind, NEW of, Ended(c, Outcome(kind, of))
  PROVE  phase'[c] = "ended" /\ outcome'[c] = Outcome(kind, of) /\ outcome'[c].kind = kind /\ outcome'[c].of = of
<1>1. phase'[c] = "ended" /\ outcome'[c] = Outcome(kind, of)
  BY EndedSlots DEF Inv
<1>2. QED
  BY <1>1 DEF Outcome

\* A call that is sent was idle.
LEMMA IdleBefore ==
  ASSUME Inv, NEW c \in Calls, Own(c), NEW q, Sends(c, q)
  PROVE  /\ ~IsHit(c) /\ ~Published(c) /\ route[c] = None /\ answer[c] = "none yet" /\ seen[c] = Unseen
         /\ outcome[c] = Outcome("pending", None) /\ outcome[c].kind = "pending" /\ asked'[c] = q /\ app' = app
<1>1. phase[c] = "idle" /\ asked' = [asked EXCEPT ![c] = q] /\ app' = app
  BY DEF Sends
<1>2. ~IsHit(c) /\ ~Published(c)
  BY <1>1 DEF Own
<1>3. route[c] = None /\ answer[c] = "none yet" /\ seen[c] = Unseen /\ outcome[c] = Outcome("pending", None)
  BY <1>1 DEF Inv, CallInv
<1>4. outcome[c].kind = "pending"
  BY <1>3, OutcomeKind
<1>5. asked'[c] = q
  BY <1>1 DEF Inv, SlotsInv
<1>6. QED
  BY <1>1, <1>2, <1>3, <1>4, <1>5

\* One lemma per step of the call.
LEMMA OwnUnsendable ==
  ASSUME Inv, NEW c \in Calls, Own(c), NEW q \in Requests, SendUnsendable(c, q) PROVE Own(c)'
<1>1. Sends(c, q) /\ Ended(c, Outcome("serialize", None)) /\ UNCHANGED <<route, seen, answer, events, hits>>
  BY DEF SendUnsendable, fate
<1>2. /\ ~IsHit(c) /\ ~Published(c) /\ route[c] = None /\ asked'[c] = q
  BY <1>1, IdleBefore
<1>3. phase'[c] = "ended" /\ outcome'[c].kind = "serialize"
  BY <1>1, OwnEnded
<1>4. ~IsHit(c)' /\ ~Published(c)' /\ route'[c] = None
  BY <1>1, <1>2 DEF IsHit, Published
<1>5. QED
  BY <1>2, <1>3, <1>4 DEF Own

\* The fault that strikes.
LEMMA FirstDue ==
  ASSUME PlanInv, NEW q, Due(q) # {}
  PROVE  LET i == CHOOSE i \in Due(q) : \A j \in Due(q) : i <= j
         IN  i \in Due(q) /\ \A j \in Due(q) : i <= j
<1>1. Due(q) \in SUBSET Nat
  BY LenProperties DEF Due, PlanInv
<1>2. \E i \in Due(q) : \A j \in Due(q) : i <= j
  BY <1>1, LeastExists
<1>3. QED
  BY <1>2

\* A call gets the first fault that is due.
LEMMA OwnFaulted ==
  ASSUME Inv, PlanInv, NEW c \in Calls, Own(c), NEW q \in Requests, SendFaulted(c, q) PROVE Own(c)'
<1>1. PICK i \in Due(q) : hits' = hits \cup {<<plan[i].id, c>>} /\ Ended(c, Outcome("transport", plan[i].error))
  BY FirstDue DEF SendFaulted
<1>2. Sends(c, q) /\ UNCHANGED <<route, seen, answer, events>>
  BY DEF SendFaulted
<1>3. ~IsHit(c) /\ ~Published(c) /\ route[c] = None /\ asked'[c] = q /\ answer[c] = "none yet"
  BY <1>2, IdleBefore
<1>4. phase'[c] = "ended" /\ outcome'[c].kind = "transport" /\ outcome'[c].of = plan[i].error
  BY <1>1, OwnEnded
<1>5. plan[i].error \in FaultsOf(q.op.kind)
  BY <1>1 DEF Due, PlanInv
<1>6. IsHit(c)' /\ ~Published(c)'
  <2>1. <<plan[i].id, c>> \in hits' /\ <<plan[i].id, c>>[2] = c
    BY <1>1
  <2>2. IsHit(c)'
    BY <2>1 DEF IsHit
  <2>3. ~Published(c)'
    BY <1>2, <1>3 DEF Published
  <2>4. QED
    BY <2>2, <2>3
<1>7. QED
  BY <1>2, <1>3, <1>4, <1>5, <1>6 DEF Own, FaultsOf

\* A publication goes on to the log.
LEMMA OwnPublish ==
  ASSUME Inv, NEW c \in Calls, Own(c), NEW q \in Requests, SendPublish(c, q) PROVE Own(c)'
<1>1. Sends(c, q) /\ UNCHANGED <<route, outcome, events, hits>>
  BY DEF SendPublish, fate
<1>2. /\ ~IsHit(c) /\ ~Published(c) /\ route[c] = None /\ asked'[c] = q /\ outcome[c].kind = "pending"
  BY <1>1, IdleBefore
<1>3. ~IsHit(c)' /\ ~Published(c)' /\ route'[c] = None
  BY <1>1, <1>2 DEF IsHit, Published
<1>4. QED
  BY <1>1, <1>2, <1>3 DEF Own

\* Where a request that is dispatched goes.
LEMMA OwnDispatched ==
  ASSUME Inv, NEW c \in Calls, Own(c), NEW q \in Requests, Dispatched(c, q)
  PROVE  /\ ~IsHit(c)' /\ ~Published(c)' /\ asked'[c] = q /\ q.op.kind = "request" /\ app' = app
         /\ route'[c] = RouteOf(app.services, q.subject)
<1>1. Sends(c, q) /\ route' = [route EXCEPT ![c] = RouteOf(app.services, q.subject)]
      /\ q.op.kind = "request" /\ UNCHANGED <<events, hits>>
  BY DEF Dispatched, fate
<1>2. ~IsHit(c) /\ ~Published(c) /\ asked'[c] = q /\ app' = app
  BY <1>1, IdleBefore
<1>3. ~IsHit(c)' /\ ~Published(c)'
  BY <1>1, <1>2 DEF IsHit, Published
<1>4. route'[c] = RouteOf(app.services, q.subject)
  BY <1>1 DEF Inv, SlotsInv
<1>5. QED
  BY <1>1, <1>2, <1>3, <1>4

\* A request that is dispatched, by what becomes of it.
LEMMA OwnRequested ==
  ASSUME Inv, NEW c \in Calls, Own(c), NEW q \in Requests,
         SendUnmatched(c, q) \/ SendRefused(c, q) \/ SendHandled(c, q)
  PROVE  Own(c)'
<1>1. Dispatched(c, q)
  BY DEF SendUnmatched, SendRefused, SendHandled
<1>2. /\ ~IsHit(c)' /\ ~Published(c)' /\ asked'[c] = q /\ q.op.kind = "request" /\ app' = app
      /\ route'[c] = RouteOf(app.services, q.subject)
  BY <1>1, OwnDispatched
<1>3. \/ outcome'[c] = Outcome("transport", "NoResponders") /\ route'[c] = None
      \/ outcome'[c].kind # "transport"
  <2>1. CASE SendUnmatched(c, q)
    <3>1. Ended(c, Outcome("transport", "NoResponders")) /\ route'[c] = None
      BY <2>1 DEF SendUnmatched
    <3>2. QED
      BY <3>1, OwnEnded
  <2>2. CASE SendRefused(c, q)
    <3>1. PICK refusal : Ended(c, Outcome("refused", refusal))
      BY <2>2 DEF SendRefused
    <3>2. outcome'[c].kind = "refused"
      BY <3>1, OwnEnded
    <3>3. QED
      BY <3>2
  <2>3. CASE SendHandled(c, q)
    <3>1. outcome' = outcome /\ Sends(c, q)
      BY <2>3 DEF SendHandled, Dispatched
    <3>2. QED
      BY <3>1, IdleBefore
  <2>4. QED
    BY <2>1, <2>2, <2>3
<1>4. QED
  BY <1>2, <1>3 DEF Own

\* The steps of a call that was sent.
LEMMA OwnEnds ==
  ASSUME Inv, NEW c \in Calls, Own(c), NEW result, Ended(c, result), phase[c] \in {"publishing", "handling"},
         UNCHANGED <<app, asked, route, seen, hits>>,
         result.kind = "transport" => result = Outcome("transport", "Timeout") /\ asked[c].timed /\ seen[c] # Unseen,
         Published(c)' => Published(c) \/ result.kind = "published"
  PROVE  Own(c)'
<1>1. phase'[c] = "ended" /\ outcome'[c] = result
  BY EndedSlots DEF Inv
<1>2. ~IsHit(c) /\ ~Published(c)
  BY DEF Own
<1>3. ~IsHit(c)'
  BY <1>2 DEF IsHit
<1>4. QED
  BY <1>1, <1>2, <1>3 DEF Own

\* The steps that end a call.
LEMMA OwnAnswer ==
  ASSUME Inv, NEW c \in Calls, Own(c), NEW r, Answer(c, r) PROVE Own(c)'
<1> DEFINE result == Decoded(c, asked[c], ResponseTo(c, r))
<1>1. phase[c] = "handling" /\ Ended(c, result) /\ UNCHANGED <<app, asked, route, seen, hits, events>>
  BY DEF Answer, fate
<1>2. result.kind # "transport"
  BY DecodedKinds DEF Answered
<1>3. Published(c)' => Published(c)
  BY <1>1 DEF Published
<1> HIDE DEF result
<1>4. QED
  BY <1>1, <1>2, <1>3, OwnEnds

LEMMA OwnTimeOut == ASSUME Inv, NEW c \in Calls, Own(c), TimeOut(c) PROVE Own(c)'
<1>1. /\ phase[c] = "handling" /\ asked[c].timed /\ Ended(c, Outcome("transport", "Timeout"))
      /\ UNCHANGED <<app, asked, route, seen, hits, events>>
  BY DEF TimeOut, fate
<1>2. seen[c] # Unseen
  BY <1>1 DEF Inv, CallInv
<1>3. Published(c)' => Published(c)
  BY <1>1 DEF Published
<1>4. QED
  BY <1>1, <1>2, <1>3, OwnEnds

LEMMA OwnGone == ASSUME Inv, NEW c \in Calls, Own(c), Gone(c) PROVE Own(c)'
<1>1. /\ phase[c] = "handling" /\ Ended(c, Outcome("gone", None))
      /\ UNCHANGED <<app, asked, route, seen, hits, events>>
  BY DEF Gone, fate
<1>2. Outcome("gone", None).kind = "gone"
  BY DEF Outcome
<1>3. Published(c)' => Published(c)
  BY <1>1 DEF Published
<1>4. QED
  BY <1>1, <1>2, <1>3, OwnEnds

LEMMA OwnRecord == ASSUME Inv, NEW c \in Calls, Own(c), Record(c) PROVE Own(c)'
<1>1. /\ phase[c] = "publishing" /\ Ended(c, Outcome("published", None))
      /\ UNCHANGED <<app, asked, route, seen, hits>>
  BY DEF Record, fate
<1>2. Outcome("published", None).kind = "published"
  BY DEF Outcome
<1>3. QED
  BY <1>1, <1>2, OwnEnds

\* What the log and the hits say of the calls that do not act.
LEMMA OthersMarks ==
  ASSUME Inv, PlanInv, NEW c \in Calls, ActsFor(c), NEW d \in Calls, d # c
  PROVE  (IsHit(d)' <=> IsHit(d)) /\ (Published(d)' => Published(d))
<1>1. hits' = hits \/ \E x : hits' = hits \cup {<<x, c>>}
  BY DEF ActsFor, Send, SendUnsendable, SendFaulted, SendPublish, SendUnmatched, SendRefused,
         SendHandled, Dispatched, Answer, Record, TimeOut, Gone, fate
<1>2. events' = events \/ \E s, f : events' = events \cup {[subject |-> s, by |-> c, sent |-> f]}
  BY DEF ActsFor, Send, SendUnsendable, SendFaulted, SendPublish, SendUnmatched, SendRefused,
         SendHandled, Dispatched, Answer, Record, TimeOut, Gone
<1>3. IsHit(d)' <=> IsHit(d)
  BY <1>1 DEF IsHit
<1>4. Published(d)' => Published(d)
  BY <1>2 DEF Published
<1>5. QED
  BY <1>3, <1>4

\* A call after a step of some call.
LEMMA OwnActs ==
  ASSUME Inv, PlanInv, \A d \in Calls : Own(d), NEW c \in Calls, ActsFor(c)
  PROVE  \A d \in Calls : Own(d)'
<1>1. Own(c)'
  <2>1. CASE \E q \in Requests : Send(c, q)
    BY <2>1, OwnUnsendable, OwnFaulted, OwnPublish, OwnRequested DEF Send
  <2>2. CASE \E r : Answer(c, r)
    BY <2>2, OwnAnswer
  <2>3. CASE Record(c) \/ TimeOut(c) \/ Gone(c)
    BY <2>3, OwnRecord, OwnTimeOut, OwnGone
  <2>4. QED
    BY <2>1, <2>2, <2>3 DEF ActsFor
<1>2. ASSUME NEW d \in Calls, d # c PROVE Own(d)'
  BY <1>2, OthersKept, OthersMarks, OwnKept
<1>3. QED
  BY <1>1, <1>2

\* A step of the test or of the startup.
LEMMA OwnQuiet ==
  ASSUME \A d \in Calls : Own(d), UNCHANGED <<app, phase, asked, route, seen, answer, outcome, hits>>,
         events' \subseteq events
  PROVE  \A d \in Calls : Own(d)'
<1>1. SUFFICES ASSUME NEW d \in Calls PROVE Own(d)'
  OBVIOUS
<1>2. Kept(d)
  BY DEF Kept
<1>3. (IsHit(d)' <=> IsHit(d)) /\ (Published(d)' => Published(d))
  BY DEF IsHit, Published
<1>4. QED
  BY <1>2, <1>3, OwnKept

\* A call after any step.
LEMMA OwnNext ==
  ASSUME Inv, PlanInv, \A d \in Calls : Own(d), [Next]_vars
  PROVE  \A d \in Calls : Own(d)'
<1>1. CASE UNCHANGED vars
  BY <1>1, OwnQuiet DEF vars, fate
<1>2. CASE Start \/ ClearFaults
  BY <1>2, OwnQuiet DEF Start, ClearFaults, fate
<1>3. ASSUME NEW kind, NEW subject, NEW error, PlanFault(kind, subject, error) PROVE \A d \in Calls : Own(d)'
  BY <1>3, OwnQuiet DEF PlanFault
<1>4. ASSUME NEW subject, ClearEvents(subject) PROVE \A d \in Calls : Own(d)'
  BY <1>4, OwnQuiet DEF ClearEvents, fate
<1>5. ASSUME NEW c \in Calls, ActsFor(c) PROVE \A d \in Calls : Own(d)'
  BY <1>5, OwnActs
<1>6. QED
  BY <1>1, <1>2, <1>3, <1>4, <1>5, StepsOfCalls
-----------------------------------------------------------------------------
(* The plan.                                                               *)

\* A sequence without its i-th element.
LEMMA RemovedAt ==
  ASSUME NEW S, NEW s \in Seq(S), NEW i \in 1..Len(s)
  PROVE  /\ RemoveAt(s, i) \in Seq(S) /\ Len(RemoveAt(s, i)) = Len(s) - 1
         /\ \A j \in 1..(Len(s) - 1) : RemoveAt(s, i)[j] = IF j < i THEN s[j] ELSE s[j + 1]
<1> DEFINE before == SubSeq(s, 1, i - 1)
           after == SubSeq(s, i + 1, Len(s))
<1>1. Len(s) \in Nat /\ i \in Nat /\ i >= 1 /\ i <= Len(s) /\ \A j \in 1..Len(s) : s[j] \in S
  BY LenProperties, ElementOfSeq
<1>2. before \in Seq(S) /\ Len(before) = i - 1 /\ \A j \in 1..(i - 1) : before[j] = s[j]
  <2>1. \A j \in 1..(i - 1) : s[j] \in S
    BY <1>1
  <2>2. before \in Seq(S) /\ Len(before) = (IF 1 <= i - 1 THEN (i - 1) - 1 + 1 ELSE 0)
        /\ \A j \in 1..((i - 1) - 1 + 1) : before[j] = s[1 + j - 1]
    BY <1>1, <2>1, SubSeqProperties
  <2> HIDE DEF before
  <2>3. QED
    BY <1>1, <2>2
<1>3. after \in Seq(S) /\ Len(after) = Len(s) - i /\ \A j \in 1..(Len(s) - i) : after[j] = s[i + j]
  <2>1. \A j \in (i + 1)..Len(s) : s[j] \in S
    BY <1>1
  <2>2. after \in Seq(S) /\ Len(after) = (IF i + 1 <= Len(s) THEN Len(s) - (i + 1) + 1 ELSE 0)
        /\ \A j \in 1..(Len(s) - (i + 1) + 1) : after[j] = s[(i + 1) + j - 1]
    BY <1>1, <2>1, SubSeqProperties
  <2> HIDE DEF after
  <2>3. QED
    BY <1>1, <2>2
<1>4. RemoveAt(s, i) = before \o after
  BY DEF RemoveAt
<1> HIDE DEF before, after
<1>5. /\ before \o after \in Seq(S) /\ Len(before \o after) = Len(before) + Len(after)
      /\ \A j \in 1..(Len(before) + Len(after)) :
           (before \o after)[j] = IF j <= Len(before) THEN before[j] ELSE after[j - Len(before)]
  BY <1>2, <1>3, ConcatProperties
<1>6. ASSUME NEW j \in 1..(Len(s) - 1) PROVE RemoveAt(s, i)[j] = IF j < i THEN s[j] ELSE s[j + 1]
  <2>1. RemoveAt(s, i)[j] = IF j <= i - 1 THEN before[j] ELSE after[j - (i - 1)]
    BY <1>1, <1>2, <1>3, <1>4, <1>5, <1>6
  <2>2. CASE j < i
    BY <1>1, <1>2, <1>6, <2>1, <2>2
  <2>3. CASE ~(j < i)
    <3>1. j - (i - 1) \in 1..(Len(s) - i) /\ i + (j - (i - 1)) = j + 1 /\ ~(j <= i - 1)
      BY <1>1, <1>6, <2>3
    <3>2. after[j - (i - 1)] = s[i + (j - (i - 1))]
      BY <1>3, <3>1
    <3>3. QED
      BY <2>1, <2>3, <3>1, <3>2
  <2>4. QED
    BY <2>2, <2>3
<1>7. RemoveAt(s, i) \in Seq(S) /\ Len(RemoveAt(s, i)) = Len(s) - 1
  BY <1>1, <1>2, <1>3, <1>4, <1>5
<1>8. QED
  BY <1>6, <1>7

\* The plan's books are left alone.
LEMMA PlanUnmoved ==
  ASSUME PlanInv, UNCHANGED <<plan, fate>>, \A h \in hits : asked'[h[2]] = asked[h[2]]
  PROVE  PlanInv'
<1>1. plan' = plan /\ hits' = hits /\ dropped' = dropped /\ planned' = planned
  BY DEF fate
<1>2. Waiting' = Waiting /\ Struck' = Struck
  BY <1>1 DEF Waiting, Struck
<1>3. \A h \in hits : \A i \in DOMAIN plan :
        plan[i].operation = asked'[h[2]].op.kind /\ plan[i].subject = asked'[h[2]].subject => plan[i].id > h[1]
  BY DEF PlanInv
<1>4. QED
  BY <1>1, <1>2, <1>3, ZenonT(30) DEF PlanInv

\* A fault is planned.
LEMMA PlanPlanned ==
  ASSUME PlanInv, NEW kind \in Kinds, NEW subject \in FaultSubjects, NEW error \in FaultsOf(kind),
         PlanFault(kind, subject, error)
  PROVE  PlanInv'
<1> DEFINE f == [operation |-> kind, subject |-> subject, error |-> error, id |-> planned + 1]
           n == Len(plan)
<1>1. /\ planned' = planned + 1 /\ plan' = Append(plan, f) /\ hits' = hits /\ dropped' = dropped /\ asked' = asked
  BY DEF PlanFault
<1>2. f \in Faults /\ f.id = planned + 1 /\ f.error \in FaultsOf(f.operation)
  BY DEF PlanInv, Faults, FaultsOf
<1>3. plan \in Seq(Faults) /\ n \in Nat /\ DOMAIN plan = 1..n /\ planned \in Nat
  BY LenProperties DEF PlanInv
<1> HIDE DEF f
<1>4. /\ plan' \in Seq(Faults) /\ Len(plan') = n + 1 /\ DOMAIN plan' = 1..(n + 1)
      /\ \A i \in 1..n : plan'[i] = plan[i]
      /\ plan'[n + 1] = f
  BY <1>1, <1>2, <1>3, AppendProperties, LenProperties
<1> HIDE DEF n
<1>5. \A i \in 1..(n + 1) : plan'[i].id \in 1..planned' /\ plan'[i].error \in FaultsOf(plan'[i].operation)
  <2>1. ASSUME NEW i \in 1..(n + 1) PROVE plan'[i].id \in 1..planned' /\ plan'[i].error \in FaultsOf(plan'[i].operation)
    <3>1. CASE i = n + 1
      BY <1>1, <1>2, <1>3, <1>4, <3>1
    <3>2. CASE i # n + 1
      <4>1. i \in 1..n
        BY <1>3, <3>2
      <4>2. plan[i].id \in 1..planned /\ plan[i].error \in FaultsOf(plan[i].operation)
        BY <1>3, <4>1 DEF PlanInv
      <4>3. QED
        BY <1>1, <1>3, <1>4, <4>1, <4>2
    <3>3. QED
      BY <3>1, <3>2
  <2>2. QED
    BY <2>1
<1>6. ASSUME NEW i \in 1..(n + 1), NEW j \in 1..(n + 1), i < j PROVE plan'[i].id < plan'[j].id
  <2>1. i \in 1..n /\ plan'[i] = plan[i] /\ plan[i].id \in 1..planned
    BY <1>3, <1>4, <1>6 DEF PlanInv
  <2>2. CASE j = n + 1
    BY <1>2, <1>3, <1>4, <2>1, <2>2
  <2>3. CASE j # n + 1
    <3>1. j \in 1..n
      BY <1>3, <2>3
    <3>2. plan[i].id < plan[j].id
      BY <1>3, <1>6, <2>1, <3>1 DEF PlanInv
    <3>3. QED
      BY <1>4, <2>1, <3>1, <3>2
  <2>4. QED
    BY <2>2, <2>3
<1>7. Waiting' = Waiting \cup {planned + 1}
  <2>1. Waiting' = {plan'[i].id : i \in 1..(n + 1)}
    BY <1>4 DEF Waiting, Range
  <2>2. Waiting = {plan[i].id : i \in 1..n}
    BY <1>3 DEF Waiting, Range
  <2>3. 1..(n + 1) = (1..n) \cup {n + 1}
    BY <1>3
  <2>4. QED
    BY <1>2, <1>4, <2>1, <2>2, <2>3
<1>8. Struck' = Struck /\ Waiting \cup Struck \cup dropped = 1..planned
      /\ Waiting \cap Struck = {} /\ Waiting \cap dropped = {} /\ Struck \cap dropped = {}
  BY <1>1 DEF PlanInv, Struck
<1>9. 1..planned' = (1..planned) \cup {planned + 1} /\ planned + 1 \notin 1..planned
  BY <1>1, <1>3
<1>10. /\ 1..planned' = Waiting' \cup Struck' \cup dropped'
       /\ Waiting' \cap Struck' = {} /\ Waiting' \cap dropped' = {} /\ Struck' \cap dropped' = {}
  BY <1>1, <1>7, <1>8, <1>9
<1>11. /\ \A h \in hits : h[1] \in 1..planned /\ h[2] \in Calls /\ h = <<h[1], h[2]>>
       /\ \A h, g \in hits : h[1] = g[1] => h = g
  BY DEF PlanInv
<1>12. ASSUME NEW h \in hits, NEW i \in 1..(n + 1), plan'[i].operation = asked[h[2]].op.kind,
              plan'[i].subject = asked[h[2]].subject
       PROVE  plan'[i].id > h[1]
  <2>1. CASE i = n + 1
    BY <1>2, <1>3, <1>4, <1>11, <1>12, <2>1
  <2>2. CASE i # n + 1
    <3>1. i \in 1..n
      BY <1>3, <2>2
    <3>2. QED
      BY <1>3, <1>4, <1>12, <3>1 DEF PlanInv
  <2>3. QED
    BY <2>1, <2>2
<1>13. planned' \in Nat /\ \A h \in hits : h[1] \in 1..planned'
  BY <1>1, <1>3, <1>11
<1>14. QED
  BY <1>1, <1>4, <1>5, <1>6, <1>10, <1>11, <1>12, <1>13 DEF PlanInv

\* The plan is cleared.
LEMMA PlanCleared == ASSUME PlanInv, ClearFaults PROVE PlanInv'
<1>1. /\ plan' = <<>> /\ dropped' = dropped \cup {plan[i].id : i \in DOMAIN plan}
      /\ planned' = planned /\ hits' = hits /\ asked' = asked
  BY DEF ClearFaults
<1>2. Waiting = {plan[i].id : i \in DOMAIN plan}
  BY DEF Waiting, Range
<1>3. Waiting' = {} /\ DOMAIN plan' = {} /\ plan' \in Seq(Faults)
  <2>1. DOMAIN plan' = {}
    BY <1>1
  <2>2. plan' \in Seq(Faults)
    BY <1>1, EmptySeq
  <2>3. QED
    BY <2>1, <2>2 DEF Waiting, Range
<1>4. /\ 1..planned = Waiting \cup Struck \cup dropped /\ planned \in Nat
      /\ Waiting \cap Struck = {} /\ Struck \cap dropped = {}
      /\ \A h \in hits : h[1] \in 1..planned /\ h[2] \in Calls /\ h = <<h[1], h[2]>>
      /\ \A h, g \in hits : h[1] = g[1] => h = g
  BY DEF PlanInv
<1>5. Struck' = Struck /\ dropped' = dropped \cup Waiting
  BY <1>1, <1>2 DEF Struck
<1>6. /\ 1..planned' = Waiting' \cup Struck' \cup dropped'
      /\ Waiting' \cap Struck' = {} /\ Waiting' \cap dropped' = {} /\ Struck' \cap dropped' = {}
  BY <1>1, <1>3, <1>4, <1>5
<1>7. QED
  BY <1>1, <1>3, <1>4, <1>6 DEF PlanInv

\* A fault strikes.
LEMMA PlanStruck ==
  ASSUME Inv, PlanInv, \A d \in Calls : Own(d), NEW c \in Calls, NEW q \in Requests, SendFaulted(c, q)
  PROVE  PlanInv'
<1> DEFINE i == CHOOSE i \in Due(q) : \A j \in Due(q) : i <= j
           n == Len(plan)
           x == plan[i].id
<1>1. i \in Due(q) /\ \A j \in Due(q) : i <= j
  BY FirstDue DEF SendFaulted
<1>2. plan' = RemoveAt(plan, i) /\ hits' = hits \cup {<<x, c>>} /\ planned' = planned /\ dropped' = dropped
      /\ Sends(c, q)
  BY DEF SendFaulted
<1> HIDE DEF i, x
<1>3. plan \in Seq(Faults) /\ n \in Nat /\ DOMAIN plan = 1..n /\ planned \in Nat
  BY LenProperties DEF PlanInv
<1>4. i \in 1..n /\ plan[i].operation = q.op.kind /\ plan[i].subject = q.subject
  BY <1>1, <1>3 DEF Due
<1>5. /\ plan' \in Seq(Faults) /\ DOMAIN plan' = 1..(n - 1)
      /\ \A j \in 1..(n - 1) : plan'[j] = IF j < i THEN plan[j] ELSE plan[j + 1]
  BY <1>2, <1>3, <1>4, RemovedAt, LenProperties
<1> HIDE DEF n
\* An element of the new plan is one of the old, not the i-th, in the same order.
<1> DEFINE old(j) == IF j < i THEN j ELSE j + 1
<1>6. \A j \in 1..(n - 1) : old(j) \in 1..n /\ old(j) # i /\ plan'[j] = plan[old(j)]
  BY <1>3, <1>4, <1>5
<1>7. \A j, k \in 1..(n - 1) : j < k => old(j) < old(k)
  BY <1>3, <1>4
<1>8. \A k \in 1..n : k # i => \E j \in 1..(n - 1) : k = old(j)
  <2>1. ASSUME NEW k \in 1..n, k # i PROVE \E j \in 1..(n - 1) : k = old(j)
    <3>1. CASE k < i
      <4>1. k \in 1..(n - 1) /\ k = old(k)
        BY <1>3, <1>4, <2>1, <3>1
      <4>2. QED
        BY <4>1
    <3>2. CASE k > i
      <4>1. k - 1 \in 1..(n - 1) /\ k = old(k - 1)
        BY <1>3, <1>4, <2>1, <3>2
      <4>2. QED
        BY <4>1
    <3>3. QED
      BY <1>3, <1>4, <2>1, <3>1, <3>2
  <2>2. QED
    BY <2>1
<1> HIDE DEF old
<1>9. /\ \A j \in 1..n : plan[j].id \in 1..planned /\ plan[j].error \in FaultsOf(plan[j].operation)
      /\ \A j, k \in 1..n : j < k => plan[j].id < plan[k].id
      /\ \A h \in hits : h[1] \in 1..planned /\ h[2] \in Calls /\ h = <<h[1], h[2]>>
      /\ 1..planned = Waiting \cup Struck \cup dropped
      /\ Waiting \cap Struck = {} /\ Waiting \cap dropped = {} /\ Struck \cap dropped = {}
      /\ \A h, g \in hits : h[1] = g[1] => h = g
  BY <1>3 DEF PlanInv
<1>10. x \in 1..planned /\ \A j \in 1..n : j # i => plan[j].id # x
  <2>1. x \in 1..planned
    BY <1>4, <1>9 DEF x
  <2>2. ASSUME NEW j \in 1..n, j # i, plan[j].id = x PROVE FALSE
    <3>1. j < i \/ i < j
      BY <1>3, <1>4, <2>2
    <3>2. plan[j].id < plan[i].id \/ plan[i].id < plan[j].id
      BY <1>4, <1>9, <3>1
    <3>3. QED
      BY <1>3, <2>1, <2>2, <3>2 DEF x
  <2>3. QED
    BY <2>1, <2>2
<1>11. Waiting = {plan[j].id : j \in 1..n} /\ Waiting' = {plan'[j].id : j \in 1..(n - 1)}
  BY <1>3, <1>5 DEF Waiting, Range
<1>12. Waiting' = Waiting \ {x}
  <2>1. ASSUME NEW w \in Waiting' PROVE w \in Waiting /\ w # x
    <3>1. PICK j \in 1..(n - 1) : w = plan'[j].id
      BY <1>11, <2>1
    <3>2. QED
      BY <1>6, <1>10, <1>11, <3>1
  <2>2. ASSUME NEW w \in Waiting, w # x PROVE w \in Waiting'
    <3>1. PICK k \in 1..n : w = plan[k].id
      BY <1>11
    <3>2. k # i
      BY <2>2, <3>1 DEF x
    <3>3. PICK j \in 1..(n - 1) : k = old(j)
      BY <1>8, <3>2
    <3>4. QED
      BY <1>6, <1>11, <3>1, <3>3
  <2>3. QED
    BY <2>1, <2>2
<1>13. x \in Waiting
  BY <1>4, <1>11 DEF x
<1>14. Struck' = Struck \cup {x}
  <2>1. <<x, c>>[1] = x
    OBVIOUS
  <2>2. QED
    BY <1>2, <2>1 DEF Struck
<1>15. /\ 1..planned' = Waiting' \cup Struck' \cup dropped'
       /\ Waiting' \cap Struck' = {} /\ Waiting' \cap dropped' = {} /\ Struck' \cap dropped' = {}
  BY <1>2, <1>9, <1>12, <1>13, <1>14
<1>16. x \notin Struck
  BY <1>9, <1>13
<1>17. \A h, g \in hits' : h[1] = g[1] => h = g
  <2>1. \A h \in hits : h[1] # x
    BY <1>16 DEF Struck
  <2>2. \A h \in hits' : h \in hits \/ (h = <<x, c>> /\ h[1] = x)
    <3>1. <<x, c>>[1] = x
      OBVIOUS
    <3>2. QED
      BY <1>2, <3>1
  <2>3. QED
    BY <1>9, <2>1, <2>2
<1>18. \A h \in hits' : h[1] \in 1..planned /\ h[2] \in Calls /\ h = <<h[1], h[2]>>
  BY <1>2, <1>9, <1>10
<1>19. \A j \in 1..(n - 1) : plan'[j].id \in 1..planned /\ plan'[j].error \in FaultsOf(plan'[j].operation)
  BY <1>6, <1>9
<1>20. \A j, k \in 1..(n - 1) : j < k => plan'[j].id < plan'[k].id
  BY <1>6, <1>7, <1>9
<1>21. ASSUME NEW h \in hits', NEW j \in 1..(n - 1), plan'[j].operation = asked'[h[2]].op.kind,
              plan'[j].subject = asked'[h[2]].subject
       PROVE  plan'[j].id > h[1]
  <2>1. old(j) \in 1..n /\ old(j) # i /\ plan'[j] = plan[old(j)]
    BY <1>6
  <2>2. CASE h \in hits
    <3>1. h[2] \in Calls /\ IsHit(h[2])
      BY <1>9, <2>2 DEF IsHit
    <3>2. h[2] # c
      BY <1>2, <3>1, IdleBefore, ZenonT(60)
    <3>3. asked'[h[2]] = asked[h[2]]
      BY <1>2, <3>1, <3>2 DEF Sends, Inv, SlotsInv
    <3>4. QED
      BY <1>3, <1>21, <2>1, <2>2, <3>3 DEF PlanInv
  <2>3. CASE h \notin hits
    <3>1. h = <<x, c>> /\ h[1] = x /\ h[2] = c
      BY <1>2, <2>3
    <3>2. asked'[c] = q
      BY <1>2, IdleBefore
    <3>3. old(j) \in Due(q)
      BY <1>3, <1>21, <2>1, <3>1, <3>2 DEF Due
    <3>4. i < old(j)
      BY <1>1, <1>3, <1>4, <2>1, <3>3
    <3>5. plan[i].id < plan[old(j)].id
      BY <1>4, <1>9, <2>1, <3>4
    <3>6. plan[i].id \in Nat /\ plan[old(j)].id \in Nat
      BY <1>4, <1>9, <2>1
    <3>7. QED
      BY <2>1, <3>1, <3>5, <3>6 DEF x
  <2>4. QED
    BY <2>2, <2>3
<1>22. QED
  BY <1>2, <1>3, <1>5, <1>15, <1>17, <1>18, <1>19, <1>20, <1>21 DEF PlanInv

\* The other steps of a call leave the plan and what calls were asked alone.
LEMMA PlanActs ==
  ASSUME Inv, PlanInv, \A d \in Calls : Own(d), NEW c \in Calls, ActsFor(c)
  PROVE  PlanInv'
<1>1. CASE \E q \in Requests : SendFaulted(c, q)
  BY <1>1, PlanStruck
<1>2. CASE ~\E q \in Requests : SendFaulted(c, q)
  <2>1. UNCHANGED <<plan, fate>>
    BY <1>2 DEF ActsFor, Send, SendUnsendable, SendPublish, SendUnmatched, SendRefused,
                SendHandled, Dispatched, Answer, Record, TimeOut, Gone
  <2>2. ASSUME NEW h \in hits PROVE asked'[h[2]] = asked[h[2]]
    <3>1. h[2] \in Calls /\ IsHit(h[2]) /\ phase[h[2]] = "ended"
      BY <2>2 DEF PlanInv, IsHit, Own
    <3>2. CASE h[2] = c
      BY <3>1, <3>2 DEF ActsFor, Send, SendUnsendable, SendFaulted, SendPublish, SendUnmatched, SendRefused,
                        SendHandled, Dispatched, Sends, Answer, Record, TimeOut, Gone
    <3>3. CASE h[2] # c
      BY <3>1, <3>3, OthersKept DEF Kept
    <3>4. QED
      BY <3>2, <3>3
  <2>3. QED
    BY <2>1, <2>2, PlanUnmoved
<1>3. QED
  BY <1>1, <1>2

\* The plan's books after any step.
LEMMA PlanNext ==
  ASSUME Inv, PlanInv, \A d \in Calls : Own(d), [Next]_vars
  PROVE  PlanInv'
<1>1. CASE UNCHANGED vars
  BY <1>1, PlanUnmoved DEF vars
<1>2. CASE Start
  BY <1>2, PlanUnmoved DEF Start
<1>3. CASE ClearFaults
  BY <1>3, PlanCleared
<1>4. ASSUME NEW subject \in FaultSubjects,
             \/ \E error \in RequestFaults : PlanFault("request", subject, error)
             \/ \E error \in PublishFaults : PlanFault("publish", subject, error)
      PROVE  PlanInv'
  BY <1>4, PlanPlanned DEF Kinds, FaultsOf
<1>5. ASSUME NEW subject, ClearEvents(subject) PROVE PlanInv'
  BY <1>5, PlanUnmoved DEF ClearEvents
<1>6. ASSUME NEW c \in Calls, ActsFor(c) PROVE PlanInv'
  BY <1>6, PlanActs
<1>7. QED
  BY <1>1, <1>2, <1>3, <1>4, <1>5, <1>6, StepsOfCalls
-----------------------------------------------------------------------------
(* Startup.                                                                *)

\* The application starts exactly if it is fit to.
LEMMA StartNext == ASSUME StartInv, [Next]_vars PROVE StartInv'
<1>1. CASE harness' = harness /\ app' = app
  <2>1. Places' = Places /\ Durables' = Durables
    BY <1>1 DEF Places, Durables
  <2>2. Unique' = Unique
    BY <1>1, <2>1 DEF Unique, Operation, Consumer
  <2>3. Keyed' = Keyed /\ Declared' = Declared
    BY <1>1, <2>1 DEF Keyed, Operation, Declared, Consumer
  <2>4. QED
    BY <1>1, <2>2, <2>3 DEF StartInv
<1>2. CASE Start
  <2> DEFINE needsKey == \E i \in DOMAIN app.services :
                           \E j \in DOMAIN app.services[i].operations : IsSealed(app.services[i].operations[j])
  <2>1. /\ app' = app
        /\ harness' = IF /\ Validated(app.services)
                         /\ needsKey => app.key # None
                         /\ Registered(app.services, app.streams)
                      THEN "started" ELSE "refused"
    BY <1>2 DEF Start
  <2>2. Validated(app.services) /\ Registered(app.services, app.streams) <=> Unique /\ Declared
    BY StartableIsUnique DEF StartInv
  <2>3. needsKey <=> \E p \in Places : IsSealed(Operation(p))
    <3>1. ASSUME NEW i \in DOMAIN app.services, NEW j \in DOMAIN app.services[i].operations,
                 IsSealed(app.services[i].operations[j])
          PROVE  \E p \in Places : IsSealed(Operation(p))
      <4>1. <<i, j>> \in Places /\ Operation(<<i, j>>) = app.services[i].operations[j]
        BY <3>1, InPlaces DEF Operation
      <4>2. QED
        BY <3>1, <4>1
    <3>2. ASSUME NEW p \in Places, IsSealed(Operation(p)) PROVE needsKey
      BY <3>2, InPlaces DEF Operation
    <3>3. QED
      BY <3>1, <3>2
  <2>4. (needsKey => app.key # None) <=> Keyed
    BY <2>3 DEF Keyed
  <2> HIDE DEF needsKey
  <2>5. harness' = IF Unique /\ Declared /\ Keyed THEN "started" ELSE "refused"
    BY <2>1, <2>2, <2>4
  <2>6. (Unique' <=> Unique) /\ (Declared' <=> Declared) /\ (Keyed' <=> Keyed)
    BY <2>1 DEF Unique, Declared, Keyed, Places, Operation, Durables, Consumer
  <2>7. QED
    BY <2>1, <2>5, <2>6 DEF StartInv
<1>3. QED
  <2>1. CASE \E c \in Calls : ActsFor(c)
    BY <1>1, <2>1 DEF ActsFor, Send, SendUnsendable, SendFaulted, SendPublish, SendUnmatched, SendRefused,
                      SendHandled, Dispatched, Sends, Answer, Record, TimeOut, Gone
  <2>2. QED
    BY <1>1, <1>2, <2>1, StepsOfCalls DEF vars, ClearFaults, PlanFault, ClearEvents
-----------------------------------------------------------------------------
(* Routes and faults.                                                      *)

\* The invariant both theorems follow from, with Inv.
Reliable == StartInv /\ PlanInv /\ \A c \in Calls : Own(c)

\* It holds at first.
LEMMA ReliableInit == Init => Reliable
<1> SUFFICES ASSUME Init PROVE Reliable
  OBVIOUS
<1>1. StartInv
  BY DEF Init, StartInv
<1>2. PlanInv
  <2>1. /\ plan = <<>> /\ planned = 0 /\ hits = {} /\ dropped = {}
    BY DEF Init
  <2>2. plan \in Seq(Faults)
    BY <2>1, EmptySeq
  <2>3. DOMAIN plan = {}
    BY <2>1
  <2>4. Waiting = {} /\ Struck = {}
    BY <2>1, <2>3 DEF Waiting, Struck, Range
  <2>5. 1..planned = {} /\ planned \in Nat
    BY <2>1
  <2>6. QED
    BY <2>1, <2>2, <2>3, <2>4, <2>5 DEF PlanInv
<1>3. ASSUME NEW c \in Calls PROVE Own(c)
  <2>1. phase[c] = "idle" /\ route[c] = None /\ ~IsHit(c) /\ ~Published(c)
    BY DEF Init, IsHit, Published
  <2>2. outcome[c].kind = "pending"
    BY DEF Init, Outcome
  <2>3. QED
    BY <2>1, <2>2 DEF Own
<1>4. QED
  BY <1>1, <1>2, <1>3 DEF Reliable

\* Whatever happens, a call goes where the services say and fails only with a reason, and
\* the plan keeps its books.
LEMMA ReliableNext == Inv /\ Reliable /\ [Next]_vars => Reliable'
<1> SUFFICES ASSUME Inv, Reliable, [Next]_vars PROVE Reliable'
  OBVIOUS
<1>1. StartInv /\ PlanInv /\ \A c \in Calls : Own(c)
  BY DEF Reliable
<1>2. StartInv'
  BY <1>1, StartNext
<1>3. PlanInv'
  BY <1>1, PlanNext
<1>4. \A c \in Calls : Own(c)'
  BY <1>1, OwnNext
<1>5. QED
  BY <1>2, <1>3, <1>4 DEF Reliable

\* A route is the first operation whose pattern means the subject.
LEMMA RouteMeans ==
  ASSUME app \in Applications, NEW subject \in Seq(STRING)
  PROVE  LET r == RouteOf(app.services, subject)
             takes(p) == Operation(p).kind = "request" /\ Means(Operation(p).pattern, subject)
             before(p, q) == p[1] < q[1] \/ (p[1] = q[1] /\ p[2] < q[2])
         IN  /\ r = None => \A p \in Places : ~takes(p)
             /\ r # None => \E p \in Places : /\ r = Operation(p) /\ takes(p)
                                              /\ \A q \in Places : before(q, p) => ~takes(q)
<1> DEFINE services == app.services
           r == RouteOf(services, subject)
           takes(p) == Operation(p).kind = "request" /\ Means(Operation(p).pattern, subject)
           before(p, q) == p[1] < q[1] \/ (p[1] = q[1] /\ p[2] < q[2])
<1>1. services \in Seq(Services) /\ Len(services) \in Nat /\ DOMAIN services = 1..Len(services)
  BY AppServices, LenProperties
<1>2. ASSUME NEW i \in DOMAIN services
      PROVE  \E m \in Nat : DOMAIN services[i].operations = 1..m
  <2>1. services[i].operations \in Seq(Operations)
    BY <1>1, <1>2, ServiceFields
  <2>2. QED
    BY <2>1, LenProperties
<1>3. ASSUME NEW i \in DOMAIN services, NEW j \in DOMAIN services[i].operations
      PROVE  Takes(services[i].operations[j], subject) <=> takes(<<i, j>>)
  <2>1. services[i].operations \in Seq(Operations)
    BY <1>1, <1>3, ServiceFields
  <2>2. services[i].operations[j] \in Operations
    BY <1>3, <2>1, LenProperties, ElementOfSeq
  <2>3. services[i].operations[j].pattern \in Patterns
    BY <2>2 DEF Operations
  <2>4. Operation(<<i, j>>) = services[i].operations[j]
    BY DEF Operation
  <2>5. QED
    BY <2>3, <2>4, MatchesMeans DEF Takes
<1>4. /\ r = None => \A i \in DOMAIN services : \A j \in DOMAIN services[i].operations :
                       ~Takes(services[i].operations[j], subject)
      /\ r # None => \E i \in DOMAIN services : \E j \in DOMAIN services[i].operations :
                       /\ r = services[i].operations[j] /\ Takes(services[i].operations[j], subject)
                       /\ \A k \in 1..(j - 1) : ~Takes(services[i].operations[k], subject)
                       /\ \A h \in 1..(i - 1) : \A k \in DOMAIN services[h].operations :
                            ~Takes(services[h].operations[k], subject)
  <2> HIDE DEF services
  <2>1. QED
    BY <1>1, RouteIsFirst
<1> HIDE DEF r, takes
<1>5. ASSUME r = None PROVE \A p \in Places : ~takes(p)
  <2>1. SUFFICES ASSUME NEW p \in Places PROVE ~takes(p)
    OBVIOUS
  <2>2. p[1] \in DOMAIN services /\ p[2] \in DOMAIN services[p[1]].operations /\ p = <<p[1], p[2]>>
    BY InPlaces
  <2>3. QED
    BY <1>3, <1>4, <1>5, <2>2
<1>6. ASSUME r # None
      PROVE  \E p \in Places : /\ r = Operation(p) /\ takes(p)
                               /\ \A q \in Places : before(q, p) => ~takes(q)
  <2>0. PICK i \in DOMAIN services : \E j \in DOMAIN services[i].operations :
               /\ r = services[i].operations[j] /\ Takes(services[i].operations[j], subject)
               /\ \A k \in 1..(j - 1) : ~Takes(services[i].operations[k], subject)
               /\ \A h \in 1..(i - 1) : \A k \in DOMAIN services[h].operations :
                    ~Takes(services[h].operations[k], subject)
    BY <1>4, <1>6
  <2>1. PICK j \in DOMAIN services[i].operations :
               /\ r = services[i].operations[j] /\ Takes(services[i].operations[j], subject)
               /\ \A k \in 1..(j - 1) : ~Takes(services[i].operations[k], subject)
               /\ \A h \in 1..(i - 1) : \A k \in DOMAIN services[h].operations :
                    ~Takes(services[h].operations[k], subject)
    BY <2>0
  <2>2. <<i, j>> \in Places /\ r = Operation(<<i, j>>) /\ takes(<<i, j>>)
    BY <1>3, <2>1, InPlaces DEF Operation
  <2>3. ASSUME NEW q \in Places, before(q, <<i, j>>) PROVE ~takes(q)
    <3>1. q[1] \in DOMAIN services /\ q[2] \in DOMAIN services[q[1]].operations /\ q = <<q[1], q[2]>>
      BY InPlaces
    <3>2. q[1] < i \/ (q[1] = i /\ q[2] < j)
      BY <2>3
    <3>3. q[2] \in Nat /\ q[2] >= 1 /\ j \in Nat
      BY <1>2, <2>1, <3>1
    <3>4. ~Takes(services[q[1]].operations[q[2]], subject)
      <4>1. CASE q[1] < i
        <5>1. q[1] \in 1..(i - 1)
          BY <1>1, <2>1, <3>1, <4>1
        <5>2. QED
          BY <2>1, <3>1, <5>1
      <4>2. CASE q[1] = i /\ q[2] < j
        <5>1. q[2] \in 1..(j - 1)
          BY <3>3, <4>2
        <5>2. QED
          BY <2>1, <4>2, <5>1
      <4>3. QED
        BY <3>2, <4>1, <4>2
    <3>5. QED
      BY <1>3, <3>1, <3>4
  <2> HIDE DEF before
  <2>4. QED
    BY <2>2, <2>3
<1>7. QED
  BY <1>5, <1>6 DEF r, takes

\* It implies RoutesExact,
LEMMA RoutesAreExact == Inv /\ Reliable => RoutesExact
<1> SUFFICES ASSUME Inv, Reliable PROVE RoutesExact
  OBVIOUS
<1>1. StartInv /\ \A c \in Calls : Own(c)
  BY DEF Reliable
<1> DEFINE takes(p, c) == Operation(p).kind = "request" /\ Means(Operation(p).pattern, asked[c].subject)
           before(p, r) == p[1] < r[1] \/ (p[1] = r[1] /\ p[2] < r[2])
<1>2. ASSUME NEW c \in Calls
      PROVE  /\ route[c] # None =>
                  \E p \in Places : /\ route[c] = Operation(p) /\ takes(p, c)
                                   /\ \A r \in Places : before(r, p) => ~takes(r, c)
             /\ outcome[c] = Outcome("transport", "NoResponders") =>
                  (\E h \in hits : h[2] = c) \/ \A p \in Places : ~takes(p, c)
  <2>1. Own(c) /\ CallInv(c)
    BY <1>1, <1>2 DEF Inv
  <2>2. ASSUME phase[c] # "idle"
        PROVE  LET r == RouteOf(app.services, asked[c].subject)
               IN  /\ r = None => \A p \in Places : ~takes(p, c)
                   /\ r # None => \E p \in Places : /\ r = Operation(p) /\ takes(p, c)
                                                    /\ \A q \in Places : before(q, p) => ~takes(q, c)
    <3>1. asked[c].subject \in Seq(STRING)
      BY <2>1, <2>2, RequestsAssumption DEF Own
    <3>2. QED
      BY <1>1, <3>1, RouteMeans DEF StartInv
  <2> HIDE DEF takes, before
  <2>3. CASE route[c] # None
    <3>1. phase[c] # "idle" /\ route[c] = RouteOf(app.services, asked[c].subject)
      BY <2>1, <2>3 DEF Own, CallInv
    <3>2. outcome[c] = Outcome("transport", "NoResponders") =>
            (\E h \in hits : h[2] = c) \/ \A p \in Places : ~takes(p, c)
      <4>1. SUFFICES ASSUME outcome[c] = Outcome("transport", "NoResponders"), ~IsHit(c)
                     PROVE  \A p \in Places : ~takes(p, c)
        BY DEF IsHit
      <4>2. outcome[c].kind = "transport" /\ outcome[c] # Outcome("transport", "Timeout")
        BY <4>1 DEF Outcome
      <4>3. RouteOf(app.services, asked[c].subject) = None
        BY <2>1, <4>1, <4>2 DEF Own
      <4>4. QED
        BY <2>2, <3>1, <4>3
    <3>3. QED
      BY <2>2, <2>3, <3>1, <3>2
  <2>4. CASE route[c] = None /\ outcome[c] = Outcome("transport", "NoResponders") /\ ~IsHit(c)
    <3>1. outcome[c].kind = "transport" /\ outcome[c] # Outcome("transport", "Timeout")
          /\ outcome[c] # Outcome("pending", None)
      BY <2>4 DEF Outcome
    <3>2. RouteOf(app.services, asked[c].subject) = None /\ phase[c] # "idle"
      BY <2>1, <2>4, <3>1 DEF Own, CallInv
    <3>3. QED
      BY <2>2, <2>4, <3>2
  <2>5. QED
    BY <2>3, <2>4 DEF IsHit
<1> HIDE DEF takes, before
<1>3. /\ harness = "started" => Unique /\ Declared /\ Keyed
      /\ harness = "refused" => ~(Unique /\ Declared /\ Keyed)
  BY <1>1 DEF StartInv
<1>4. QED
  BY <1>2, <1>3, Zenon DEF RoutesExact, Unique, Declared, Keyed, Places, Operation, Durables, Consumer, takes, before

\* The ids given out so far, counted.
LEMMA Counted == ASSUME NEW n \in Nat PROVE IsFiniteSet(1..n) /\ Cardinality(1..n) = n
<1>1. IsFiniteSet(1..n) /\ Cardinality(1..n) = IF 1 > n THEN 0 ELSE n - 1 + 1
  BY FS_Interval
<1>2. QED
  BY <1>1

\* and FaultsExact: the three kinds of faults are counted as disjoint finite sets.
LEMMA FaultsAreExact == Inv /\ Reliable => FaultsExact
<1> SUFFICES ASSUME Inv, Reliable PROVE FaultsExact
  OBVIOUS
<1>1. PlanInv /\ \A c \in Calls : Own(c)
  BY DEF Reliable
<1>2. /\ planned \in Nat /\ 1..planned = Waiting \cup Struck \cup dropped
      /\ Waiting \cap Struck = {} /\ Waiting \cap dropped = {} /\ Struck \cap dropped = {}
      /\ \A h \in hits : h[1] \in 1..planned /\ h[2] \in Calls /\ h = <<h[1], h[2]>>
      /\ \A h, g \in hits : h[1] = g[1] => h = g
  BY <1>1 DEF PlanInv
<1>3. IsFiniteSet(1..planned) /\ Cardinality(1..planned) = planned
  BY <1>2, Counted
<1>4. IsFiniteSet(Waiting) /\ IsFiniteSet(Struck) /\ IsFiniteSet(dropped)
  <2>1. Waiting \in SUBSET (1..planned) /\ Struck \in SUBSET (1..planned) /\ dropped \in SUBSET (1..planned)
    BY <1>2
  <2>2. QED
    BY <1>3, <2>1, FS_Subset
<1>5. Cardinality(Waiting) + Cardinality(Struck) + Cardinality(dropped) = planned
  <2>1. Cardinality({}) = 0
    BY FS_EmptySet
  <2>2. /\ Cardinality(Waiting) \in Nat /\ Cardinality(Struck) \in Nat /\ Cardinality(dropped) \in Nat
    BY <1>4, FS_CardinalityType
  <2>3. /\ IsFiniteSet(Waiting \cup Struck)
        /\ Cardinality(Waiting \cup Struck) = Cardinality(Waiting) + Cardinality(Struck)
    <3>1. Cardinality(Waiting \cup Struck) = Cardinality(Waiting) + Cardinality(Struck) - Cardinality(Waiting \cap Struck)
          /\ IsFiniteSet(Waiting \cup Struck)
      BY <1>4, FS_Union
    <3>2. Cardinality(Waiting \cap Struck) = 0
      BY <1>2, <2>1
    <3>3. QED
      BY <2>2, <3>1, <3>2
  <2>4. Cardinality((Waiting \cup Struck) \cup dropped)
          = Cardinality(Waiting \cup Struck) + Cardinality(dropped) - Cardinality((Waiting \cup Struck) \cap dropped)
    BY <1>4, <2>3, FS_Union
  <2>5. (Waiting \cup Struck) \cap dropped = {} /\ (Waiting \cup Struck) \cup dropped = 1..planned
    BY <1>2
  <2>6. Cardinality((Waiting \cup Struck) \cap dropped) = 0
    BY <2>1, <2>5
  <2>7. Cardinality((Waiting \cup Struck) \cup dropped) = planned
    BY <1>3, <2>5
  <2>8. QED
    BY <2>2, <2>3, <2>4, <2>6, <2>7
<1>6. Cardinality(hits) = Cardinality(Struck)
  <2> DEFINE f == [h \in hits |-> h[1]]
  <2>1. f \in Bijection(hits, Struck)
    <3>1. f \in [hits -> Struck]
      BY DEF Struck
    <3>2. \A h, g \in hits : f[h] = f[g] => h = g
      BY <1>2
    <3>3. \A x \in Struck : \E h \in hits : f[h] = x
      BY DEF Struck
    <3> HIDE DEF f
    <3>4. QED
      BY <3>1, <3>2, <3>3 DEF Bijection, Injection, Surjection, IsInjective
  <2>2. IsFiniteSet(hits)
    BY <1>4, <2>1, FS_Injection DEF Bijection
  <2>3. QED
    BY <2>1, <2>2, FS_Bijection DEF ExistsBijection
<1>7. ASSUME NEW h \in hits
      PROVE  /\ phase[h[2]] = "ended" /\ outcome[h[2]].kind = "transport"
             /\ outcome[h[2]].of \in (IF asked[h[2]].op.kind = "request" THEN RequestFaults ELSE PublishFaults)
             /\ route[h[2]] = None /\ answer[h[2]] = "none yet"
             /\ \A e \in events : e.by # h[2]
             /\ \A f \in Range(plan) : f.operation = asked[h[2]].op.kind /\ f.subject = asked[h[2]].subject
                                       => f.id > h[1]
  <2>1. h[2] \in Calls /\ IsHit(h[2]) /\ Own(h[2])
    BY <1>1, <1>2, <1>7 DEF IsHit
  <2>2. ~Published(h[2])
    BY <2>1 DEF Own
  <2>3. \A f \in Range(plan) : f.operation = asked[h[2]].op.kind /\ f.subject = asked[h[2]].subject => f.id > h[1]
    BY <1>1, <1>7 DEF PlanInv, Range
  <2>4. QED
    BY <2>1, <2>2, <2>3 DEF Own, Published, FaultsOf
<1>8. ASSUME NEW c \in Calls, outcome[c].kind = "transport", \A h \in hits : h[2] # c
      PROVE  \/ outcome[c].of = "Timeout" /\ asked[c].timed /\ seen[c] # Unseen
             \/ outcome[c].of = "NoResponders" /\ asked[c].op.kind = "request"
  <2>1. ~IsHit(c) /\ Own(c)
    BY <1>1, <1>8 DEF IsHit
  <2>2. Outcome("transport", "Timeout").of = "Timeout" /\ Outcome("transport", "NoResponders").of = "NoResponders"
    BY DEF Outcome
  <2>3. QED
    BY <1>8, <2>1, <2>2 DEF Own
<1>9. QED
  BY <1>2, <1>5, <1>6, <1>7, <1>8 DEF FaultsExact, Waiting, Struck

\* The application starts exactly if no two operations share a subject, no two consumers a
\* durable name, and what is encrypted has a key (TestApp.start, ServiceSetValidator); and a
\* request goes to the first operation whose pattern means its subject (dispatch,
\* dispatch_local, subject_matches): for any services, patterns and subjects.
THEOREM EveryRouteIsExact == Spec => []RoutesExact
BY InitInv, NextInv, ReliableInit, ReliableNext, RoutesAreExact, PTL DEF Spec

\* A fault that was planned is still to come, was cleared, or has failed one call with its
\* own error, in the order of the plan and before the call had any effect; no call fails
\* like a faulted one for no reason (FaultPlan::before_request, before_publish).
THEOREM EveryFaultIsExact == Spec => []FaultsExact
BY InitInv, NextInv, ReliableInit, ReliableNext, FaultsAreExact, PTL DEF Spec
=============================================================================
