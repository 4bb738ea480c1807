---------------------------- MODULE SealedMessage ----------------------------
(***************************************************************************)
(* What the encryption pipeline does to one request and its response       *)
(* (encryption/mod.rs, request.rs, headers.rs).  The cryptography is       *)
(* symbolic: a key is known by the two parties it was derived from, an     *)
(* envelope opens under the key it was made with, a signature is valid for *)
(* the key and the transcript it was computed from.                        *)
(*                                                                         *)
(* A value is a tuple led by what it is: <<"text", v>>, <<"key", call>>,   *)
(* <<"envelope", call, key, content>>, <<"reply", key, content>> or        *)
(* <<"mac", key, transcript>>.  A header map sends each name to the        *)
(* sequence of its values, the empty one for a header that is not there.   *)
(***************************************************************************)
EXTENDS Naturals, Sequences, SequencesExt

CONSTANTS Names,     \* header names, as they are spelled
          Fold,      \* a name in lower case
          ValidIds   \* request ids that is_valid_request_id accepts

EphKey == "x-ephemeral-pub-key"
EncHeaders == "x-encrypted-headers"
Signature == "x-signature"
RequestId == "x-request-id"
ClientVersion == "x-client-version"

ASSUME NamesAssumption ==
  /\ {EphKey, EncHeaders, Signature, RequestId, ClientVersion} \subseteq Names
  /\ Fold \in [Names -> Names]
  /\ \A n \in {EphKey, EncHeaders, Signature} : Fold[n] = n

Text(v) == <<"text", v>>
NoHeaders == [n \in Names |-> <<>>]
Reserved(n) == Fold[n] \in {EphKey, EncHeaders, Signature}

\* What get() finds, an absent header like an empty one: the transcript does not tell them apart.
Found(h, n) == IF h[n] = <<>> THEN Text("") ELSE Head(h[n])

\* Per-call headers replace the default values of their name.
MergeHeaders(defaults, perCall) == [n \in Names |-> IF perCall[n] # <<>> THEN perCall[n] ELSE defaults[n]]

\* derive_keys: both ends derive the same key from the recipient and the ephemeral key.
KeyOf(service, eph) == <<service, eph>>

Transcript(subject, eph, id, version, blob, body) ==
  [subject |-> subject, eph |-> eph, id |-> id, version |-> version, blob |-> blob, body |-> body]

\* RequestBuilder: the plain headers, all values of a name in turn, are inserted over
\* the ephemeral key's header, then the sealed headers, and the signature at last.
\* The transcript takes the request id and the version from the headers and the
\* ephemeral key and the sealed headers from the builder.
BuildForSubject(c, recipient, subject, plain, secrets, payload, encryptPayload) ==
  LET key == KeyOf(recipient, c)
      map == [n \in {secrets[i][1] : i \in DOMAIN secrets} |->
                secrets[SelectLastInSeq(secrets, LAMBDA s : s[1] = n)][2]]
      blob == <<"envelope", c, key, map>>
      inserted == [n \in Names |-> IF plain[n] # <<>> THEN <<Last(plain[n])>>
                                   ELSE IF n = EphKey THEN << <<"key", c>> >> ELSE <<>>]
      headers == IF secrets = <<>> THEN inserted ELSE [inserted EXCEPT ![EncHeaders] = <<blob>>]
      body == IF encryptPayload THEN <<"envelope", c, key, payload>> ELSE payload
      signed == Transcript(subject, c, Found(headers, RequestId), Found(headers, ClientVersion),
                           IF secrets = <<>> THEN Text("") ELSE blob, body)
  IN  [subject |-> subject, body |-> body,
       headers |-> [headers EXCEPT ![Signature] = << <<"mac", key, signed>> >>]]

\* RequestId::existing: the header of the frame, if it is well formed.
ExistingId(h) == IF Found(h, RequestId) \in ValidIds THEN Found(h, RequestId) ELSE Text("")

\* Deviation: the signature must be there, whatever it signs.
RefusalUnverified(own, msg, decryptPayload) ==
  LET h == msg.headers
      eph == Found(h, EphKey)
      sealedByCaller(v) == v[1] = "envelope" /\ v[3] = KeyOf(own, eph[2])
  IN  IF h[EphKey] = <<>> THEN "EncryptRequired"
      ELSE IF eph[1] # "key" THEN "DecryptFailed"
      ELSE IF h[Signature] = <<>> THEN "SignatureMissing"
      ELSE IF h[EncHeaders] # <<>> /\ ~sealedByCaller(Found(h, EncHeaders)) THEN "DecryptFailed"
      ELSE IF decryptPayload /\ ~(sealedByCaller(msg.body) /\ msg.body[2] = eph[2]) THEN "DecryptFailed"
      ELSE "none"

\* EncryptedRequest::prepare: "none", or why the request is refused.
Refusal(own, msg, decryptPayload) ==
  LET h == msg.headers
      eph == Found(h, EphKey)
      key == KeyOf(own, eph[2])
      blob == Found(h, EncHeaders)
      signed == Transcript(msg.subject, eph[2], ExistingId(h), Found(h, ClientVersion), blob, msg.body)
      sealedByCaller(v) == v[1] = "envelope" /\ v[3] = key
  IN  IF h[EphKey] = <<>> THEN "EncryptRequired"
      ELSE IF eph[1] # "key" THEN "DecryptFailed"
      ELSE IF h[Signature] = <<>> THEN "SignatureMissing"
      ELSE IF Found(h, Signature) # <<"mac", key, signed>> THEN "SignatureInvalid"
      ELSE IF /\ h[EncHeaders] # <<>>
              /\ ~sealedByCaller(blob) \/ \E n \in DOMAIN blob[4] : Reserved(n) THEN "DecryptFailed"
      ELSE IF decryptPayload /\ ~(sealedByCaller(msg.body) /\ msg.body[2] = eph[2]) THEN "DecryptFailed"
      ELSE "none"

Sealed(msg) == IF msg.headers[EncHeaders] = <<>> THEN <<>> ELSE msg.headers[EncHeaders][1][4]

\* The overlay lists the decrypted map in an order that varies, and of the entries whose
\* names differ in case only the last one is found: which ones that may be.
Overlays(map) ==
  {kept \in SUBSET DOMAIN map : \A n \in DOMAIN map :
     Cardinality({m \in kept : Fold[m] = Fold[n]}) = 1}

\* Deviation: the frame's headers come first.
ViewFrameFirst(h, map, kept) ==
  [n \in Names |-> IF h[n] = <<>> /\ \E m \in kept : Fold[m] = Fold[n]
                   THEN map[CHOOSE m \in kept : Fold[m] = Fold[n]]
                   ELSE Found(h, n)]

\* Headers::get over the overlay and the frame, for every name at once.
View(h, map, kept) ==
  [n \in Names |-> IF \E m \in kept : Fold[m] = Fold[n]
                   THEN map[CHOOSE m \in kept : Fold[m] = Fold[n]]
                   ELSE Found(h, n)]

Plaintext(msg, decryptPayload) == IF decryptPayload THEN msg.body[4] ELSE msg.body

\* encrypt_response and EphemeralContext::decrypt_response.
SealReply(own, eph, payload) == <<"reply", KeyOf(own, eph), payload>>
OpensReply(recipient, c, body) == body[1] = "reply" /\ body[2] = KeyOf(recipient, c)
=============================================================================
