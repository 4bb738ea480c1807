------------------------------ MODULE ServiceError ------------------------------
(***************************************************************************)
(* What #[service_error] makes of an enum (nats-micro-macros/src/           *)
(* service_error/): which enums it refuses, how a variant goes on the wire, *)
(* and which variant a client makes of a response.                          *)
(*                                                                         *)
(* A variant has a name (in the case of a kind), a shape, fields, and its   *)
(* attributes: code, kind, internal ("no", "yes" or "expose"), transparent, *)
(* skipAll, and message, which is "none", "text" or "code" for a text with  *)
(* the word code in it.  `external` enums derive Error themselves.          *)
(***************************************************************************)
EXTENDS Naturals, Sequences, FiniteSets, SequencesExt

CONSTANTS None,
          WireKinds,       \* kinds that match ^[A-Z][A-Z0-9_]*$
          Unserialisable   \* field values serde cannot write

InternalKind == "INTERNAL_ERROR"
HiddenMessage == <<"an internal error occurred">>

\* A field that stays off the wire: a source, a backtrace, or one marked so.
Skipped(v, i) ==
  \/ v.skipAll
  \/ v.fields[i].source \/ v.fields[i].from \/ v.fields[i].backtrace \/ v.fields[i].skip
  \/ v.transparent /\ Len(v.fields) = 1

WireFields(v) == {i \in DOMAIN v.fields : ~Skipped(v, i)}
HasSkipped(v) == WireFields(v) # DOMAIN v.fields

\* Deviation: only what is marked is internal.
IsInternalMarked(v) == v.internal # "no"

IsInternal(v) ==
  \/ v.internal # "no"
  \/ v.code = None /\ (v.transparent \/ \E i \in DOMAIN v.fields : v.fields[i].from)

Code(v) == IF v.code # None THEN v.code ELSE IF IsInternal(v) THEN 500 ELSE 400

Kind(v) ==
  IF v.kind # None THEN v.kind
  ELSE IF IsInternal(v) /\ v.internal # "expose" THEN InternalKind ELSE v.name

Generic(v) == IsInternal(v) /\ Kind(v) = InternalKind
-----------------------------------------------------------------------------
(* Enums the macro takes.                                                  *)

FieldsValid(v) ==
  LET Froms == {i \in DOMAIN v.fields : v.fields[i].from}
      Causes == {i \in DOMAIN v.fields : v.fields[i].from \/ v.fields[i].source}
  IN /\ Cardinality(Causes) <= 1
     /\ Froms # {} => Len(v.fields) = 1
     /\ v.transparent => Len(v.fields) = 1

VariantValid(enum, v) ==
  /\ v.message # "code"
  /\ v.code # None => v.code \in 400..599
  /\ v.kind # None => v.kind \in WireKinds
  /\ ~enum.external => FieldsValid(v) /\ (v.message = "text" \/ v.transparent \/ v.internal # "no")

\* Deviation: a kind is reserved for what exposes its own.
KindsDifferConcrete(enum) ==
  \A i, j \in DOMAIN enum.variants :
    LET v == enum.variants[i]
        w == enum.variants[j]
    IN i # j /\ v.kind # None /\ w.kind # None => <<Code(v), Kind(v)>> # <<Code(w), Kind(w)>>

\* Variants share a code and kind only as internal errors that do not tell theirs.
KindsDiffer(enum) ==
  \A i, j \in DOMAIN enum.variants :
    LET v == enum.variants[i]
        w == enum.variants[j]
    IN i # j /\ <<Code(v), Kind(v)>> = <<Code(w), Kind(w)>> => Generic(v) /\ Generic(w)

Expands(enum) == KindsDiffer(enum) /\ \A i \in DOMAIN enum.variants : VariantValid(enum, enum.variants[i])
-----------------------------------------------------------------------------
(* The wire.                                                               *)

\* A tuple variant of one string travels as the string, every other as the tuple of its fields.
IsText(v) == v.shape = "unnamed" /\ Len(v.fields) = 1 /\ v.fields[1].type = "String" /\ WireFields(v) = {1}

NoDetails == <<"none">>

\* The values of a tuple stay at the positions of their fields.
Details(v, values) ==
  IF IsInternal(v) \/ WireFields(v) = {} THEN NoDetails
  ELSE IF IsText(v) THEN <<"string", values[1]>>
  ELSE IF \E i \in WireFields(v) : values[i] \in Unserialisable THEN NoDetails
  ELSE <<"tuple", [i \in WireFields(v) |-> values[i]]>>

IntoNatsError(v, values) ==
  [code |-> Code(v), kind |-> Kind(v), details |-> Details(v, values),
   message |-> IF IsInternal(v) THEN HiddenMessage ELSE <<v.name, values>>]

Untyped == [is |-> "untyped"]
Typed(v, values) == [is |-> "typed", variant |-> v.name, values |-> values]

\* What a client makes of a response for a variant that is not internal.
FromResponse(v, response) ==
  IF v.shape = "unit" THEN Typed(v, << >>)
  ELSE IF IsText(v)
    THEN Typed(v, <<IF response.details[1] = "string" THEN response.details[2] ELSE response.message>>)
  ELSE IF HasSkipped(v) \/ response.details[1] # "tuple" \/ DOMAIN response.details[2] # DOMAIN v.fields
    THEN Untyped
  ELSE Typed(v, response.details[2])

\* match (response.code, response.kind): one arm a variant, none for an internal error
\* that does not tell its kind.
FromNatsErrorResponse(enum, response) ==
  LET arm == SelectInSeq(enum.variants, LAMBDA v :
               ~Generic(v) /\ Code(v) = response.code /\ Kind(v) = response.kind)
  IN IF arm = 0 \/ IsInternal(enum.variants[arm]) THEN Untyped ELSE FromResponse(enum.variants[arm], response)
=============================================================================
