--------------------------- MODULE GeneratedServiceProofs ---------------------------
(***************************************************************************)
(* Proofs about a generated service, for all impl blocks, tokens and values *)
(* of errors: its contract can be served, its handlers run only with the    *)
(* credentials they ask for, and what the client and the handler tell each  *)
(* other arrives.                                                          *)
(*                                                                         *)
(* The invariant says where every value of a call comes from: the message   *)
(* is what the generated client makes of its operation, what is bound are   *)
(* the first arguments, none of which was refused, and the answer is what   *)
(* the outcome becomes.  What the macro and rustc accept does the rest: the *)
(* properties follow from the invariant one state at a time.                *)
(***************************************************************************)
EXTENDS GeneratedService, SequenceTheorems, FiniteSetTheorems, WellFoundedInduction, TLAPS

\* Every non-empty set of numbers has a least one.
LEMMA LeastExists ==
  ASSUME NEW I \in SUBSET Nat, I # {}
  PROVE  \E i \in I : \A j \in I : i <= j
<1>1. PICK i \in I : \A j \in I : <<j, i>> \notin OpToRel(<, Nat)
  BY WFMin, NatLessThanWellFounded
<1>2. ASSUME NEW j \in I, ~(i <= j) PROVE FALSE
  <2>1. i \in Nat /\ j \in Nat /\ j < i
    BY <1>2
  <2>2. <<j, i>> \in OpToRel(<, Nat)
    BY <2>1 DEF OpToRel
  <2>3. QED
    BY <1>1, <1>2, <2>2
<1>3. QED
  BY <1>2

\* The first position of a sequence with a property is what SelectInSeq takes.
LEMMA MinIsLeast ==
  ASSUME NEW I \in SUBSET Nat, I # {}
  PROVE  Min(I) \in I /\ \A j \in I : Min(I) <= j
BY LeastExists DEF Min

\* Induction over the numbers, for a set of them.
LEMMA Inductively ==
  ASSUME NEW S, 0 \in S, \A n \in Nat : n \in S => n + 1 \in S
  PROVE  Nat \subseteq S
<1>1. SUFFICES ASSUME Nat \ S # {} PROVE FALSE
  OBVIOUS
<1>2. PICK m \in Nat \ S : \A j \in Nat \ S : m <= j
  BY <1>1, LeastExists
<1>3. m - 1 \in Nat /\ m - 1 \in S
  BY <1>2
<1>4. QED
  BY <1>2, <1>3

\* A function may be defined by recursion on its arguments.
Recurs(f, n, base, step) == f[0] = base /\ \A i \in 1..n : f[i] = step[<<i, f[i - 1]>>]

\* The recursion has a function.
LEMMA Recursively ==
  ASSUME NEW n \in Nat, NEW V, NEW base \in V, NEW step \in [(1..n) \X V -> V]
  PROVE  \E f \in [0..n -> V] : Recurs(f, n, base, step)
<1> DEFINE Up(m, f) == f[0] = base /\ \A i \in 1..m : f[i] = step[<<i, f[i - 1]>>]
           S == {m \in Nat : m <= n => \E f \in [0..m -> V] : Up(m, f)}
<1>1. 0 \in S
  <2>1. [i \in 0..0 |-> base] \in [0..0 -> V] /\ Up(0, [i \in 0..0 |-> base])
    OBVIOUS
  <2>2. QED
    BY <2>1
<1>2. ASSUME NEW m \in Nat, m \in S PROVE m + 1 \in S
  <2>1. SUFFICES ASSUME m + 1 <= n PROVE \E f \in [0..(m + 1) -> V] : Up(m + 1, f)
    OBVIOUS
  <2>2. PICK f \in [0..m -> V] : Up(m, f)
    BY <1>2, <2>1
  <2> DEFINE next == step[<<m + 1, f[m]>>]
             g == [i \in 0..(m + 1) |-> IF i = m + 1 THEN next ELSE f[i]]
  <2>3. next \in V
    BY <2>1
  <2> HIDE DEF next
  <2>4. g \in [0..(m + 1) -> V]
    BY <2>3
  <2>5. g[0] = f[0] /\ g[m + 1] = next /\ \A i \in 0..m : g[i] = f[i]
    OBVIOUS
  <2> HIDE DEF g
  <2>6. \A i \in 1..(m + 1) : g[i] = step[<<i, g[i - 1]>>]
    <3>1. ASSUME NEW i \in 1..(m + 1) PROVE g[i] = step[<<i, g[i - 1]>>]
      <4>1. CASE i = m + 1
        <5>1. g[i - 1] = f[m]
          BY <2>5, <4>1
        <5>2. QED
          BY <2>5, <4>1, <5>1 DEF next
      <4>2. CASE i # m + 1
        <5>1. i \in 1..m /\ i - 1 \in 0..m
          BY <4>2
        <5>2. QED
          BY <2>2, <2>5, <5>1
      <4>3. QED
        BY <4>1, <4>2
    <3>2. QED
      BY <3>1
  <2>7. QED
    BY <2>2, <2>4, <2>5, <2>6
<1>3. n \in S
  <2> HIDE DEF S
  <2>1. QED
    BY <1>1, <1>2, Inductively
<1>4. PICK f \in [0..n -> V] : Up(n, f)
  BY <1>3
<1>5. QED
  BY <1>4 DEF Recurs

\* The first position of a sequence with a property is what SelectInSeq takes, 0 if there is none.
Firsts(I) == IF I # {} THEN Min(I) ELSE 0

\* It is 0 just if there is none, and else the least of them.
LEMMA FirstIsLeast ==
  ASSUME NEW I \in SUBSET (Nat \ {0})
  PROVE  /\ Firsts(I) = 0 <=> I = {}
         /\ Firsts(I) # 0 => Firsts(I) \in I /\ \A j \in I : Firsts(I) <= j
<1>1. CASE I = {}
  BY <1>1 DEF Firsts
<1>2. CASE I # {}
  <2>1. I \in SUBSET Nat
    OBVIOUS
  <2>2. Min(I) \in I /\ \A j \in I : Min(I) <= j
    BY <1>2, <2>1, MinIsLeast
  <2>3. QED
    BY <1>2, <2>2 DEF Firsts
<1>3. QED
  BY <1>1, <1>2

\* The sequences of a sequence one after the other: if none is empty and there are as many elements
\* as sequences, each sequence has one.
LEMMA Flattened ==
  ASSUME NEW V, NEW seqs, NEW n \in Nat \ {0}, Len(seqs) = n,
         \A i \in 1..n : seqs[i] \in Seq(V) /\ seqs[i] # << >>
  PROVE  /\ FlattenSeq(seqs) \in Seq(V)
         /\ Len(FlattenSeq(seqs)) = n => \A i \in 1..n : seqs[i] = <<FlattenSeq(seqs)[i]>>
<1> DEFINE T == Seq(V)
           step == [x \in (1..n) \X T |-> x[2] \o seqs[x[1]]]
           IsRun(f) == f = [i \in 1..n |-> IF i = 1 THEN seqs[i] ELSE f[i - 1] \o seqs[i]]
           flatten == CHOOSE f : IsRun(f)
<1>1. << >> \in T
  BY EmptySeq
<1>2. step \in [(1..n) \X T -> T]
  BY ConcatProperties
<1>3. PICK f \in [0..n -> T] : Recurs(f, n, << >>, step)
  <2> HIDE DEF T, step
  <2>1. QED
    BY <1>1, <1>2, Recursively
<1>4. f[0] = << >> /\ \A i \in 1..n : f[i - 1] \in T /\ f[i] = f[i - 1] \o seqs[i]
  <2>1. ASSUME NEW i \in 1..n PROVE f[i - 1] \in T /\ f[i] = f[i - 1] \o seqs[i]
    <3>1. f[i - 1] \in T
      BY <1>3
    <3>2. f[i] = step[<<i, f[i - 1]>>]
      BY <1>3 DEF Recurs
    <3>3. QED
      BY <3>1, <3>2
  <2>2. QED
    BY <1>3, <2>1 DEF Recurs
<1>5. f[1] = seqs[1]
  <2> HIDE DEF T, step, IsRun, flatten
  <2>1. 1 \in 1..n /\ 1 - 1 = 0
    OBVIOUS
  <2>2. f[1] = f[1 - 1] \o seqs[1]
    BY <1>4, <2>1
  <2>3. f[1] = << >> \o seqs[1]
    BY <1>4, <2>1, <2>2
  <2>4. seqs[1] \in Seq(V)
    BY <2>1
  <2>5. QED
    BY <2>3, <2>4, ConcatEmptySeq
<1> DEFINE g == [i \in 1..n |-> f[i]]
<1>6. IsRun(g)
  <2>1. ASSUME NEW i \in 1..n PROVE g[i] = IF i = 1 THEN seqs[i] ELSE g[i - 1] \o seqs[i]
    <3>1. CASE i = 1
      BY <1>5, <3>1
    <3>2. CASE i # 1
      <4>1. i - 1 \in 1..n /\ g[i] = f[i] /\ g[i - 1] = f[i - 1]
        BY <3>2
      <4> HIDE DEF g, step, IsRun, flatten
      <4>2. f[i] = f[i - 1] \o seqs[i]
        BY <1>4
      <4>3. QED
        BY <3>2, <4>1, <4>2
    <3>3. QED
      BY <3>1, <3>2
  <2> HIDE DEF g
  <2>2. DOMAIN g = 1..n /\ g = [i \in 1..n |-> g[i]]
    BY DEF g
  <2>3. QED
    BY <2>1, <2>2
<1>7. ASSUME NEW h, IsRun(h) PROVE \A i \in 1..n : h[i] = IF i = 1 THEN seqs[i] ELSE h[i - 1] \o seqs[i]
  BY <1>7
<1>8. \A i \in 1..n : flatten[i] = IF i = 1 THEN seqs[i] ELSE flatten[i - 1] \o seqs[i]
  <2> HIDE DEF g
  <2>1. IsRun(flatten)
    <3> HIDE DEF IsRun
    <3>1. QED
      BY <1>6
  <2> HIDE DEF IsRun, flatten
  <2>2. QED
    BY <1>7, <2>1
<1>9. FlattenSeq(seqs) = flatten[n]
  BY DEF FlattenSeq
<1> HIDE DEF flatten, g, IsRun, step
<1> DEFINE Single(k) == /\ flatten[k] = f[k] /\ Len(f[k]) >= k
                        /\ Len(f[k]) = k => \A j \in 1..k : seqs[j] = <<f[k][j]>>
           R == {k \in Nat : k <= n => k = 0 \/ Single(k)}
<1>10. 0 \in R
  OBVIOUS
<1>11. ASSUME NEW k \in Nat, k \in R, k + 1 <= n PROVE Single(k + 1)
  <2>1. CASE k = 0
    <3>1. seqs[1] \in Seq(V) /\ seqs[1] # << >> /\ flatten[1] = seqs[1]
      BY <1>8
    <3>2. Len(seqs[1]) \in Nat /\ Len(seqs[1]) # 0 /\ (Len(seqs[1]) = 1 => seqs[1] = <<seqs[1][1]>>)
      BY <3>1, EmptySeq, LenProperties
    <3>3. QED
      BY <1>5, <2>1, <3>1, <3>2
  <2>2. CASE k # 0
    <3>1. Single(k) /\ k \in 1..n /\ k + 1 \in 1..n
      BY <1>11, <2>2
    <3>2. /\ f[k] \in Seq(V) /\ seqs[k + 1] \in Seq(V) /\ seqs[k + 1] # << >>
          /\ f[k + 1] = f[k] \o seqs[k + 1] /\ flatten[k + 1] = flatten[k] \o seqs[k + 1]
      <4>1. (k + 1) - 1 = k /\ k + 1 # 1
        BY <2>2
      <4>2. f[k + 1] = f[(k + 1) - 1] \o seqs[k + 1] /\ f[(k + 1) - 1] \in Seq(V)
        BY <1>4, <3>1
      <4>3. flatten[k + 1] = flatten[(k + 1) - 1] \o seqs[k + 1]
        BY <1>8, <3>1, <4>1
      <4>4. seqs[k + 1] \in Seq(V) /\ seqs[k + 1] # << >>
        BY <3>1
      <4>5. QED
        BY <4>1, <4>2, <4>3, <4>4
    <3>3. /\ Len(f[k + 1]) = Len(f[k]) + Len(seqs[k + 1]) /\ Len(f[k]) \in Nat
          /\ \A j \in 1..Len(f[k]) : f[k + 1][j] = f[k][j]
          /\ \A j \in 1..Len(seqs[k + 1]) : f[k + 1][Len(f[k]) + j] = seqs[k + 1][j]
      <4> DEFINE a == f[k]
                 b == seqs[k + 1]
      <4>1. a \in Seq(V) /\ b \in Seq(V) /\ f[k + 1] = a \o b
        BY <3>2
      <4> HIDE DEF a, b
      <4>2. /\ Len(a \o b) = Len(a) + Len(b) /\ Len(a) \in Nat /\ Len(b) \in Nat
            /\ \A j \in 1..(Len(a) + Len(b)) : (a \o b)[j] = IF j <= Len(a) THEN a[j] ELSE b[j - Len(a)]
        BY <4>1, ConcatProperties, LenProperties
      <4>3. \A j \in 1..Len(a) : (a \o b)[j] = a[j]
        BY <4>2
      <4>4. ASSUME NEW j \in 1..Len(b) PROVE (a \o b)[Len(a) + j] = b[j]
        <5>1. Len(a) + j \in 1..(Len(a) + Len(b)) /\ ~(Len(a) + j <= Len(a)) /\ (Len(a) + j) - Len(a) = j
          BY <4>2
        <5>2. QED
          BY <4>2, <5>1
      <4>5. QED
        BY <4>1, <4>2, <4>3, <4>4 DEF a, b
    <3>4. Len(seqs[k + 1]) \in Nat /\ Len(seqs[k + 1]) # 0
          /\ (Len(seqs[k + 1]) = 1 => seqs[k + 1] = <<seqs[k + 1][1]>>)
      BY <3>2, EmptySeq, LenProperties
    <3>5. ASSUME Len(f[k + 1]) = k + 1, NEW j \in 1..(k + 1) PROVE seqs[j] = <<f[k + 1][j]>>
      <4>1. Len(f[k]) = k /\ Len(seqs[k + 1]) = 1
        <5> DEFINE x == Len(f[k])
                   y == Len(seqs[k + 1])
        <5>1. x >= k /\ x + y = k + 1 /\ x \in Nat
          BY <3>1, <3>3, <3>5
        <5>2. y \in Nat /\ y # 0
          BY <3>4
        <5> HIDE DEF x, y
        <5>3. x = k /\ y = 1
          BY <5>1, <5>2
        <5>4. QED
          BY <5>3 DEF x, y
      <4>2. CASE j = k + 1
        BY <3>3, <3>4, <4>1, <4>2
      <4>3. CASE j # k + 1
        BY <3>1, <3>3, <4>1, <4>3
      <4>4. QED
        BY <4>2, <4>3
    <3>6. QED
      BY <3>1, <3>2, <3>3, <3>4, <3>5
  <2>3. QED
    BY <2>1, <2>2
<1>12. Nat \subseteq R
  <2>1. ASSUME NEW k \in Nat, k \in R PROVE k + 1 \in R
    <3>1. k + 1 <= n => Single(k + 1)
      BY <1>11, <2>1
    <3> HIDE DEF Single
    <3>2. QED
      BY <3>1
  <2> HIDE DEF R
  <2>2. QED
    BY <1>10, <2>1, Inductively
<1>13. Single(n)
  BY <1>12
<1>14. f[n] \in Seq(V)
  BY <1>3
<1>15. QED
  BY <1>9, <1>13, <1>14
-----------------------------------------------------------------------------
(* Where the values of a call come from.                                   *)

\* A message of the generated client is what it makes of its operation's arguments.
Sends(i) ==
  LET m == source.methods[i]
  IN /\ i \in DOMAIN source.methods /\ m.kind = "request"
     /\ call.parameters \in Parameters(m) /\ call.value \in PayloadValues(m)
     /\ frame.subject = SubjectExpression(m, call.parameters)
     /\ frame.body = PayloadBody(m, call.value)

\* The first n arguments are bound, and none was refused.
Binds(n) ==
  /\ n \in 0..Len(Operation.args)
  /\ bound = [a \in 1..n |-> BoundValue(Kinds(source, Operation)[a])]
  /\ \A a \in 1..n : BindingError(Operation.args[a], Kinds(source, Operation)[a]) = NoError

Received == served \in Listening /\ \E n \in Nat : Binds(n)

ReturnsOk ==
  \E value \in OkValues(Response(Operation)) :
    outcome = [is |-> "ok", value |-> value] /\ reply = EncodeResponse(Response(Operation), value)

ReturnsError ==
  /\ Operation.error # None
  /\ \E i \in DOMAIN Operation.error.variants :
       LET v == Operation.error.variants[i]
       IN \E values \in [DOMAIN v.fields -> Values] :
            /\ outcome = [is |-> "error", variant |-> v, values |-> values]
            /\ reply = Answer(Errors!IntoNatsError(v, values), FALSE, << >>, FALSE)

\* A handler ran with all its arguments, and its outcome was answered.
Handles == served \in Listening /\ Binds(Len(Operation.args)) /\ (ReturnsOk \/ ReturnsError)

Inv ==
  /\ source \in Sources
  /\ stage \in {"source", "refused", "ready", "sent", "binding", "answered", "done"}
  /\ stage \notin {"source", "refused"} => Accepts(source) /\ Compiles
  /\ stage \in {"source", "refused", "ready"} => call = None
  /\ stage \in {"sent", "binding", "answered", "done"} => call.operation = None \/ Sends(call.operation)
  /\ stage \in {"source", "refused", "ready", "sent"} => bound = << >>
  /\ stage = "binding" => Received
  /\ stage \notin {"answered", "done"} => outcome = None
  /\ outcome # None => Handles
  /\ stage = "done" /\ outcome # None /\ call.operation # None => result = Decoded(source.methods[call.operation])

\* A service that was not yet expanded has nothing to keep.
LEMMA InitInv == Init => Inv
BY DEF Init, Inv

\* What a client sent stays what it sent, and what is bound stays bound, while nobody changes it.
LEMMA SendsStays ==
  ASSUME UNCHANGED <<source, call, frame>>, NEW i, Sends(i) PROVE Sends(i)'
<1> DEFINE m == source.methods[i]
<1>1. m' = m
  OBVIOUS
<1>2. Positions(m, "subject")' = Positions(m, "subject") /\ Positions(m, "payload")' = Positions(m, "payload")
  BY <1>1 DEF Positions
<1>3. Parameters(m)' = Parameters(m)
  BY <1>1, <1>2 DEF Parameters
<1>4. PayloadValues(m)' = PayloadValues(m)
  BY <1>1, <1>2 DEF PayloadValues
<1>5. SubjectExpression(m, call.parameters)' = SubjectExpression(m, call.parameters)
  BY <1>1 DEF SubjectExpression
<1>6. PayloadBody(m, call.value)' = PayloadBody(m, call.value)
  <2> DEFINE P == Positions(m, "payload")
  <2>1. P' = P
    BY <1>2
  <2> HIDE DEF P
  <2>2. (CHOOSE j \in P : TRUE)' = CHOOSE j \in P : TRUE
    BY <2>1
  <2>3. PayloadBody(m, call.value) = IF P = {} \/ call.value = None THEN << >>
                                     ELSE Body(Kinds(source, m)[CHOOSE j \in P : TRUE].codec, call.value)
    BY DEF PayloadBody, P
  <2>4. PayloadBody(m, call.value)' = IF P' = {} \/ call.value = None THEN << >>
                                      ELSE Body(Kinds(source, m)[(CHOOSE j \in P : TRUE)'].codec, call.value)
    BY DEF PayloadBody, P
  <2>5. QED
    BY <2>1, <2>2, <2>3, <2>4
<1>7. QED
  BY <1>1, <1>3, <1>4, <1>5, <1>6 DEF Sends

LEMMA BindsStays ==
  ASSUME UNCHANGED <<source, frame, served, bound>>, NEW n, Binds(n) PROVE Binds(n)'
BY ZenonT(60) DEF Binds, Operation, BoundValue, BindingError

\* Who listens is decided by the message.
LEMMA ListeningStays ==
  ASSUME UNCHANGED <<source, frame>> PROVE Listening' = Listening
BY DEF Listening

\* A handler that ran has run, also when the client decodes its answer.
LEMMA HandlesStays ==
  ASSUME UNCHANGED <<source, frame, served, bound, outcome, reply>>, Handles PROVE Handles'
<1>1. Operation' = Operation /\ Listening' = Listening
  BY ListeningStays DEF Operation
<1>2. Binds(Len(Operation.args))'
  BY <1>1, BindsStays DEF Handles
<1>3. ReturnsOk => ReturnsOk'
  BY <1>1 DEF ReturnsOk
<1>4. ReturnsError => ReturnsError'
  BY <1>1 DEF ReturnsError
<1>5. QED
  BY <1>1, <1>2, <1>3, <1>4 DEF Handles

\* An impl block compiles or not, once for all.
LEMMA CompilesStays == ASSUME UNCHANGED source, Compiles PROVE Compiles'
BY DEF Compiles
-----------------------------------------------------------------------------
(* Each step keeps the invariant.                                          *)

\* The macro and rustc let through only what they accept.
LEMMA ExpandInv == ASSUME Inv, Expand PROVE Inv'
BY CompilesStays DEF Inv, Expand, Compiles

\* The generated client sends what its operation takes.
LEMMA CallsInv == ASSUME Inv, Call PROVE Inv'
<1>1. PICK i \in DOMAIN source.methods, sender \in Senders :
        LET m == source.methods[i]
        IN /\ stage = "ready" /\ m.kind = "request"
           /\ \E parameters \in Parameters(m), value \in PayloadValues(m) :
                /\ call' = [operation |-> i, parameters |-> parameters, value |-> value]
                /\ frame' = [subject |-> SubjectExpression(m, parameters), body |-> PayloadBody(m, value),
                             sealed |-> Encrypted(source, m), from |-> sender]
           /\ stage' = "sent"
           /\ UNCHANGED <<source, served, bound, outcome, reply, result>>
  BY DEF Call
<1> DEFINE m == source.methods[i]
<1>2. PICK parameters \in Parameters(m), value \in PayloadValues(m) :
        /\ call' = [operation |-> i, parameters |-> parameters, value |-> value]
        /\ frame' = [subject |-> SubjectExpression(m, parameters), body |-> PayloadBody(m, value),
                     sealed |-> Encrypted(source, m), from |-> sender]
  BY <1>1
<1>3. Sends(i)'
  <2>1. /\ source' = source /\ call'.parameters = parameters /\ call'.value = value
        /\ frame'.subject = SubjectExpression(m, parameters) /\ frame'.body = PayloadBody(m, value)
    BY <1>1, <1>2
  <2>2. Positions(m, "subject")' = Positions(m, "subject") /\ Positions(m, "payload")' = Positions(m, "payload")
    BY <2>1 DEF Positions
  <2>3. Parameters(m)' = Parameters(m)
    BY <2>1, <2>2 DEF Parameters
  <2>4. PayloadValues(m)' = PayloadValues(m)
    BY <2>1, <2>2 DEF PayloadValues
  <2>5. SubjectExpression(m, call.parameters)' = SubjectExpression(m, parameters)
    BY <2>1 DEF SubjectExpression
  <2>6. PayloadBody(m, call.value)' = PayloadBody(m, value)
    <3> DEFINE P == Positions(m, "payload")
    <3>1. P' = P
      BY <2>2
    <3> HIDE DEF P
    <3>2. (CHOOSE j \in P : TRUE)' = CHOOSE j \in P : TRUE
      BY <3>1
    <3>3. PayloadBody(m, value) = IF P = {} \/ value = None THEN << >>
                                  ELSE Body(Kinds(source, m)[CHOOSE j \in P : TRUE].codec, value)
      BY DEF PayloadBody, P
    <3>4. PayloadBody(m, call.value)' = IF P' = {} \/ call'.value = None THEN << >>
                                        ELSE Body(Kinds(source', m')[(CHOOSE j \in P : TRUE)'].codec, call'.value)
      BY DEF PayloadBody, P
    <3>5. QED
      BY <2>1, <3>1, <3>2, <3>3, <3>4
  <2>7. QED
    BY <1>1, <2>1, <2>3, <2>4, <2>5, <2>6 DEF Sends
<1>4. call'.operation = i
  BY <1>2
<1>5. Compiles'
  BY <1>1, CompilesStays DEF Inv
<1>6. QED
  BY <1>1, <1>3, <1>4, <1>5 DEF Inv

\* Another sender calls no operation.
LEMMA PublishInv == ASSUME Inv, Publish PROVE Inv'
<1>1. /\ stage = "ready" /\ stage' = "sent" /\ call'.operation = None
      /\ UNCHANGED <<source, served, bound, outcome, reply, result>>
  BY DEF Publish
<1>2. Compiles'
  BY <1>1, CompilesStays DEF Inv
<1>3. QED
  BY <1>1, <1>2 DEF Inv

\* A message reaches one of those who listen, with nothing bound yet.
LEMMA DeliverInv == ASSUME Inv, Deliver PROVE Inv'
<1>1. /\ stage = "sent" /\ stage' = "binding" /\ served' \in Listening
      /\ UNCHANGED <<source, call, frame, bound, outcome, reply, result>>
  BY DEF Deliver
<1>2. Compiles' /\ (call.operation = None \/ Sends(call.operation))'
  BY <1>1, CompilesStays, SendsStays DEF Inv
<1>3. Received'
  <2>1. served' \in Listening'
    BY <1>1, ListeningStays
  <2>2. Len(Operation.args)' \in Nat
    <3>1. served' \in DOMAIN source.methods
      BY <1>1 DEF Listening, Started
    <3>2. source.methods \in Seq(Methods)
      BY ServicesAssumption DEF Inv, Services
    <3>3. Operation' \in Methods
      BY <1>1, <3>1, <3>2, ElementOfSeq, LenProperties DEF Operation
    <3>4. Operation'.args \in Seq(Arguments)
      BY <3>3 DEF Methods
    <3>5. QED
      BY <3>4, LenProperties
  <2>3. bound' = << >> /\ << >> = [a \in 1..0 |-> BoundValue(Kinds(source, Operation)[a])']
    BY <1>1 DEF Inv
  <2>4. Binds(0)'
    BY <2>2, <2>3 DEF Binds
  <2>5. QED
    BY <2>1, <2>4 DEF Received
<1>4. QED
  BY <1>1, <1>2, <1>3 DEF Inv

\* A message that reaches nobody has no outcome.
LEMMA NoRespondersInv == ASSUME Inv, NoResponders PROVE Inv'
<1>1. /\ stage = "sent" /\ stage' = "done"
      /\ UNCHANGED <<source, call, frame, served, bound, outcome, reply>>
  BY DEF NoResponders
<1>2. Compiles' /\ (call.operation = None \/ Sends(call.operation))'
  BY <1>1, CompilesStays, SendsStays DEF Inv
<1>3. QED
  BY <1>1, <1>2 DEF Inv

\* The server refuses the call before its handler runs.
LEMMA RefusedInv == ASSUME Inv, Refuse \/ RejectArgument PROVE Inv'
<1>1. /\ stage = "binding" /\ stage' = "answered"
      /\ UNCHANGED <<source, call, frame, served, bound, outcome, result>>
  BY DEF Refuse, RejectArgument, Unbound
<1>2. Compiles' /\ (call.operation = None \/ Sends(call.operation))'
  BY <1>1, CompilesStays, SendsStays DEF Inv
<1>3. QED
  BY <1>1, <1>2 DEF Inv

\* One more argument is bound, the next one.
LEMMA BindArgumentInv == ASSUME Inv, BindArgument PROVE Inv'
<1>1. /\ stage = "binding" /\ NextArgument \in DOMAIN Operation.args
      /\ BindingError(Operation.args[NextArgument], Kinds(source, Operation)[NextArgument]) = NoError
      /\ bound' = Append(bound, BoundValue(Kinds(source, Operation)[NextArgument]))
      /\ UNCHANGED <<source, stage, call, frame, served, outcome, reply, result>>
  BY DEF BindArgument, Unbound
<1>2. Compiles' /\ (call.operation = None \/ Sends(call.operation))'
  BY <1>1, CompilesStays, SendsStays DEF Inv
<1>3. PICK n \in Nat : Binds(n)
  BY <1>1 DEF Inv, Received
<1>4. served \in Listening /\ Len(Operation.args) \in Nat /\ DOMAIN Operation.args = 1..Len(Operation.args)
  <2>1. served \in Listening
    BY <1>1 DEF Inv, Received
  <2>2. served \in DOMAIN source.methods
    BY <2>1 DEF Listening, Started
  <2>3. source.methods \in Seq(Methods)
    BY ServicesAssumption DEF Inv, Services
  <2>4. Operation \in Methods
    BY <2>2, <2>3, ElementOfSeq, LenProperties DEF Operation
  <2>5. Operation.args \in Seq(Arguments)
    BY <2>4 DEF Methods
  <2>6. QED
    BY <2>1, <2>5, LenProperties
<1> DEFINE value(a) == BoundValue(Kinds(source, Operation)[a])
<1>5. bound = [a \in 1..n |-> value(a)] /\ n \in 0..Len(Operation.args)
      /\ \A a \in 1..n : BindingError(Operation.args[a], Kinds(source, Operation)[a]) = NoError
  BY <1>3 DEF Binds
<1> DEFINE V == {value(a) : a \in 1..(n + 1)}
<1>6. bound \in Seq(V) /\ Len(bound) = n /\ value(n + 1) \in V
  <2>1. \A a \in 1..n : value(a) \in V
    BY <1>3
  <2> HIDE DEF value, V
  <2>2. bound \in [1..n -> V]
    BY <1>5, <2>1
  <2>3. bound \in Seq(V)
    BY <1>3, <2>2, IsASeq
  <2>4. Len(bound) = n
    BY <1>3, <2>2, <2>3, LenProperties
  <2>5. n + 1 \in 1..(n + 1)
    BY <1>3
  <2>6. QED
    BY <2>3, <2>4, <2>5 DEF V
<1>7. bound' = [a \in 1..(n + 1) |-> value(a)]
  <2>1. bound' = Append(bound, value(n + 1))
    BY <1>1, <1>6 DEF NextArgument
  <2> HIDE DEF value, V
  <2>2. /\ bound' \in Seq(V) /\ Len(bound') = n + 1 /\ DOMAIN bound' = 1..(n + 1)
        /\ \A a \in 1..n : bound'[a] = bound[a]
        /\ bound'[n + 1] = value(n + 1)
    BY <1>3, <1>6, <2>1, AppendProperties, LenProperties
  <2>3. \A a \in 1..(n + 1) : bound'[a] = value(a)
    <3>1. SUFFICES ASSUME NEW a \in 1..(n + 1) PROVE bound'[a] = value(a)
      OBVIOUS
    <3>2. CASE a = n + 1
      BY <2>2, <3>2
    <3>3. CASE a # n + 1
      <4>1. a \in 1..n
        BY <1>3, <3>3
      <4>2. QED
        BY <1>5, <2>2, <4>1
    <3>4. QED
      BY <3>2, <3>3
  <2>4. bound' = [a \in DOMAIN bound' |-> bound'[a]]
    BY <2>2, SeqDef
  <2>5. QED
    BY <2>2, <2>3, <2>4
<1>8. Binds(n + 1)'
  <2>1. n + 1 \in 0..Len(Operation.args) /\ NextArgument = n + 1
    BY <1>1, <1>3, <1>4, <1>6 DEF NextArgument
  <2>2. Operation' = Operation
    BY <1>1 DEF Operation
  <2>4. \A a \in 1..(n + 1) : BindingError(Operation.args[a], Kinds(source, Operation)[a]) = NoError
    <3>1. SUFFICES ASSUME NEW a \in 1..(n + 1)
                   PROVE  BindingError(Operation.args[a], Kinds(source, Operation)[a]) = NoError
      OBVIOUS
    <3>2. a = n + 1 \/ a \in 1..n
      BY <1>3
    <3>3. QED
      BY <1>1, <1>5, <2>1, <3>2
  <2>5. \A a \in 1..(n + 1) : BindingError(Operation.args[a], Kinds(source, Operation)[a])'
                              = BindingError(Operation.args[a], Kinds(source, Operation)[a])
    BY <1>1, <2>2 DEF BindingError
  <2>6. \A a \in 1..(n + 1) : BoundValue(Kinds(source, Operation)[a])' = value(a)
    BY <1>1, <2>2 DEF BoundValue
  <2> HIDE DEF value
  <2>7. QED
    BY <1>1, <1>7, <2>1, <2>2, <2>4, <2>5, <2>6 DEF Binds
<1>9. Received'
  BY <1>1, <1>3, <1>4, <1>8, ListeningStays DEF Received
<1>10. QED
  BY <1>1, <1>2, <1>9 DEF Inv

\* When every argument is bound the handler is ready to run.
LEMMA BoundBinds == ASSUME Inv, Bound PROVE served \in Listening /\ Binds(Len(Operation.args))
<1>1. stage = "binding" /\ Len(bound) = Len(Operation.args)
  BY DEF Bound
<1>2. PICK n \in Nat : Binds(n)
  BY <1>1 DEF Inv, Received
<1>3. n = Len(Operation.args)
  <2> DEFINE f == [a \in 1..n |-> BoundValue(Kinds(source, Operation)[a])]
  <2>1. bound = f
    BY <1>2 DEF Binds
  <2>2. f \in [1..n -> Range(f)]
    BY DEF Range
  <2> HIDE DEF f
  <2>3. Len(bound) = n
    BY <1>2, <2>1, <2>2, IsASeq, LenProperties
  <2>4. QED
    BY <1>1, <2>3
<1>4. QED
  BY <1>1, <1>2, <1>3 DEF Inv, Received

\* A handler ends with all its arguments bound.
LEMMA HandledInv ==
  ASSUME Inv, NEW returned, NEW answer, Bound, Handled(returned, answer),
         (ReturnsOk \/ ReturnsError)'
  PROVE  Inv'
<1>1. /\ stage = "binding" /\ stage' = "answered"
      /\ UNCHANGED <<source, call, frame, served, bound, result>>
  BY DEF Bound, Handled
<1>2. Compiles' /\ (call.operation = None \/ Sends(call.operation))'
  BY <1>1, CompilesStays, SendsStays DEF Inv
<1>3. Operation' = Operation
  BY <1>1 DEF Operation
<1>4. Handles'
  <2>1. (served \in Listening)' /\ Binds(Len(Operation.args))'
    BY <1>1, <1>3, BoundBinds, ListeningStays, BindsStays
  <2>2. QED
    BY <2>1 DEF Handles
<1>5. QED
  BY <1>1, <1>2, <1>4 DEF Inv

\* ... with a value,
LEMMA HandlerReturnsInv == ASSUME Inv, HandlerReturns PROVE Inv'
<1>1. PICK value \in OkValues(Response(Operation)) :
        Handled([is |-> "ok", value |-> value], EncodeResponse(Response(Operation), value))
  BY DEF HandlerReturns
<1>2. /\ Operation' = Operation /\ outcome' = [is |-> "ok", value |-> value]
      /\ reply' = EncodeResponse(Response(Operation), value)
  BY <1>1 DEF Handled, Operation
<1>3. ReturnsOk'
  BY <1>2 DEF ReturnsOk
<1>4. QED
  BY <1>1, <1>3, HandledInv DEF HandlerReturns

\* ... or with an error of its enum.
LEMMA HandlerFailsInv == ASSUME Inv, HandlerFails PROVE Inv'
<1>1. PICK i \in DOMAIN Operation.error.variants :
        LET v == Operation.error.variants[i]
        IN \E values \in [DOMAIN v.fields -> Values] :
             Handled([is |-> "error", variant |-> v, values |-> values],
                     Answer(Errors!IntoNatsError(v, values), FALSE, << >>, FALSE))
  BY DEF HandlerFails
<1> DEFINE v == Operation.error.variants[i]
<1>2. PICK values \in [DOMAIN v.fields -> Values] :
        Handled([is |-> "error", variant |-> v, values |-> values],
                Answer(Errors!IntoNatsError(v, values), FALSE, << >>, FALSE))
  BY <1>1
<1>3. /\ Operation' = Operation /\ outcome' = [is |-> "error", variant |-> v, values |-> values]
      /\ reply' = Answer(Errors!IntoNatsError(v, values), FALSE, << >>, FALSE)
      /\ Operation.error # None
  BY <1>2 DEF Handled, Operation, HandlerFails
<1>4. ReturnsError'
  <2>1. Operation'.error.variants[i] = v
    BY <1>3
  <2> HIDE DEF v
  <2>2. QED
    BY <1>3, <2>1 DEF ReturnsError
<1>5. QED
  BY <1>2, <1>4, HandledInv DEF HandlerFails

\* The client decodes the answer of the operation it called.
LEMMA DecodeInv == ASSUME Inv, Decode PROVE Inv'
<1>1. /\ stage = "answered" /\ stage' = "done"
      /\ result' = IF call.operation = None THEN [is |-> "ignored"] ELSE Decoded(source.methods[call.operation])
      /\ UNCHANGED <<source, call, frame, served, bound, outcome, reply>>
  BY DEF Decode
<1>2. Compiles' /\ (call.operation = None \/ Sends(call.operation))'
  BY <1>1, CompilesStays, SendsStays DEF Inv
<1>3. (outcome # None => Handles)'
  BY <1>1, HandlesStays DEF Inv
<1>4. Decoded(source.methods[call.operation])' = Decoded(source.methods[call.operation])
  BY <1>1 DEF Decoded, Operation
<1>5. QED
  BY <1>1, <1>2, <1>3, <1>4 DEF Inv

LEMMA StutterInv == ASSUME Inv, UNCHANGED vars PROVE Inv'
<1>1. Compiles => Compiles'
  BY CompilesStays DEF vars
<1>2. Sends(call.operation) => Sends(call.operation)'
  BY SendsStays DEF vars
<1>3. Received => Received'
  <2>1. SUFFICES ASSUME Received PROVE Received'
    OBVIOUS
  <2>2. PICK n \in Nat : Binds(n)
    BY <2>1 DEF Received
  <2>3. Binds(n)'
    BY <2>2, BindsStays DEF vars
  <2>4. QED
    BY <2>1, <2>3, ListeningStays DEF vars, Received
<1>4. Handles => Handles'
  BY HandlesStays DEF vars
<1>5. Decoded(source.methods[call.operation])' = Decoded(source.methods[call.operation])
  BY DEF vars, Decoded, Operation
<1>6. QED
  BY <1>1, <1>2, <1>3, <1>4, <1>5 DEF vars, Inv

\* The invariant is inductive.
LEMMA NextInv == Inv /\ [Next]_vars => Inv'
<1> SUFFICES ASSUME Inv, [Next]_vars PROVE Inv'
  OBVIOUS
<1>1. CASE UNCHANGED vars
  BY <1>1, StutterInv
<1>2. CASE Next
  BY <1>2, ExpandInv, CallsInv, PublishInv, DeliverInv, NoRespondersInv, RefusedInv, BindArgumentInv,
     HandlerReturnsInv, HandlerFailsInv, DecodeInv DEF Next
<1>3. QED
  BY <1>1, <1>2
-----------------------------------------------------------------------------
(* A handler that ran.                                                     *)

\* What runs was accepted, and has its arguments.
LEMMA Running ==
  ASSUME Inv, outcome # None
  PROVE  /\ Handles /\ served \in DOMAIN source.methods /\ source \in Services
         /\ Operation \in Methods /\ Operation.args \in Seq(Arguments)
         /\ DOMAIN Operation.args = 1..Len(Operation.args) /\ Len(Operation.args) \in Nat
         /\ Accepts(source) /\ Compiles /\ OperationValid(source, Operation)
<1>1. Handles /\ served \in DOMAIN source.methods /\ source \in Services
  BY ServicesAssumption DEF Inv, Handles, Listening, Started
<1>2. source.methods \in Seq(Methods)
  BY <1>1 DEF Services
<1>3. Operation \in Methods
  BY <1>1, <1>2, ElementOfSeq, LenProperties DEF Operation
<1>4. Operation.args \in Seq(Arguments)
  BY <1>3 DEF Methods
<1>5. Accepts(source) /\ Compiles
  BY DEF Inv
<1>6. OperationValid(source, Operation)
  BY <1>1, <1>5 DEF Accepts, Operation
<1>7. QED
  BY <1>1, <1>3, <1>4, <1>5, <1>6, LenProperties

\* An operation that a client of the service calls is a request, sent by its generated method.
LEMMA Called ==
  ASSUME Inv, outcome # None, call.operation = served
  PROVE  served # None /\ Sends(served) /\ Operation.kind = "request"
<1>1. served \in DOMAIN source.methods /\ source.methods \in Seq(Methods)
  BY Running DEF Services
<1>2. served # None
  <2>1. Len(source.methods) \in Nat /\ DOMAIN source.methods = 1..Len(source.methods)
    BY <1>1, LenProperties
  <2>2. served \in Nat
    BY <1>1, <2>1
  <2>3. QED
    BY <2>2, ServicesAssumption
<1>3. Sends(served)
  BY <1>2 DEF Inv
<1>4. QED
  BY <1>2, <1>3 DEF Sends, Operation

\* What a client makes of the answer to its call.
LEMMA Answered ==
  ASSUME Inv, stage = "done", outcome # None, call.operation = served
  PROVE  Operation.kind = "request" /\ result = Decoded(Operation)
<1>1. served # None /\ Operation.kind = "request"
  BY Called
<1>2. result = Decoded(source.methods[served])
  BY <1>1 DEF Inv
<1>3. QED
  BY <1>1, <1>2 DEF Operation
-----------------------------------------------------------------------------
(* The contract.                                                           *)

\* A document is made of the specs of its service.
LEMMA OperationsOf ==
  ASSUME NEW s
  PROVE  LET ops == {i \in DOMAIN s.methods : s.methods[i].kind # "consumer"}
             cons == {i \in DOMAIN s.methods : s.methods[i].kind = "consumer"}
         IN  /\ Document(s).name = s.name /\ Document(s).version = s.version
             /\ Document(s).operations = [i \in ops |-> OperationSpec(s, s.methods[i])]
             /\ Document(s).consumers = [i \in cons |-> ConsumerSpec(s, s.methods[i])]
BY DEF Document

\* What the macro accepts, the contract and the startup validation accept.
LEMMA AcceptedServable == ASSUME Accepts(source), source \in Services PROVE
    LET doc == Document(source)
        deployed == Deployment(doc)
    IN /\ ContractValid(doc)
       /\ SubjectsUnique(doc)
       /\ \A i \in Started(source) : source.methods[i].name \in Range(deployed.endpoints) \cup Range(deployed.consumers)
<1> DEFINE doc == Document(source)
           deployed == Deployment(doc)
           ops == {i \in DOMAIN source.methods : source.methods[i].kind # "consumer"}
           cons == {i \in DOMAIN source.methods : source.methods[i].kind = "consumer"}
           subject(i) == Pattern(Template(source, source.methods[i]))
<1>1. /\ doc.name = source.name /\ doc.version = source.version
      /\ doc.operations = [i \in ops |-> OperationSpec(source, source.methods[i])]
      /\ doc.consumers = [i \in cons |-> ConsumerSpec(source, source.methods[i])]
  BY OperationsOf
<1> HIDE DEF doc
<1>2. ASSUME NEW i \in DOMAIN source.methods
      PROVE  /\ subject(i) # << >>
             /\ OrDefault(source.methods[i].concurrency, source.defaults.concurrency) > 0
             /\ source.methods[i].kind = "consumer" => "" \notin {source.methods[i].stream, source.methods[i].durable}
  <2>1. OperationValid(source, source.methods[i])
    BY DEF Accepts
  <2>2. QED
    BY <2>1, ServicesAssumption DEF OperationValid, SubjectValid, ConsumerValid
<1>3. ASSUME NEW i \in ops, NEW j \in ops, subject(i) = subject(j) PROVE i = j
  BY <1>3 DEF Accepts, SubjectsDiffer
<1>4. /\ DOMAIN doc.operations = ops
      /\ \A i \in ops : /\ doc.operations[i].subject = subject(i) /\ doc.operations[i].name = source.methods[i].name
                        /\ doc.operations[i].concurrency
                             = OrDefault(source.methods[i].concurrency, source.defaults.concurrency)
  <2>1. ASSUME NEW m
        PROVE  /\ OperationSpec(source, m).subject = Pattern(Template(source, m)) /\ OperationSpec(source, m).name = m.name
               /\ OperationSpec(source, m).concurrency = OrDefault(m.concurrency, source.defaults.concurrency)
    BY DEF OperationSpec
  <2> HIDE DEF ops
  <2>2. DOMAIN doc.operations = ops /\ \A i \in ops : doc.operations[i] = OperationSpec(source, source.methods[i])
    BY <1>1
  <2>3. QED
    BY <2>1, <2>2
<1>5. /\ DOMAIN doc.consumers = cons
      /\ \A i \in cons : /\ doc.consumers[i].filter = subject(i) /\ doc.consumers[i].name = source.methods[i].name
                         /\ doc.consumers[i].stream = source.methods[i].stream
                         /\ doc.consumers[i].durable = source.methods[i].durable
                         /\ doc.consumers[i].concurrency
                              = OrDefault(source.methods[i].concurrency, source.defaults.concurrency)
  <2>1. ASSUME NEW m
        PROVE  LET spec == ConsumerSpec(source, m)
               IN  /\ spec.filter = Pattern(Template(source, m)) /\ spec.name = m.name
                   /\ spec.stream = m.stream /\ spec.durable = m.durable
                   /\ spec.concurrency = OrDefault(m.concurrency, source.defaults.concurrency)
    BY DEF ConsumerSpec
  <2> HIDE DEF cons
  <2>2. DOMAIN doc.consumers = cons /\ \A i \in cons : doc.consumers[i] = ConsumerSpec(source, source.methods[i])
    BY <1>1
  <2>3. QED
    BY <2>1, <2>2
<1>6. ops \subseteq DOMAIN source.methods /\ cons \subseteq DOMAIN source.methods
      /\ \A i \in cons : source.methods[i].kind = "consumer"
  OBVIOUS
<1>7. \A i \in Started(source) : i \in ops \/ i \in cons
  BY DEF Started
<1> HIDE DEF ops, cons, subject
<1>8. ContractValid(doc)
  <2>1. doc.name # "" /\ Len(doc.version) = 3 /\ Range(doc.version) \subseteq Numerals
    BY <1>1, ServicesAssumption DEF Accepts
  <2>2. \A i \in DOMAIN doc.operations :
          /\ doc.operations[i].subject # << >> /\ doc.operations[i].concurrency > 0
          /\ \A j \in DOMAIN doc.operations : doc.operations[i].subject = doc.operations[j].subject => i = j
    <3>1. SUFFICES ASSUME NEW i \in ops
                   PROVE  /\ doc.operations[i].subject # << >> /\ doc.operations[i].concurrency > 0
                          /\ \A j \in ops : doc.operations[i].subject = doc.operations[j].subject => i = j
      BY <1>4
    <3>2. i \in DOMAIN source.methods
      BY <1>6
    <3>3. doc.operations[i].subject # << >> /\ doc.operations[i].concurrency > 0
      BY <1>2, <1>4, <3>2
    <3>4. QED
      BY <1>3, <1>4, <3>3
  <2>3. \A i \in DOMAIN doc.consumers :
          /\ "" \notin {doc.consumers[i].stream, doc.consumers[i].durable} /\ doc.consumers[i].filter # << >>
          /\ doc.consumers[i].concurrency > 0
    BY <1>2, <1>5, <1>6
  <2>4. QED
    BY <2>1, <2>2, <2>3 DEF ContractValid
<1>9. SubjectsUnique(doc)
  BY <1>3, <1>4 DEF SubjectsUnique, IsInjective
<1>10. ASSUME NEW i \in Started(source)
       PROVE  source.methods[i].name \in Range(deployed.endpoints) \cup Range(deployed.consumers)
  <2>1. /\ deployed.endpoints = [k \in DOMAIN doc.operations |-> doc.operations[k].name]
        /\ deployed.consumers = [k \in DOMAIN doc.consumers |-> doc.consumers[k].name]
    BY DEF Deployment
  <2> HIDE DEF deployed
  <2>2. CASE i \in ops
    <3>1. i \in DOMAIN deployed.endpoints /\ deployed.endpoints[i] = source.methods[i].name
      BY <1>4, <2>1, <2>2
    <3>2. QED
      BY <3>1 DEF Range
  <2>3. CASE i \in cons
    <3>1. i \in DOMAIN deployed.consumers /\ deployed.consumers[i] = source.methods[i].name
      BY <1>5, <2>1, <2>3
    <3>2. QED
      BY <3>1 DEF Range
  <2>4. QED
    BY <1>7, <2>2, <2>3
<1>11. QED
  BY <1>8, <1>9, <1>10 DEF doc, deployed

\* In particular in the state in which the service is ready.
LEMMA ServableHolds == Inv => AcceptedIsServable
<1> SUFFICES ASSUME Inv, stage = "ready" PROVE AcceptedIsServable
  BY DEF AcceptedIsServable
<1>1. Accepts(source) /\ source \in Services
  BY ServicesAssumption DEF Inv
<1>2. QED
  BY <1>1, AcceptedServable DEF AcceptedIsServable
-----------------------------------------------------------------------------
(* Authentication.                                                         *)

\* NoError is none of the errors that refuse an argument for its credentials.
LEMMA NoErrorCode == NoError.code = None /\ \A k : Framework(401, k) # NoError /\ Framework(403, k) # NoError
<1>1. None \notin Nat
  BY ServicesAssumption
<1>2. 401 \in Nat /\ 403 \in Nat
  OBVIOUS
<1>3. NoError.code = None /\ \A k : Framework(401, k).code = 401 /\ Framework(403, k).code = 403
  BY DEF NoError, Framework
<1>4. QED
  BY <1>1, <1>2, <1>3

\* Credentials that are bound are valid, or missing where they are optional.
LEMMA AuthBound ==
  ASSUME NEW arg, NEW optional, BindingError(arg, [is |-> "auth", optional |-> optional]) = NoError
  PROVE  frame.from.credentials = "valid" \/ (optional /\ frame.from.credentials = "missing")
<1> DEFINE who == frame.from.credentials
<1>1. BindingError(arg, [is |-> "auth", optional |-> optional])
        = IF who = "valid" \/ (optional /\ who = "missing") THEN NoError
          ELSE IF who = "forbidden" THEN Framework(403, "FORBIDDEN") ELSE Framework(401, "UNAUTHORIZED")
  BY DEF BindingError
<1>2. QED
  BY <1>1, NoErrorCode

\* The policy of an operation is that of an argument, and that argument was bound.
LEMMA AuthIsEnforced == Inv => AuthEnforced
<1> SUFFICES ASSUME Inv, outcome # None
             PROVE  LET policy == OperationSpec(source, Operation).auth
                        who == frame.from.credentials
                    IN /\ policy = "required" => who = "valid"
                       /\ policy = "optional" => who \in {"valid", "missing"}
  BY DEF AuthEnforced
<1>1. OperationSpec(source, Operation).auth = Auth(source, Operation)
  BY DEF OperationSpec
<1>2. AuthValid(source, Operation)
  BY Running DEF OperationValid
<1>3. ASSUME NEW optional, HasAuth(source, Operation, optional)
      PROVE  frame.from.credentials = "valid" \/ (optional /\ frame.from.credentials = "missing")
  <2>1. PICK a \in DOMAIN Kinds(source, Operation) :
          Kinds(source, Operation)[a] = [is |-> "auth", optional |-> optional]
    BY <1>3 DEF HasAuth, Range
  <2>2. a \in 1..Len(Operation.args)
    BY Running DEF Kinds
  <2>3. BindingError(Operation.args[a], Kinds(source, Operation)[a]) = NoError
    BY <2>2, Running DEF Handles, Binds
  <2>4. QED
    BY <2>1, <2>3, AuthBound
<1>4. Auth(source, Operation) = "required" => HasAuth(source, Operation, FALSE)
  BY <1>2 DEF AuthValid
<1>5. Auth(source, Operation) = "optional" => HasAuth(source, Operation, TRUE)
  BY <1>2 DEF AuthValid
<1>6. QED
  BY <1>1, <1>3, <1>4, <1>5
-----------------------------------------------------------------------------
(* Responses.                                                              *)

\* What a handler returns survives its codec: the empty values too, that some codecs write as no bytes.
LEMMA WrittenIsRead ==
  ASSUME NEW codec, NEW value, codec = "empty" => value = "unit", codec # "empty" => value \in {"zero", "some"}
  PROVE  ~Unreadable(codec, FALSE, Body(codec, value)) /\ Read(codec, Body(codec, value)) = value
<1>1. CASE codec = "empty" \/ (value = "zero" /\ codec \in {"protobuf", "raw", "utf8"})
  <2>1. Body(codec, value) = << >>
    BY <1>1 DEF Body
  <2>2. codec # "json"
    BY <1>1
  <2>3. QED
    BY <1>1, <2>1, <2>2 DEF Unreadable, Read
<1>2. CASE codec # "empty" /\ ~(value = "zero" /\ codec \in {"protobuf", "raw", "utf8"})
  <2>1. PICK written : Body(codec, value) = <<written, value>> /\ (codec # "utf8" => written = codec)
    BY <1>2 DEF Body
  <2> DEFINE body == <<written, value>>
  <2>2. body # << >> /\ body[1] = written /\ body[2] = value
    OBVIOUS
  <2> HIDE DEF body
  <2>3. QED
    BY <1>2, <2>1, <2>2 DEF Unreadable, Read, body
<1>3. QED
  BY <1>1, <1>2

\* A response arrives, absent or not.
LEMMA ResponsesHold == Inv => ResponsesArrive
<1> DEFINE response == Response(Operation)
<1> SUFFICES ASSUME Inv, stage = "done", outcome # None, call.operation = served, outcome.is = "ok",
                    ~(response.wire = <<"()">> /\ response.codec # "empty")
             PROVE  result = [is |-> "ok", value |-> outcome.value]
  BY DEF ResponsesArrive
<1>1. ReturnsOk
  <2>1. ~ReturnsError
    <3>1. SUFFICES ASSUME ReturnsError PROVE FALSE
      OBVIOUS
    <3>2. PICK v, w : outcome = [is |-> "error", variant |-> v, values |-> w]
      BY <3>1 DEF ReturnsError
    <3>3. outcome.is = "error"
      BY <3>2
    <3>4. QED
      BY <3>3
  <2>2. QED
    BY <2>1, Running DEF Handles
<1>2. PICK value \in OkValues(response) :
        outcome = [is |-> "ok", value |-> value] /\ reply = EncodeResponse(response, value)
  BY <1>1 DEF ReturnsOk
<1> HIDE DEF response
<1>3. /\ response.codec = "empty" => value = "unit"
      /\ response.codec # "empty" => value \in {"zero", "some"} \/ (value = None /\ response.optional)
  BY <1>2 DEF OkValues
<1>4. value = None => response.codec # "empty" /\ response.optional
  <2>1. None \notin {"zero", "some", "unit"}
    BY ServicesAssumption
  <2>2. QED
    BY <1>3, <2>1
<1>5. result = IF response.encrypted # reply.sealed THEN [is |-> "undecryptable"]
               ELSE IF response.optional /\ reply.absent THEN [is |-> "ok", value |-> None]
               ELSE IF Unreadable(response.codec, FALSE, reply.body) THEN [is |-> "undecodable"]
               ELSE [is |-> "ok", value |-> Read(response.codec, reply.body)]
  <2>1. reply.error = NoError
    BY <1>2 DEF EncodeResponse, Answer
  <2>2. QED
    BY <2>1, Answered, NoErrorCode DEF Decoded, response
<1>6. CASE value = None
  <2>1. reply.absent /\ reply.sealed = response.encrypted
    BY <1>2, <1>6 DEF EncodeResponse, Answer
  <2>2. QED
    BY <1>2, <1>4, <1>5, <1>6, <2>1
<1>7. CASE value # None
  <2>1. /\ ~reply.absent /\ reply.sealed = response.encrypted
        /\ reply.body = Body(response.codec, value)
    <3>1. response.wire = <<"()">> => Body(response.codec, value) = << >>
      BY DEF Body
    <3>2. QED
      BY <1>2, <1>7, <3>1 DEF EncodeResponse, Answer
  <2>2. ~Unreadable(response.codec, FALSE, Body(response.codec, value))
        /\ Read(response.codec, Body(response.codec, value)) = value
    BY <1>3, <1>7, WrittenIsRead
  <2>3. QED
    BY <1>2, <1>5, <2>1, <2>2
<1>8. QED
  BY <1>6, <1>7
-----------------------------------------------------------------------------
(* Arguments.                                                              *)

\* A handler's payload is the caller's.
LEMMA PayloadsArrive ==
  ASSUME Inv, outcome # None, call.operation = served, NEW i \in Positions(Operation, "payload")
  PROVE  \/ bound[i] = call.value
         \/ Kinds(source, Operation)[i].optional /\ frame.body = << >> /\ bound[i] = None
<1> DEFINE K == Kinds(source, Operation)
           P == Positions(Operation, "payload")
           value == call.value
           kind == K[i]
<1>1. P = {i}
  <2>1. P \subseteq 1..Len(Operation.args) /\ Len(Operation.args) \in Nat
    BY Running DEF Positions
  <2>2. Cardinality(P) <= 1
    BY Running DEF OperationValid, PayloadsValid, Positions
  <2> HIDE DEF P
  <2>3. IsFiniteSet(P)
    <3> DEFINE n == Len(Operation.args)
    <3>1. P \subseteq 1..n /\ 1 \in Int /\ n \in Int
      BY <2>1
    <3> HIDE DEF n
    <3>2. IsFiniteSet(1..n)
      BY <3>1, FS_Interval
    <3>3. QED
      BY <3>1, <3>2, FS_Subset
  <2>4. Cardinality(P) \in Nat /\ Cardinality(P) # 0
    BY <2>3, FS_CardinalityType, FS_EmptySet DEF P
  <2>5. Cardinality(P) = 1
    BY <2>2, <2>4
  <2>6. QED
    BY <2>3, <2>5, FS_Singleton DEF P
<1>2. kind.is = "payload" /\ i \in 1..Len(Operation.args)
  BY Running DEF Positions
<1>3. bound[i] = IF kind.optional /\ frame.body = << >> THEN None ELSE Read(kind.codec, frame.body)
  <2>1. bound[i] = BoundValue(K[i])
    BY <1>2, Running DEF Handles, Binds
  <2> HIDE DEF K
  <2>2. QED
    BY <1>2, <2>1 DEF BoundValue
<1>4. /\ value = None \/ (kind.codec = "empty" /\ value = "unit") \/ (kind.codec # "empty" /\ value \in {"zero", "some"})
      /\ value = None => kind.optional
  <2>1. value \in PayloadValues(Operation)
    BY Called DEF Sends, Operation
  <2>2. value \in (IF kind.codec = "empty" THEN {"unit"} ELSE {"zero", "some"})
                    \cup (IF kind.optional THEN {None} ELSE {})
    <3> HIDE DEF P, K, value
    <3>1. P # {} /\ \A j \in P : j = i
      BY <1>1
    <3>2. QED
      BY <2>1, <3>1 DEF PayloadValues, P, K
  <2> HIDE DEF value, kind
  <2>3. None \notin {"zero", "some", "unit"}
    BY ServicesAssumption
  <2>4. QED
    BY <2>2, <2>3
<1>5. frame.body = IF value = None THEN << >> ELSE Body(kind.codec, value)
  <2>1. frame.body = PayloadBody(Operation, value)
    BY Called DEF Sends, Operation
  <2> HIDE DEF K, value
  <2>2. PayloadBody(Operation, value) = IF P = {} \/ value = None THEN << >> ELSE Body(K[CHOOSE j \in P : TRUE].codec, value)
    BY DEF PayloadBody, K
  <2> HIDE DEF P
  <2>3. (CHOOSE j \in P : TRUE) = i
    BY <1>1
  <2>4. QED
    BY <1>1, <2>1, <2>2, <2>3
<1> HIDE DEF kind, value
<1>6. CASE value = None
  BY <1>3, <1>4, <1>5, <1>6 DEF value
<1>7. CASE value # None
  <2> DEFINE codec == kind.codec
  <2>1. (codec = "empty" => value = "unit") /\ (codec # "empty" => value \in {"zero", "some"})
    BY <1>4, <1>7
  <2>2. frame.body = Body(codec, value)
    BY <1>5, <1>7
  <2> HIDE DEF codec
  <2>3. Read(codec, Body(codec, value)) = value
    BY <2>1, WrittenIsRead
  <2>4. Read(kind.codec, frame.body) = value
    BY <2>2, <2>3 DEF codec
  <2>5. QED
    BY <1>3, <2>4 DEF kind, value
<1>8. QED
  BY <1>6, <1>7
-----------------------------------------------------------------------------
(* Parameters.                                                             *)

\* What a template is made of.
Segments(s) == [is : {"literal", "param", "malformed"}, text : STRING \cup {"v" \o s.version[1]}]

\* A template is a sequence of segments.
LEMMA TemplateIsSeq ==
  ASSUME NEW s \in Services, NEW m \in Methods, m.kind # "consumer"
  PROVE  Template(s, m) \in Seq(Segments(s))
<1> DEFINE S == Segments(s)
           prefix == [i \in DOMAIN s.prefix |-> Literal(s.prefix[i])]
           version == <<Literal("v" \o s.version[1])>>
           own == IF m.subject = None THEN <<Literal(m.name)>> ELSE m.subject
<1>1. Template(s, m) = prefix \o version \o own
  BY DEF Template
<1>2. prefix \in Seq(S)
  <2>1. s.prefix \in Seq(STRING)
    BY DEF Services
  <2>2. Len(s.prefix) \in Nat /\ DOMAIN s.prefix = 1..Len(s.prefix) /\ \A i \in DOMAIN s.prefix : s.prefix[i] \in STRING
    BY <2>1, LenProperties
  <2>3. prefix \in [1..Len(s.prefix) -> S]
    BY <2>2 DEF Segments, Literal
  <2> HIDE DEF prefix, S
  <2>4. QED
    BY <2>2, <2>3, IsASeq
<1>3. version \in Seq(S)
  BY DEF Segments, Literal
<1>4. own \in Seq(S)
  <2>1. CASE m.subject = None
    <3>1. m.name \in STRING
      BY DEF Methods
    <3>2. Literal(m.name) \in S
      BY <3>1 DEF Segments, Literal
    <3>3. QED
      BY <2>1, <3>2
  <2>2. CASE m.subject # None
    <3>1. m.subject \in Templates
      BY <2>2 DEF Methods, Maybe
    <3> DEFINE given == m.subject
               n == Len(given)
    <3>2. n \in Nat /\ given \in [1..n -> [is : {"literal", "param", "malformed"}, text : STRING]]
      BY <3>1, LenProperties DEF Templates
    <3> HIDE DEF given, n
    <3>3. given \in [1..n -> S]
      BY <3>2 DEF Segments
    <3> HIDE DEF S
    <3>4. given \in Seq(S)
      BY <3>2, <3>3, IsASeq
    <3>5. QED
      BY <2>2, <3>4 DEF given
  <2>3. QED
    BY <2>1, <2>2
<1> HIDE DEF S, prefix, version, own
<1>5. prefix \o version \in Seq(S)
  BY <1>2, <1>3, ConcatProperties
<1>6. QED
  BY <1>1, <1>4, <1>5, ConcatProperties DEF S

\* The segment an argument takes its value from is one of its name, if there is any.
LEMMA SegmentIsNamed ==
  ASSUME NEW template, NEW n \in Nat, Len(template) = n, NEW name
  PROVE  LET named == {j \in 1..n : template[j] = [is |-> "param", text |-> name]}
         IN  /\ SegmentOf(template, name) > 0 <=> named # {}
             /\ SegmentOf(template, name) > 0 => SegmentOf(template, name) \in named
<1> DEFINE named == {j \in 1..n : template[j] = [is |-> "param", text |-> name]}
<1>1. SegmentOf(template, name) = Firsts(named)
  BY DEF SegmentOf, SelectInSeq, Firsts
<1>2. named \in SUBSET (Nat \ {0})
  OBVIOUS
<1>3. /\ Firsts(named) = 0 <=> named = {}
      /\ Firsts(named) # 0 => Firsts(named) \in named
  <2> HIDE DEF named
  <2>1. QED
    BY <1>2, FirstIsLeast
<1>4. Firsts(named) > 0 <=> Firsts(named) # 0
  BY <1>3
<1> HIDE DEF named
<1>5. QED
  BY <1>1, <1>3, <1>4 DEF named

\* An argument is a parameter just if its name is in the template.
LEMMA SubjectArguments ==
  ASSUME NEW s, NEW m, NEW a \in DOMAIN m.args
  PROVE  LET segment == SegmentOf(Template(s, m), m.args[a].name)
         IN  /\ Kinds(s, m)[a].is = "subject" <=> segment > 0
             /\ segment > 0 => Kinds(s, m)[a] = [is |-> "subject", segment |-> segment]
<1>1. Kinds(s, m)[a] = ArgumentKind(s, m, m.args[a])
  BY DEF Kinds
<1>2. Payload(m.args[a].type, s.defaults.codec).is = "payload"
  BY DEF Payload
<1> DEFINE segment == SegmentOf(Template(s, m), m.args[a].name)
<1>3. segment > 0 => ArgumentKind(s, m, m.args[a]) = [is |-> "subject", segment |-> segment]
  BY DEF ArgumentKind
<1>4. ~(segment > 0) => ArgumentKind(s, m, m.args[a]).is # "subject"
  BY <1>2 DEF ArgumentKind
<1> HIDE DEF segment
<1>5. QED
  BY <1>1, <1>3, <1>4 DEF segment

\* A client's call is delivered to its own operation only with a token for each segment of the subject.
LEMMA ParametersArrive ==
  ASSUME Inv, outcome # None, call.operation = served, NEW a \in Positions(Operation, "subject")
  PROVE  call.parameters[a] = <<bound[a]>>
<1> DEFINE m == Operation
           T == Template(source, m)
           n == Len(T)
           name(i) == T[i].text
           Arg(i) == CHOOSE b \in DOMAIN m.args : m.args[b].name = name(i)
           seqs == [i \in DOMAIN T |-> IF T[i].is = "param" THEN call.parameters[Arg(i)] ELSE <<name(i)>>]
           V == STRING \cup {"v" \o source.version[1]}
           P == Positions(m, "subject")
<1>1. m.kind = "request" /\ source \in Services /\ m \in Methods /\ OperationValid(source, m)
  BY Called, Running
<1>2. /\ T \in Seq(Segments(source)) /\ n \in Nat /\ DOMAIN T = 1..n
      /\ \A i \in 1..n : T[i] = [is |-> T[i].is, text |-> name(i)] /\ name(i) \in V /\ T[i].is \in {"literal", "param", "malformed"}
  <2>1. T \in Seq(Segments(source))
    BY <1>1, TemplateIsSeq
  <2> HIDE DEF T
  <2>2. n \in Nat /\ DOMAIN T = 1..n /\ \A i \in 1..n : T[i] \in Segments(source)
    BY <2>1, LenProperties, ElementOfSeq
  <2>3. \A i \in 1..n : T[i] = [is |-> T[i].is, text |-> name(i)] /\ name(i) \in V /\ T[i].is \in {"literal", "param", "malformed"}
    BY <2>2 DEF Segments
  <2>4. QED
    BY <2>1, <2>2, <2>3
<1>3. TemplateParses("request", T) /\ SubjectValid(Pattern(T)) /\ PlaceholdersValid(T, m)
  BY <1>1 DEF OperationValid
<1>4. frame.subject = FlattenSeq(seqs) /\ call.parameters \in [P -> Tokens]
  <2>1. frame.subject = SubjectExpression(m, call.parameters) /\ call.parameters \in Parameters(m)
    BY Called DEF Sends, Operation
  <2>2. QED
    BY <2>1 DEF SubjectExpression, Parameters
<1>5. served \in Listening
  BY Running DEF Handles
<1>6. Matches(Pattern(T), frame.subject)
  BY <1>5 DEF Listening, Operation
<1>7. \A b, c \in DOMAIN m.args : m.args[b].name = m.args[c].name => b = c
  <2>1. source \in Sources /\ served \in DOMAIN source.methods
    BY Running DEF Inv
  <2>2. QED
    BY <2>1, ServicesAssumption DEF Operation
<1> HIDE DEF T, m
<1>8. /\ Pattern(T) \in Seq(V \cup {"*"}) /\ Len(Pattern(T)) = n /\ n # 0
      /\ \A i \in 1..n : Pattern(T)[i] = IF T[i].is = "param" THEN "*" ELSE name(i)
  <2>1. Pattern(T) = [i \in 1..n |-> IF T[i].is = "param" THEN "*" ELSE name(i)]
    BY <1>2 DEF Pattern
  <2>2. Pattern(T) \in [1..n -> V \cup {"*"}]
    BY <1>2, <2>1
  <2> HIDE DEF n, V, name
  <2>3. Pattern(T) \in Seq(V \cup {"*"}) /\ Len(Pattern(T)) = n
    BY <1>2, <2>2, IsASeq, LenProperties
  <2>4. Pattern(T) # << >>
    BY <1>3 DEF SubjectValid
  <2>5. n # 0
    BY <2>3, <2>4, EmptySeq
  <2>6. QED
    BY <2>1, <2>3, <2>5
<1>9. Len(frame.subject) = n
  <2>1. n \in 1..n
    BY <1>2, <1>8
  <2>2. T[n].is # "malformed" /\ T[n] # Literal(">")
    BY <1>2, <1>3, <2>1 DEF TemplateParses
  <2>3. Pattern(T)[n] # ">"
    <3>1. CASE T[n].is = "param"
      BY <1>8, <2>1, <3>1
    <3>2. CASE T[n].is # "param"
      <4>1. T[n].is = "literal" /\ T[n] = [is |-> T[n].is, text |-> name(n)]
        BY <1>2, <2>1, <2>2, <3>2
      <4>2. name(n) # ">"
        BY <2>2, <4>1 DEF Literal
      <4>3. QED
        BY <1>8, <2>1, <3>2, <4>2
    <3>3. QED
      BY <3>1, <3>2
  <2> HIDE DEF n
  <2>4. QED
    BY <1>6, <1>8, <2>3 DEF Matches
<1> DEFINE segment(b) == SegmentOf(T, m.args[b].name)
<1>10. ASSUME NEW b \in DOMAIN m.args, NEW i \in 1..n, T[i].is = "param", name(i) = m.args[b].name
       PROVE  b \in P /\ Arg(i) = b
  <2>1. T[i] = [is |-> "param", text |-> m.args[b].name]
    BY <1>2, <1>10
  <2>2. segment(b) > 0
    <3> DEFINE who == m.args[b].name
    <3>1. T[i] = [is |-> "param", text |-> who] /\ n \in Nat
      BY <1>2, <2>1
    <3> HIDE DEF who, n
    <3>2. SegmentOf(T, who) > 0
      BY <3>1, SegmentIsNamed DEF n
    <3>3. QED
      BY <3>2 DEF who
  <2>3. Kinds(source, m)[b].is = "subject"
    BY <2>2, SubjectArguments DEF T
  <2>4. Arg(i) = b
    BY <1>7, <1>10
  <2>5. QED
    BY <2>3, <2>4 DEF Positions
<1>11. ASSUME NEW i \in 1..n, T[i].is = "param" PROVE Arg(i) \in P
  <2>1. \E b \in DOMAIN m.args : m.args[b].name = name(i)
    BY <1>2, <1>3, <1>11 DEF PlaceholdersValid, Placeholders
  <2>2. QED
    BY <1>10, <1>11, <2>1
<1>12. \A i \in 1..n : seqs[i] \in Seq(V) /\ seqs[i] # << >>
  <2>1. SUFFICES ASSUME NEW i \in 1..n PROVE seqs[i] \in Seq(V) /\ seqs[i] # << >>
    OBVIOUS
  <2>2. CASE T[i].is = "param"
    <3> DEFINE tokens == call.parameters[Arg(i)]
    <3>1. tokens \in Tokens /\ seqs[i] = tokens
      BY <1>2, <1>4, <1>11, <2>2
    <3> HIDE DEF tokens, seqs
    <3>2. tokens \in Seq(STRING) /\ tokens # << >>
      BY <3>1, ServicesAssumption
    <3>3. Len(tokens) \in Nat /\ tokens \in [1..Len(tokens) -> STRING]
      BY <3>2, LenProperties
    <3>4. tokens \in [1..Len(tokens) -> V]
      BY <3>3
    <3> HIDE DEF V
    <3>5. tokens \in Seq(V)
      BY <3>3, <3>4, IsASeq
    <3>6. QED
      BY <3>1, <3>2, <3>5
  <2>3. CASE T[i].is # "param"
    <3>1. seqs[i] = <<name(i)>> /\ name(i) \in V
      BY <1>2, <2>3
    <3> HIDE DEF seqs, name, V
    <3>2. QED
      BY <3>1
  <2>4. QED
    BY <2>2, <2>3
<1>13. Len(seqs) = n
  <2>1. seqs \in [1..n -> Seq(V)]
    BY <1>2, <1>12
  <2> HIDE DEF seqs, V, n
  <2>2. QED
    BY <1>2, <2>1, IsASeq, LenProperties
<1>14. \A i \in 1..n : seqs[i] = <<frame.subject[i]>>
  <2> DEFINE subject == frame.subject
  <2>1. subject = FlattenSeq(seqs) /\ Len(subject) = n
    BY <1>4, <1>9
  <2> HIDE DEF seqs, V, n, subject
  <2>2. n \in Nat \ {0}
    BY <1>2, <1>8
  <2>3. \A i \in 1..n : seqs[i] = <<subject[i]>>
    BY <1>12, <1>13, <2>1, <2>2, Flattened
  <2>4. QED
    BY <2>3 DEF subject
<1> DEFINE k == segment(a)
<1>15. /\ a \in DOMAIN m.args /\ k > 0
       /\ Kinds(source, m)[a] = [is |-> "subject", segment |-> k]
  <2>1. a \in DOMAIN m.args /\ Kinds(source, m)[a].is = "subject"
    BY DEF Positions, m
  <2>2. QED
    BY <2>1, SubjectArguments DEF T
<1>16. k \in 1..n /\ T[k] = [is |-> "param", text |-> m.args[a].name]
  <2> DEFINE who == m.args[a].name
             first == SegmentOf(T, who)
  <2>1. n \in Nat /\ first > 0 /\ k = first
    BY <1>2, <1>15
  <2> HIDE DEF who, n, k
  <2>2. first \in {j \in 1..n : T[j] = [is |-> "param", text |-> who]}
    BY <2>1, SegmentIsNamed DEF n
  <2> HIDE DEF first
  <2>3. QED
    BY <2>1, <2>2 DEF who
<1>17. seqs[k] = call.parameters[a]
  <2>1. T[k].is = "param" /\ name(k) = m.args[a].name
    BY <1>16
  <2>2. Arg(k) = a
    BY <1>10, <1>15, <1>16, <2>1
  <2> HIDE DEF k, Arg
  <2>3. QED
    BY <1>2, <1>16, <2>1, <2>2
<1>18. bound[a] = frame.subject[k]
  <2>1. bound[a] = BoundValue(Kinds(source, m)[a])
    BY <1>15, Running DEF Handles, Binds, m
  <2>2. QED
    BY <1>15, <2>1 DEF BoundValue
<1>19. QED
  BY <1>14, <1>16, <1>17, <1>18

\* Parameters and payload arrive.
LEMMA ArgumentsHold == Inv => ArgumentsArrive
<1> SUFFICES ASSUME Inv, outcome # None, call.operation = served PROVE ArgumentsArrive
  BY DEF ArgumentsArrive
<1>1. QED
  BY PayloadsArrive, ParametersArrive DEF ArgumentsArrive
-----------------------------------------------------------------------------
(* Errors.                                                                 *)

\* A client finds the arm of the variant the server returned: no other arm has its code and kind.
LEMMA ArmOfVariant ==
  ASSUME NEW enum, NEW n \in Nat, DOMAIN enum.variants = 1..n, Len(enum.variants) = n, Errors!KindsDiffer(enum),
         NEW i \in 1..n, NEW response,
         response.code = Errors!Code(enum.variants[i]), response.kind = Errors!Kind(enum.variants[i])
  PROVE  Errors!FromNatsErrorResponse(enum, response)
           = IF Errors!IsInternal(enum.variants[i]) THEN Errors!Untyped
             ELSE Errors!FromResponse(enum.variants[i], response)
<1> DEFINE v == enum.variants[i]
           arms == {k \in 1..n : /\ ~Errors!Generic(enum.variants[k])
                                 /\ Errors!Code(enum.variants[k]) = response.code
                                 /\ Errors!Kind(enum.variants[k]) = response.kind}
           arm == Firsts(arms)
<1>1. Errors!FromNatsErrorResponse(enum, response)
        = IF arm = 0 \/ Errors!IsInternal(enum.variants[arm]) THEN Errors!Untyped
          ELSE Errors!FromResponse(enum.variants[arm], response)
  BY DEF Errors!FromNatsErrorResponse, Errors!SelectInSeq, Errors!Min, Min, Firsts
<1>2. \A k \in 1..n : k # i /\ <<Errors!Code(v), Errors!Kind(v)>> = <<Errors!Code(enum.variants[k]), Errors!Kind(enum.variants[k])>>
        => Errors!Generic(v) /\ Errors!Generic(enum.variants[k])
  BY DEF Errors!KindsDiffer
<1>3. arms \in SUBSET (Nat \ {0})
  OBVIOUS
<1>4. CASE Errors!Generic(v)
  <2>1. arms = {}
    BY <1>2, <1>4
  <2>2. arm = 0
    BY <1>3, <2>1, FirstIsLeast
  <2>3. Errors!IsInternal(v)
    BY <1>4 DEF Errors!Generic
  <2> HIDE DEF arm
  <2>4. QED
    BY <1>1, <2>2, <2>3
<1>5. CASE ~Errors!Generic(v)
  <2>1. arms = {i}
    BY <1>2, <1>5
  <2>2. arm = i
    <3> HIDE DEF arms
    <3>1. QED
      BY <1>3, <2>1, FirstIsLeast
  <2> HIDE DEF arm
  <2>3. QED
    BY <1>1, <2>2
<1>6. QED
  BY <1>4, <1>5

\* A variant's fields come back from the wire, or it says there is none of it.
LEMMA FieldsArrive ==
  ASSUME NEW v \in Variants, v.shape = "unit" => v.fields = << >>, ~Errors!IsInternal(v),
         NEW values \in [DOMAIN v.fields -> Values],
         NEW response, response.details = Errors!Details(v, values)
  PROVE  \/ Errors!FromResponse(v, response) = Errors!Typed(v, values)
         \/ /\ Errors!FromResponse(v, response) = Errors!Untyped
            /\ \/ Errors!HasSkipped(v) \/ (v.fields = << >> /\ v.shape # "unit")
               \/ Range(values) \cap Unserialisable # {}
<1> DEFINE W == Errors!WireFields(v)
           D == Errors!Details(v, values)
<1>1. v.fields \in Seq(Fields)
  BY DEF Variants
<1>2. CASE v.shape = "unit"
  <2>1. values = << >>
    BY <1>2
  <2>2. QED
    BY <1>2, <2>1 DEF Errors!FromResponse
<1>3. CASE v.shape # "unit" /\ Errors!IsText(v)
  <2>1. W = {1} /\ Len(v.fields) = 1
    BY <1>3 DEF Errors!IsText
  <2>2. D = <<"string", values[1]>>
    <3> HIDE DEF W
    <3>1. QED
      BY <1>3, <2>1 DEF Errors!Details, W
  <2>3. Errors!FromResponse(v, response) = Errors!Typed(v, <<values[1]>>)
    BY <1>3, <2>2 DEF Errors!FromResponse
  <2>4. DOMAIN v.fields = 1..1
    BY <1>1, <2>1, LenProperties
  <2>5. values = <<values[1]>>
    BY <2>4
  <2>6. QED
    BY <2>3, <2>5
<1>4. CASE v.shape # "unit" /\ ~Errors!IsText(v)
  <2>1. Errors!FromResponse(v, response)
          = IF Errors!HasSkipped(v) \/ D[1] # "tuple" \/ DOMAIN D[2] # DOMAIN v.fields THEN Errors!Untyped
            ELSE Errors!Typed(v, D[2])
    BY <1>4 DEF Errors!FromResponse
  <2>2. D = IF W = {} THEN Errors!NoDetails
            ELSE IF \E i \in W : values[i] \in Unserialisable THEN Errors!NoDetails
            ELSE <<"tuple", [i \in W |-> values[i]]>>
    BY <1>4 DEF Errors!Details
  <2>3. Errors!HasSkipped(v) \/ W = DOMAIN v.fields
    BY DEF Errors!HasSkipped
  <2>4. Errors!NoDetails[1] # "tuple"
    BY DEF Errors!NoDetails
  <2> HIDE DEF W, D
  <2>5. CASE Errors!HasSkipped(v)
    BY <2>1, <2>5
  <2>6. CASE ~Errors!HasSkipped(v) /\ W = {}
    <3>1. v.fields = << >>
      BY <1>1, <2>3, <2>6, EmptySeq, LenProperties
    <3>2. QED
      BY <1>4, <2>1, <2>2, <2>4, <2>6, <3>1
  <2>7. CASE ~Errors!HasSkipped(v) /\ W # {} /\ \E i \in W : values[i] \in Unserialisable
    <3>1. Range(values) \cap Unserialisable # {}
      BY <2>3, <2>7 DEF Range
    <3>2. QED
      BY <2>1, <2>2, <2>4, <2>7, <3>1
  <2>8. CASE ~Errors!HasSkipped(v) /\ W # {} /\ ~\E i \in W : values[i] \in Unserialisable
    <3>1. D = <<"tuple", values>>
      BY <2>2, <2>3, <2>8
    <3>2. QED
      BY <2>1, <2>8, <3>1
  <2>9. QED
    BY <2>5, <2>6, <2>7, <2>8
<1>5. QED
  BY <1>2, <1>3, <1>4

\* Of an error everything arrives or nothing.
LEMMA ErrorsHold == Inv => ErrorsArrive
<1> DEFINE v == outcome.variant
           values == outcome.values
           whole == /\ ~Errors!HasSkipped(v) /\ (v.fields # << >> \/ v.shape = "unit")
                    /\ Range(outcome.values) \cap Unserialisable = {}
<1> SUFFICES ASSUME Inv, stage = "done", outcome # None, call.operation = served, outcome.is = "error"
             PROVE  IF Errors!IsInternal(v)
                    THEN result = Errors!Untyped /\ reply.error.details = Errors!NoDetails
                         /\ reply.error.message = Errors!HiddenMessage
                    ELSE \/ result = Errors!Typed(v, values)
                         \/ ~whole /\ result = Errors!Untyped
  BY DEF ErrorsArrive, Errors!IsInternal
<1> DEFINE enum == Operation.error
<1>1. ReturnsError
  <2>1. ~ReturnsOk
    BY DEF ReturnsOk
  <2>2. QED
    BY <2>1, Running DEF Handles
<1>2. PICK i \in DOMAIN enum.variants :
        \E w \in [DOMAIN enum.variants[i].fields -> Values] :
          /\ outcome = [is |-> "error", variant |-> enum.variants[i], values |-> w]
          /\ reply = Answer(Errors!IntoNatsError(enum.variants[i], w), FALSE, << >>, FALSE)
  BY <1>1 DEF ReturnsError
<1>3. /\ v = enum.variants[i] /\ values \in [DOMAIN v.fields -> Values]
      /\ reply = Answer(Errors!IntoNatsError(v, values), FALSE, << >>, FALSE)
  BY <1>2
<1>4. enum # None /\ enum \in ErrorEnums
  BY <1>1, Running DEF ReturnsError, Methods, Maybe
<1>5. Errors!KindsDiffer(enum) /\ Errors!VariantValid(enum, v)
  <2>1. Errors!Expands(enum)
    BY <1>4, Running DEF Compiles, Operation
  <2>2. QED
    BY <1>3, <2>1 DEF Errors!Expands
<1>6. enum.variants \in Seq(Variants) /\ v \in Variants /\ DOMAIN enum.variants = 1..Len(enum.variants) /\ Len(enum.variants) \in Nat
  BY <1>2, <1>3, <1>4, ElementOfSeq, LenProperties DEF ErrorEnums
<1>7. v.shape = "unit" => v.fields = << >>
  <2>1. v \in Range(enum.variants)
    BY <1>2, <1>3 DEF Range
  <2>2. source \in Sources /\ served \in DOMAIN source.methods
    BY Running DEF Inv
  <2>3. QED
    BY <1>4, <2>1, <2>2, ServicesAssumption DEF Operation
<1> HIDE DEF v, values
<1>8. /\ reply.error = Errors!IntoNatsError(v, values)
      /\ reply.error.code = Errors!Code(v) /\ reply.error.kind = Errors!Kind(v)
      /\ reply.error.details = Errors!Details(v, values)
      /\ Errors!IsInternal(v) => reply.error.message = Errors!HiddenMessage
  BY <1>3 DEF Answer, Errors!IntoNatsError
<1>9. Errors!Code(v) # None
  <2>1. Errors!Code(v) \in Nat
    BY <1>6 DEF Errors!Code, Variants, Maybe
  <2>2. QED
    BY <2>1, ServicesAssumption
<1>10. result = Errors!FromNatsErrorResponse(enum, reply.error)
  BY <1>4, <1>8, <1>9, Answered DEF Decoded
<1>11. result = IF Errors!IsInternal(v) THEN Errors!Untyped ELSE Errors!FromResponse(v, reply.error)
  <2> DEFINE n == Len(enum.variants)
             response == reply.error
  <2>0. /\ n \in Nat /\ DOMAIN enum.variants = 1..n /\ i \in 1..n /\ Errors!KindsDiffer(enum)
        /\ response.code = Errors!Code(enum.variants[i]) /\ response.kind = Errors!Kind(enum.variants[i])
    BY <1>2, <1>3, <1>5, <1>6, <1>8
  <2> HIDE DEF enum, response, n
  <2>5. n = Len(enum.variants)
    BY DEF n
  <2>1. Errors!FromNatsErrorResponse(enum, response)
          = IF Errors!IsInternal(enum.variants[i]) THEN Errors!Untyped
            ELSE Errors!FromResponse(enum.variants[i], response)
    BY <2>0, <2>5, ArmOfVariant
  <2>2. QED
    BY <1>3, <1>10, <2>1 DEF response
<1>12. CASE Errors!IsInternal(v)
  BY <1>8, <1>11, <1>12 DEF Errors!Details
<1>13. CASE ~Errors!IsInternal(v)
  <2>1. \/ result = Errors!Typed(v, values)
        \/ /\ result = Errors!Untyped
           /\ \/ Errors!HasSkipped(v) \/ (v.fields = << >> /\ v.shape # "unit")
              \/ Range(values) \cap Unserialisable # {}
    BY <1>3, <1>6, <1>7, <1>8, <1>11, <1>13, FieldsArrive
  <2>2. QED
    BY <1>13, <2>1 DEF values
<1>14. QED
  BY <1>12, <1>13
-----------------------------------------------------------------------------
(* The theorems.                                                           *)

\* Inv holds in every state of every service.
THEOREM Invariance == Spec => []Inv
BY InitInv, NextInv, PTL DEF Spec

\* A service that the macro and rustc accept has a contract that its own validation takes, subjects
\* that no two of its operations share, and a deployment that names all it starts.
THEOREM AcceptedServicesStart == Spec => []AcceptedIsServable
BY ServableHolds, Invariance, PTL

\* No handler runs without the credentials that the contract says it requires, nor with bad ones
\* where they are optional: whoever sent the message, and by whatever subject it came.
THEOREM PoliciesAreKept == Spec => []AuthEnforced
BY AuthIsEnforced, Invariance, PTL

\* Whatever tokens a caller puts in a subject, the operation it called gets them in their places, or
\* is not the one that is reached; and it gets the payload.
THEOREM CallsArrive == Spec => []ArgumentsArrive
BY ArgumentsHold, Invariance, PTL

\* Under every codec a client gets what the handler returned, if it is of the type the client expects.
THEOREM AnswersArrive == Spec => []ResponsesArrive
BY ResponsesHold, Invariance, PTL

\* For every enum of errors that compiles, a client gets the variant that was returned, whole, or no
\* variant; and of an internal error no text or field is on the wire.
THEOREM ErrorsArriveWhole == Spec => []ErrorsArrive
BY ErrorsHold, Invariance, PTL
=====================================================================================
