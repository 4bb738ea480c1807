----------------------- MODULE JetStreamSimulatorProofs -----------------------
(***************************************************************************)
(* Proofs about the JetStream simulator, for any consumers, messages and   *)
(* runners: no copy of a message is lost or doubled, its dead letters are  *)
(* exact, first attempts keep the order of publication, and the whole      *)
(* implements DurableConsumer.                                             *)
(***************************************************************************)
EXTENDS JetStreamSimulator, FiniteSetTheorems, SequenceTheorems, TLAPS

(* Sequences and numbers.                                                  *)

\* A sequence without its k-th element.
LEMMA Removed ==
  ASSUME NEW S, NEW s \in Seq(S), NEW k \in 1..Len(s)
  PROVE  /\ RemoveAt(s, k) \in Seq(S)
         /\ Len(RemoveAt(s, k)) = Len(s) - 1
         /\ \A i \in 1..(Len(s) - 1) : RemoveAt(s, k)[i] = IF i < k THEN s[i] ELSE s[i + 1]
<1> DEFINE a == SubSeq(s, 1, k - 1)
           b == SubSeq(s, k + 1, Len(s))
<1>1. Len(s) \in Nat /\ \A i \in 1..Len(s) : s[i] \in S
  BY LenProperties, ElementOfSeq
<1>2. /\ a \in Seq(S) /\ Len(a) = k - 1
      /\ \A i \in 1..(k - 1) : a[i] = s[i]
  BY <1>1, SubSeqProperties
<1>3. /\ b \in Seq(S) /\ Len(b) = Len(s) - k
      /\ \A i \in 1..(Len(s) - k) : b[i] = s[k + i]
  <2>1. \A i \in (k + 1)..Len(s) : s[i] \in S
    BY <1>1
  <2>2. /\ b \in Seq(S) /\ Len(b) = IF k + 1 <= Len(s) THEN Len(s) - (k + 1) + 1 ELSE 0
        /\ \A i \in 1..(Len(s) - (k + 1) + 1) : b[i] = s[(k + 1) + i - 1]
    BY <1>1, <2>1, SubSeqProperties
  <2>3. QED
    BY <1>1, <2>2
<1> HIDE DEF a, b
<1>4. /\ a \o b \in Seq(S) /\ Len(a \o b) = Len(s) - 1
      /\ \A i \in 1..(Len(s) - 1) : (a \o b)[i] = IF i <= k - 1 THEN a[i] ELSE b[i - (k - 1)]
  BY <1>1, <1>2, <1>3, ConcatProperties
<1>5. \A i \in 1..(Len(s) - 1) : (a \o b)[i] = IF i < k THEN s[i] ELSE s[i + 1]
  <2> SUFFICES ASSUME NEW i \in 1..(Len(s) - 1) PROVE (a \o b)[i] = IF i < k THEN s[i] ELSE s[i + 1]
    OBVIOUS
  <2>1. CASE i < k
    BY <1>1, <1>2, <1>4, <2>1
  <2>2. CASE ~(i < k)
    <3>1. i - (k - 1) \in 1..(Len(s) - k) /\ k + (i - (k - 1)) = i + 1
      BY <1>1, <2>2
    <3>2. QED
      BY <1>1, <1>3, <1>4, <2>2, <3>1
  <2>3. QED
    BY <2>1, <2>2
<1>6. QED
  BY <1>4, <1>5 DEF RemoveAt, a, b

\* A set of natural numbers has a least element.
LEMMA Least ==
  ASSUME NEW T \in SUBSET Nat, T # {}
  PROVE  \E i \in T : \A j \in T : i <= j
<1>1. IsWellFoundedOn(OpToRel(<, Nat), Nat)
  BY NatLessThanWellFounded
<1>2. PICK i \in T : \A j \in T : ~(<<j, i>> \in OpToRel(<, Nat))
  BY <1>1, WFMin
<1>3. \A j \in T : ~(j < i)
  BY <1>2 DEF OpToRel
<1>4. QED
  BY <1>3

\* SetToSeq lists a finite set, each element once.
LEMMA Listed ==
  ASSUME NEW S, IsFiniteSet(S)
  PROVE  /\ SetToSeq(S) \in Seq(S)
         /\ \A i, j \in 1..Len(SetToSeq(S)) : SetToSeq(S)[i] = SetToSeq(S)[j] => i = j
         /\ {SetToSeq(S)[i] : i \in 1..Len(SetToSeq(S))} = S
<1> DEFINE n == Cardinality(S)
           f == SetToSeq(S)
<1>1. n \in Nat /\ ExistsBijection(1..n, S)
  BY FS_CardinalityType
<1>2. \E g \in [1..n -> S] : IsInjective(g)
  BY <1>1 DEF ExistsBijection, Bijection, Injection
<1>3. f \in [1..n -> S] /\ IsInjective(f)
  BY <1>2 DEF SetToSeq
<1>4. IsFiniteSet(1..n) /\ Cardinality(1..n) = n
  BY <1>1, FS_Interval
<1>5. f \in Surjection(1..n, S)
  BY <1>1, <1>3, <1>4, FS_Injection DEF Injection
<1> HIDE DEF n, f
<1>6. f \in Seq(S) /\ Len(f) = n
  BY <1>1, <1>3, SeqDef, LenProperties
<1>7. QED
  BY <1>3, <1>5, <1>6 DEF IsInjective, Surjection, f
-----------------------------------------------------------------------------
(* Where the copies are.                                                   *)

Hows == {"acked", "termed", "exhausted", "lost"}
Live == {p \in Runners : runner[p] # Idle}
CopiesOf(s) == {Copy(s[i]) : i \in DOMAIN s}
Distinct(s) == \A i, j \in DOMAIN s : Copy(s[i]) = Copy(s[j]) => i = j
Taken == {Copy(runner[p].held) : p \in Live}

\* The runners: whoever is not idle holds a delivery, no two one of the same copy.
RunnerInv ==
  /\ runner \in [Runners -> {Idle} \cup [doing : {"taken", "timing out", "handling"}, held : Delivery]]
  /\ \A p, q \in Live : Copy(runner[p].held) = Copy(runner[q].held) => p = q

\* The ends: each copy at most one.
EndInv ==
  /\ settled \in [Hows -> SUBSET Copies]
  /\ \A how, other \in Hows : how # other => settled[how] \cap settled[other] = {}

\* The three places a copy can be in share none.
PlaceInv ==
  /\ Distinct(pending)
  /\ owed = CopiesOf(pending) \cup Taken \cup Done
  /\ CopiesOf(pending) \cap Taken = {}
  /\ CopiesOf(pending) \cap Done = {}
  /\ Taken \cap Done = {}
  /\ \A c \in owed : c[1] \in published

\* A first attempt is due from the start.
FirstInv == \A i \in DOMAIN pending : pending[i].attempt = 1 => pending[i].wait = 0

\* What is typed and is in none of the parts above.
RestType ==
  /\ registered \in SUBSET Durables
  /\ deliveries \in [Durables -> Nat]
  /\ timeoutNext \in Seq(Durables) /\ Len(timeoutNext) <= MaxTimeouts
  /\ published \in SUBSET Messages
  /\ owed \in SUBSET Copies

LogInv == log \in Seq(Copies) /\ DeadLettersExact

Inv ==
  /\ pending \in Seq(Delivery)
  /\ RestType
  /\ RunnerInv
  /\ EndInv
  /\ PlaceInv
  /\ LogInv
  /\ FirstInv

\* The copy of a delivery, which its attempt and its delay are no part of.
LEMMA CopyIsPair ==
  /\ \A v \in Delivery : Copy(v) \in Copies /\ v.durable = Copy(v)[2]
  /\ \A v \in Delivery : \A n \in Nat \ {0} : \A t \in Nat :
       /\ [v EXCEPT !.attempt = n, !.wait = t] \in Delivery
       /\ Copy([v EXCEPT !.attempt = n, !.wait = t]) = Copy(v)
BY DEF Copy, Copies, Delivery

\* A queue without its k-th delivery has all copies but that one.
LEMMA Shortened ==
  ASSUME NEW s \in Seq(Delivery), Distinct(s), NEW k \in 1..Len(s)
  PROVE  /\ RemoveAt(s, k) \in Seq(Delivery)
         /\ CopiesOf(RemoveAt(s, k)) = CopiesOf(s) \ {Copy(s[k])}
         /\ Distinct(RemoveAt(s, k))
         /\ \A i \in DOMAIN RemoveAt(s, k) : \E j \in DOMAIN s : RemoveAt(s, k)[i] = s[j]
<1> DEFINE r == RemoveAt(s, k)
<1>1. /\ Len(s) \in Nat /\ DOMAIN s = 1..Len(s)
      /\ r \in Seq(Delivery) /\ Len(r) = Len(s) - 1
      /\ \A i \in 1..(Len(s) - 1) : r[i] = IF i < k THEN s[i] ELSE s[i + 1]
  BY Removed, LenProperties
<1>2. DOMAIN r = 1..(Len(s) - 1)
  BY <1>1, LenProperties
<1> HIDE DEF r
<1>3. \A i \in DOMAIN r : \E j \in DOMAIN s : r[i] = s[j] /\ j # k /\ j = IF i < k THEN i ELSE i + 1
  BY <1>1, <1>2
<1>4. \A j \in DOMAIN s : j # k => \E i \in DOMAIN r : r[i] = s[j]
  <2> SUFFICES ASSUME NEW j \in DOMAIN s, j # k PROVE \E i \in DOMAIN r : r[i] = s[j]
    OBVIOUS
  <2>1. CASE j < k
    <3>1. j \in DOMAIN r /\ r[j] = s[j]
      BY <1>1, <1>2, <2>1
    <3>2. QED
      BY <3>1
  <2>2. CASE j > k
    <3>1. j - 1 \in DOMAIN r /\ r[j - 1] = s[(j - 1) + 1] /\ (j - 1) + 1 = j
      BY <1>1, <1>2, <2>2
    <3>2. QED
      BY <3>1
  <2>3. QED
    BY <1>1, <2>1, <2>2
<1>5. Distinct(r)
  <2> SUFFICES ASSUME NEW i \in DOMAIN r, NEW j \in DOMAIN r, Copy(r[i]) = Copy(r[j]) PROVE i = j
    BY DEF Distinct
  <2>1. PICK a \in DOMAIN s : r[i] = s[a] /\ a = IF i < k THEN i ELSE i + 1
    BY <1>3
  <2>2. PICK b \in DOMAIN s : r[j] = s[b] /\ b = IF j < k THEN j ELSE j + 1
    BY <1>3
  <2>3. a = b
    BY <2>1, <2>2 DEF Distinct
  <2>4. QED
    BY <1>1, <1>2, <2>1, <2>2, <2>3
<1>6. CopiesOf(r) = CopiesOf(s) \ {Copy(s[k])}
  <2>1. \A i \in DOMAIN r : Copy(r[i]) \in CopiesOf(s) \ {Copy(s[k])}
    BY <1>1, <1>3 DEF Distinct, CopiesOf
  <2>2. \A j \in DOMAIN s : Copy(s[j]) # Copy(s[k]) => Copy(s[j]) \in CopiesOf(r)
    BY <1>4 DEF CopiesOf
  <2>3. QED
    BY <2>1, <2>2 DEF CopiesOf
<1>7. QED
  BY <1>1, <1>3, <1>5, <1>6 DEF r

\* The queue r is s with t behind it.
Behind(r, s, t) ==
  /\ r \in Seq(Delivery)
  /\ Len(r) = Len(s) + Len(t)
  /\ \A i \in 1..(Len(s) + Len(t)) : r[i] = IF i <= Len(s) THEN s[i] ELSE t[i - Len(s)]

\* Deliveries queued behind others, of none of their copies.
LEMMA Joined ==
  ASSUME NEW s \in Seq(Delivery), NEW t \in Seq(Delivery), NEW r, Behind(r, s, t),
         Distinct(s), Distinct(t), CopiesOf(s) \cap CopiesOf(t) = {}
  PROVE  /\ CopiesOf(r) = CopiesOf(s) \cup CopiesOf(t)
         /\ Distinct(r)
         /\ \A i \in DOMAIN r : \/ \E j \in DOMAIN s : r[i] = s[j]
                               \/ \E j \in DOMAIN t : r[i] = t[j]
<1>1. /\ Len(s) \in Nat /\ DOMAIN s = 1..Len(s) /\ Len(t) \in Nat /\ DOMAIN t = 1..Len(t)
      /\ r \in Seq(Delivery) /\ Len(r) = Len(s) + Len(t)
      /\ \A i \in 1..(Len(s) + Len(t)) : r[i] = IF i <= Len(s) THEN s[i] ELSE t[i - Len(s)]
  BY LenProperties DEF Behind
<1>2. DOMAIN r = 1..(Len(s) + Len(t))
  BY <1>1, LenProperties
<1>3. \A i \in DOMAIN r : \/ i \in DOMAIN s /\ r[i] = s[i]
                          \/ i > Len(s) /\ i - Len(s) \in DOMAIN t /\ r[i] = t[i - Len(s)]
  BY <1>1, <1>2
<1>4. \A j \in DOMAIN s : j \in DOMAIN r /\ r[j] = s[j]
  BY <1>1, <1>2
<1>5. \A j \in DOMAIN t : j + Len(s) \in DOMAIN r /\ r[j + Len(s)] = t[j]
  <2> SUFFICES ASSUME NEW j \in DOMAIN t PROVE j + Len(s) \in DOMAIN r /\ r[j + Len(s)] = t[j]
    OBVIOUS
  <2>1. j + Len(s) \in 1..(Len(s) + Len(t)) /\ ~(j + Len(s) <= Len(s)) /\ (j + Len(s)) - Len(s) = j
    BY <1>1
  <2>2. QED
    BY <1>1, <1>2, <2>1
<1>6. CopiesOf(r) = CopiesOf(s) \cup CopiesOf(t)
  BY <1>3, <1>4, <1>5 DEF CopiesOf
<1>7. Distinct(r)
  <2> SUFFICES ASSUME NEW i \in DOMAIN r, NEW j \in DOMAIN r, Copy(r[i]) = Copy(r[j]) PROVE i = j
    BY DEF Distinct
  <2>1. CASE i \in DOMAIN s /\ r[i] = s[i] /\ j \in DOMAIN s /\ r[j] = s[j]
    BY <2>1 DEF Distinct
  <2>2. CASE i - Len(s) \in DOMAIN t /\ r[i] = t[i - Len(s)] /\ j - Len(s) \in DOMAIN t /\ r[j] = t[j - Len(s)]
    <3>1. i - Len(s) = j - Len(s)
      BY <2>2 DEF Distinct
    <3>2. QED
      BY <1>1, <1>2, <3>1
  <2>3. CASE i \in DOMAIN s /\ r[i] = s[i] /\ j - Len(s) \in DOMAIN t /\ r[j] = t[j - Len(s)]
    BY <2>3 DEF CopiesOf
  <2>4. CASE j \in DOMAIN s /\ r[j] = s[j] /\ i - Len(s) \in DOMAIN t /\ r[i] = t[i - Len(s)]
    BY <2>4 DEF CopiesOf
  <2>5. QED
    BY <1>3, <2>1, <2>2, <2>3, <2>4
<1>8. QED
  BY <1>1, <1>3, <1>6, <1>7

\* A delivery queued behind others.
LEMMA Lengthened ==
  ASSUME NEW s \in Seq(Delivery), Distinct(s), NEW v \in Delivery, Copy(v) \notin CopiesOf(s)
  PROVE  /\ Append(s, v) \in Seq(Delivery)
         /\ CopiesOf(Append(s, v)) = CopiesOf(s) \cup {Copy(v)}
         /\ Distinct(Append(s, v))
         /\ \A i \in DOMAIN Append(s, v) : Append(s, v)[i] = v \/ \E j \in DOMAIN s : Append(s, v)[i] = s[j]
<1> DEFINE r == Append(s, v)
<1>1. /\ Len(s) \in Nat /\ DOMAIN s = 1..Len(s)
      /\ r \in Seq(Delivery) /\ Len(r) = Len(s) + 1
      /\ \A i \in 1..Len(s) : r[i] = s[i]
      /\ r[Len(s) + 1] = v
  BY AppendProperties, LenProperties
<1>2. DOMAIN r = 1..(Len(s) + 1)
  BY <1>1, LenProperties
<1> HIDE DEF r
<1>3. \A i \in DOMAIN r : \/ i \in DOMAIN s /\ r[i] = s[i]
                          \/ i = Len(s) + 1 /\ r[i] = v
  BY <1>1, <1>2
<1>4. \A j \in DOMAIN s : j \in DOMAIN r /\ r[j] = s[j]
  BY <1>1, <1>2
<1>5. Len(s) + 1 \in DOMAIN r
  BY <1>1, <1>2
<1>6. CopiesOf(r) = CopiesOf(s) \cup {Copy(v)}
  BY <1>1, <1>3, <1>4, <1>5 DEF CopiesOf
<1>7. Distinct(r)
  BY <1>3 DEF Distinct, CopiesOf
<1>8. QED
  BY <1>1, <1>3, <1>6, <1>7 DEF r
-----------------------------------------------------------------------------
(* What a step does to one of the places.                                  *)

\* A runner that takes a delivery of a copy nobody holds.
LEMMA Loaded ==
  ASSUME RunnerInv, NEW p \in Runners, runner[p] = Idle, NEW v \in Delivery, Copy(v) \notin Taken,
         runner' = [runner EXCEPT ![p] = [doing |-> "taken", held |-> v]]
  PROVE  RunnerInv' /\ Taken' = Taken \cup {Copy(v)}
<1>1. /\ runner' \in [Runners -> {Idle} \cup [doing : {"taken", "timing out", "handling"}, held : Delivery]]
      /\ runner'[p] = [doing |-> "taken", held |-> v]
      /\ \A q \in Runners : q # p => runner'[q] = runner[q]
  BY DEF RunnerInv
<1>2. Live' = Live \cup {p} /\ p \notin Live
  BY <1>1 DEF Live, Idle
<1>3. \A q \in Live : Copy(runner'[q].held) = Copy(runner[q].held) /\ Copy(runner[q].held) # Copy(v)
  BY <1>1, <1>2 DEF Live, Taken
<1>4. Copy(runner'[p].held) = Copy(v)
  BY <1>1
<1>5. Taken' = Taken \cup {Copy(v)}
  BY <1>2, <1>3, <1>4 DEF Taken
<1>6. \A q, r \in Live' : Copy(runner'[q].held) = Copy(runner'[r].held) => q = r
  <2>1. \A q \in Live' : q \in Live \/ q = p
    BY <1>2
  <2>2. \A q, r \in Live : Copy(runner[q].held) = Copy(runner[r].held) => q = r
    BY DEF RunnerInv
  <2>3. QED
    BY <2>1, <2>2, <1>3, <1>4
<1>7. QED
  BY <1>1, <1>5, <1>6 DEF RunnerInv

\* A runner that lets go of its delivery.
LEMMA Freed ==
  ASSUME RunnerInv, NEW p \in Live, runner' = [runner EXCEPT ![p] = Idle]
  PROVE  RunnerInv' /\ Taken' = Taken \ {Copy(runner[p].held)}
<1>1. /\ runner' \in [Runners -> {Idle} \cup [doing : {"taken", "timing out", "handling"}, held : Delivery]]
      /\ p \in Runners /\ runner'[p] = Idle
      /\ \A q \in Runners : q # p => runner'[q] = runner[q]
  BY DEF RunnerInv, Live
<1>2. Live' = Live \ {p}
  BY <1>1 DEF Live
<1>3. \A q \in Live' : Copy(runner'[q].held) = Copy(runner[q].held) /\ q # p
  BY <1>1, <1>2 DEF Live
<1>4. \A q \in Live' : Copy(runner[q].held) # Copy(runner[p].held)
  BY <1>2 DEF RunnerInv
<1>5. Taken' = Taken \ {Copy(runner[p].held)}
  BY <1>2, <1>3, <1>4 DEF Taken
<1>6. \A q, r \in Live' : Copy(runner'[q].held) = Copy(runner'[r].held) => q = r
  BY <1>2, <1>3, ZenonT(60) DEF RunnerInv
<1>7. QED
  BY <1>1, <1>5, <1>6 DEF RunnerInv

\* A runner that goes on with the delivery it holds.
LEMMA GoesOn ==
  ASSUME RunnerInv, NEW p \in Live, NEW w \in {"timing out", "handling"},
         runner' = [runner EXCEPT ![p].doing = w]
  PROVE  RunnerInv' /\ Taken' = Taken
<1>1. /\ p \in Runners /\ runner[p] \in [doing : {"taken", "timing out", "handling"}, held : Delivery]
      /\ runner'[p] = [runner[p] EXCEPT !.doing = w]
      /\ \A q \in Runners : q # p => runner'[q] = runner[q]
      /\ DOMAIN runner' = Runners
  BY DEF RunnerInv, Live
<1>2. /\ runner'[p] \in [doing : {"taken", "timing out", "handling"}, held : Delivery]
      /\ runner'[p] # Idle /\ runner'[p].held = runner[p].held
  BY <1>1 DEF Idle
<1>3. runner' \in [Runners -> {Idle} \cup [doing : {"taken", "timing out", "handling"}, held : Delivery]]
  BY <1>1, <1>2 DEF RunnerInv
<1>4. Live' = Live
  BY <1>1, <1>2 DEF Live
<1>5. \A q \in Live : runner'[q].held = runner[q].held
  BY <1>1, <1>2 DEF Live
<1>6. Taken' = Taken
  BY <1>4, <1>5 DEF Taken
<1>7. \A q, r \in Live' : Copy(runner'[q].held) = Copy(runner'[r].held) => q = r
  <2> SUFFICES ASSUME NEW q \in Live, NEW r \in Live, Copy(runner'[q].held) = Copy(runner'[r].held)
               PROVE  q = r
    BY <1>4
  <2>1. Copy(runner[q].held) = Copy(runner[r].held)
    BY <1>5
  <2>2. QED
    BY <2>1 DEF RunnerInv
<1>8. QED
  BY <1>3, <1>6, <1>7 DEF RunnerInv

\* A runner that is doing something holds a delivery.
LEMMA Holds ==
  ASSUME RunnerInv, NEW p \in Runners, runner[p].doing # "idle"
  PROVE  p \in Live /\ runner[p].held \in Delivery /\ Copy(runner[p].held) \in Taken
<1>1. p \in Live
  BY DEF Live, Idle
<1>2. runner[p].held \in Delivery
  BY <1>1 DEF RunnerInv, Live
<1>3. QED
  BY <1>1, <1>2 DEF Taken

\* What is done with, element by element.
LEMMA DoneMeans ==
  /\ EndInv => \A c : c \in Done <=> \E how \in Hows : c \in settled[how]
  /\ EndInv' => \A c : c \in Done' <=> \E how \in Hows : c \in settled'[how]
BY DEF EndInv, Done

\* A copy that comes to its end.
LEMMA Ended ==
  ASSUME EndInv, NEW how \in Hows, NEW c \in Copies, c \notin Done,
         settled' = [settled EXCEPT ![how] = @ \cup {c}]
  PROVE  EndInv' /\ Done' = Done \cup {c}
<1>1. \A h \in Hows : settled'[h] = IF h = how THEN settled[h] \cup {c} ELSE settled[h]
  BY DEF EndInv
<1>2. settled' \in [Hows -> SUBSET Copies]
  BY DEF EndInv
<1>3. \A h \in Hows : c \notin settled[h]
  BY DoneMeans
<1>4. EndInv'
  BY <1>1, <1>2, <1>3 DEF EndInv
<1>5. Done' = Done \cup {c}
  <2>1. \A x : x \in Done' <=> x \in Done \/ x = c
    BY <1>1, <1>4, DoneMeans
  <2>2. QED
    BY <2>1
<1>6. QED
  BY <1>4, <1>5

\* The dead letters of copies that come to another end than their last attempt.
LEMMA LogKept ==
  ASSUME EndInv, LogInv, UNCHANGED log, settled'["exhausted"] = settled["exhausted"]
  PROVE  LogInv'
BY DEF LogInv, DeadLettersExact, Range, IsInjective

\* The dead letter of a copy that runs out of attempts.
LEMMA LogGrown ==
  ASSUME EndInv, LogInv, NEW c \in Copies, c \notin Done,
         settled' = [settled EXCEPT !["exhausted"] = @ \cup {c}],
         log' = IF c[2] \in DeadLetters THEN Append(log, c) ELSE log
  PROVE  LogInv'
<1>1. settled'["exhausted"] = settled["exhausted"] \cup {c} /\ c \notin settled["exhausted"]
  BY DoneMeans DEF EndInv, Hows
<1>2. CASE c[2] \notin DeadLetters
  <2>1. log' = log /\ {x \in settled'["exhausted"] : x[2] \in DeadLetters} = {x \in settled["exhausted"] : x[2] \in DeadLetters}
    BY <1>1, <1>2
  <2>2. QED
    BY <2>1 DEF LogInv, DeadLettersExact, Range, IsInjective
<1>3. CASE c[2] \in DeadLetters
  <2>1. log \in Seq(Copies) /\ log' = Append(log, c)
    BY <1>3 DEF LogInv
  <2>2. /\ log' \in Seq(Copies) /\ Len(log) \in Nat
        /\ DOMAIN log = 1..Len(log) /\ DOMAIN log' = 1..(Len(log) + 1)
        /\ \A i \in 1..Len(log) : log'[i] = log[i]
        /\ log'[Len(log) + 1] = c
    BY <2>1, AppendProperties, LenProperties
  <2>3. \A i \in DOMAIN log' : \/ i \in DOMAIN log /\ log'[i] = log[i]
                               \/ i = Len(log) + 1 /\ log'[i] = c
    BY <2>2
  <2>4. \A i \in DOMAIN log : i \in DOMAIN log' /\ log'[i] = log[i] /\ log[i] \in settled["exhausted"]
    BY <2>2 DEF LogInv, DeadLettersExact, Range
  <2>5. Len(log) + 1 \in DOMAIN log'
    BY <2>2
  <2>6. IsInjective(log')
    BY <1>1, <2>3, <2>4 DEF LogInv, DeadLettersExact, IsInjective
  <2>7. Range(log') = Range(log) \cup {c}
    BY <2>2, <2>3, <2>4, <2>5 DEF Range
  <2>8. {x \in settled'["exhausted"] : x[2] \in DeadLetters} = {x \in settled["exhausted"] : x[2] \in DeadLetters} \cup {c}
    BY <1>1, <1>3
  <2>9. QED
    BY <2>2, <2>6, <2>7, <2>8 DEF LogInv, DeadLettersExact
<1>4. QED
  BY <1>2, <1>3
-----------------------------------------------------------------------------
(* The invariant is inductive.                                             *)

\* Before the test's first call nothing is anywhere.
LEMMA InitInv == Init => Inv
<1>1. SUFFICES ASSUME Init PROVE Inv
  OBVIOUS
<1>2. pending \in Seq(Delivery) /\ log \in Seq(Copies) /\ timeoutNext \in Seq(Durables)
      /\ Len(timeoutNext) = 0 /\ DOMAIN pending = {} /\ DOMAIN log = {}
  BY <1>1, EmptySeq, LenProperties DEF Init
<1>3. RestType /\ FirstInv
  BY <1>1, <1>2, SimulatorAssumption DEF Init, RestType, FirstInv
<1>4. RunnerInv /\ Taken = {}
  <2>1. Live = {}
    BY <1>1 DEF Init, Live
  <2>2. QED
    BY <1>1, <2>1 DEF Init, RunnerInv, Taken
<1>5. EndInv /\ Done = {}
  <2>1. EndInv
    BY <1>1 DEF Init, EndInv, Hows
  <2>2. \A c : c \notin Done
    BY <1>1, <2>1, DoneMeans DEF Init, Hows
  <2>3. QED
    BY <2>1, <2>2
<1>6. CopiesOf(pending) = {}
  BY <1>2 DEF CopiesOf
<1>7. PlaceInv
  BY <1>1, <1>2, <1>4, <1>5, <1>6 DEF Init, PlaceInv, Distinct
<1>8. LogInv
  BY <1>1, <1>2 DEF Init, LogInv, DeadLettersExact, Range, IsInjective
<1>9. QED
  BY <1>2, <1>3, <1>4, <1>5, <1>7, <1>8 DEF Inv

\* No copy leaves the queue in the step.
Keeps == CopiesOf(pending) \subseteq CopiesOf(pending')

\* The step queues a first attempt of each of the copies C, none of which was owed.
FirstsQueued(C) ==
  /\ C \subseteq Copies /\ C \cap owed = {}
  /\ CopiesOf(pending') = CopiesOf(pending) \cup C
  /\ \A i \in DOMAIN pending' : \/ \E j \in DOMAIN pending : pending'[i] = pending[j]
                                \/ pending'[i].attempt = 1 /\ Copy(pending'[i]) \in C

CopiesFor(m) == {<<m, d>> : d \in Accepts[m] \cap registered}

\* A new first attempt for each durable that a message is for.
LEMMA PublishInv ==
  ASSUME Inv, NEW m \in Messages, Publish(m)
  PROVE  Inv' /\ Keeps /\ FirstsQueued(CopiesFor(m))
<1> DEFINE matching == Accepts[m] \cap registered
           first(d) == [durable |-> d, msg |-> m, attempt |-> 1, wait |-> 0]
           S == {first(d) : d \in matching}
           t == SetToSeq(S)
<1>1. /\ m \notin published /\ published' = published \cup {m}
      /\ pending' = pending \o t
      /\ owed' = owed \cup {<<m, d>> : d \in matching}
      /\ UNCHANGED <<registered, deliveries, timeoutNext, log, runner, settled>>
  BY DEF Publish
<1>2. matching \subseteq Durables /\ IsFiniteSet(matching)
  BY FS_Subset, SimulatorAssumption
<1>3. IsFiniteSet(S)
  <2> DEFINE f == [d \in matching |-> first(d)]
  <2>1. f \in Surjection(matching, S)
    BY DEF Surjection
  <2>2. QED
    BY <1>2, <2>1, FS_Surjection
<1>4. \A v \in S : /\ v \in Delivery /\ Copy(v) = <<m, v.durable>> /\ v = first(v.durable)
                   /\ v.durable \in matching /\ v.attempt = 1 /\ v.wait = 0
  BY <1>2 DEF Copy, Delivery
<1>5. t \in Seq(S) /\ {t[i] : i \in 1..Len(t)} = S
      /\ \A i, j \in 1..Len(t) : t[i] = t[j] => i = j
  BY <1>3, Listed
<1>6. /\ t \in Seq(Delivery) /\ DOMAIN t = 1..Len(t)
      /\ \A i \in DOMAIN t : t[i] \in S
  BY <1>4, <1>5, SeqMonotonic, LenProperties
<1>7. CopiesOf(t) = {<<m, d>> : d \in matching}
  <2>1. \A i \in DOMAIN t : Copy(t[i]) \in {<<m, d>> : d \in matching}
    BY <1>4, <1>6
  <2>2. \A d \in matching : <<m, d>> \in CopiesOf(t)
    <3> SUFFICES ASSUME NEW d \in matching PROVE <<m, d>> \in CopiesOf(t)
      OBVIOUS
    <3>1. first(d) \in S /\ Copy(first(d)) = <<m, d>>
      BY DEF Copy
    <3> HIDE DEF first, S, t
    <3>2. PICK i \in DOMAIN t : t[i] = first(d)
      BY <1>5, <1>6, <3>1
    <3>3. QED
      BY <3>1, <3>2 DEF CopiesOf
  <2>3. QED
    BY <2>1, <2>2 DEF CopiesOf
<1>8. Distinct(t)
  <2> SUFFICES ASSUME NEW i \in DOMAIN t, NEW j \in DOMAIN t, Copy(t[i]) = Copy(t[j]) PROVE i = j
    BY DEF Distinct
  <2> HIDE DEF S, t, first
  <2>1. t[i].durable = t[j].durable
    BY <1>4, <1>6
  <2>2. t[i] = t[j]
    BY <1>4, <1>6, <2>1
  <2>3. QED
    BY <1>5, <1>6, <2>2
<1> HIDE DEF S, t
<1>9. \A c \in {<<m, d>> : d \in matching} : c \notin owed /\ c \in Copies /\ c[1] = m
  BY <1>1, <1>2 DEF Inv, PlaceInv, Copies
<1>10. /\ pending' \in Seq(Delivery) /\ Distinct(pending')
       /\ CopiesOf(pending') = CopiesOf(pending) \cup {<<m, d>> : d \in matching}
       /\ FirstInv'
       /\ \A i \in DOMAIN pending' : \/ \E j \in DOMAIN pending : pending'[i] = pending[j]
                                     \/ /\ pending'[i].attempt = 1
                                        /\ Copy(pending'[i]) \in {<<m, d>> : d \in matching}
  <2>1. CopiesOf(pending) \cap CopiesOf(t) = {}
    BY <1>7, <1>9 DEF Inv, PlaceInv
  <2>2. pending \in Seq(Delivery) /\ Distinct(pending)
    BY DEF Inv, PlaceInv
  <2>3. /\ pending' \in Seq(Delivery) /\ Distinct(pending')
        /\ CopiesOf(pending') = CopiesOf(pending) \cup CopiesOf(t)
        /\ \A i \in DOMAIN pending' : \/ \E j \in DOMAIN pending : pending'[i] = pending[j]
                                      \/ \E j \in DOMAIN t : pending'[i] = t[j]
    <3> DEFINE c == pending \o t
    <3>1. c \in Seq(Delivery) /\ Behind(c, pending, t)
      BY <1>6, <2>2, ConcatProperties DEF Behind
    <3>2. pending' = c
      BY <1>1
    <3> HIDE DEF c
    <3>3. t \in Seq(Delivery)
      BY <1>6
    <3>4. /\ CopiesOf(c) = CopiesOf(pending) \cup CopiesOf(t)
          /\ Distinct(c)
          /\ \A i \in DOMAIN c : \/ \E j \in DOMAIN pending : c[i] = pending[j]
                                \/ \E j \in DOMAIN t : c[i] = t[j]
      BY <3>1, <3>3, <1>8, <2>1, <2>2, Joined
    <3>5. QED
      BY <3>1, <3>2, <3>4
  <2>4. \A j \in DOMAIN t : t[j].wait = 0 /\ t[j].attempt = 1
    BY <1>4, <1>6
  <2>5. FirstInv'
    BY <2>3, <2>4 DEF Inv, FirstInv
  <2>6. \A i \in DOMAIN pending' : \/ \E j \in DOMAIN pending : pending'[i] = pending[j]
                                 \/ /\ pending'[i].attempt = 1
                                    /\ Copy(pending'[i]) \in {<<m, d>> : d \in matching}
    BY <1>7, <2>3, <2>4 DEF CopiesOf
  <2>7. QED
    BY <1>7, <2>3, <2>5, <2>6
<1>11. Taken' = Taken /\ Done' = Done
  BY <1>1 DEF Taken, Live, Done
<1>12. PlaceInv'
  BY <1>1, <1>9, <1>10, <1>11 DEF Inv, PlaceInv
<1>13. RestType'
  BY <1>1, <1>9 DEF Inv, RestType
<1>14. RunnerInv' /\ EndInv' /\ LogInv'
  BY <1>1 DEF Inv, RunnerInv, Live, EndInv, LogInv, DeadLettersExact
<1>15. Inv'
  BY <1>10, <1>12, <1>13, <1>14 DEF Inv
<1>16. Keeps
  BY <1>10 DEF Keeps
<1>17. FirstsQueued(CopiesFor(m))
  BY <1>9, <1>10 DEF FirstsQueued, CopiesFor
<1>18. QED
  BY <1>15, <1>16, <1>17

\* The clock changes what is left of the delays, and no first attempt has any.
LEMMA AdvanceInv == ASSUME Inv, Advance PROVE Inv' /\ Keeps
<1>1. /\ pending' = [i \in DOMAIN pending |-> [pending[i] EXCEPT !.wait = IF @ > 0 THEN @ - 1 ELSE 0]]
      /\ UNCHANGED <<registered, deliveries, timeoutNext, log, runner, published, owed, settled>>
  BY DEF Advance
<1>2. Len(pending) \in Nat /\ DOMAIN pending = 1..Len(pending)
      /\ \A i \in DOMAIN pending : pending[i] \in Delivery
  BY LenProperties, ElementOfSeq DEF Inv
<1>3. /\ DOMAIN pending' = DOMAIN pending
      /\ \A i \in DOMAIN pending : pending'[i] = [pending[i] EXCEPT !.wait = IF @ > 0 THEN @ - 1 ELSE 0]
  BY <1>1
<1>4. \A i \in DOMAIN pending : /\ pending'[i] \in Delivery /\ Copy(pending'[i]) = Copy(pending[i])
                                /\ pending'[i].attempt = pending[i].attempt
                                /\ pending[i].wait = 0 => pending'[i].wait = 0
  BY <1>2, <1>3 DEF Delivery, Copy
<1>5. pending' \in Seq(Delivery)
  <2>1. pending' \in [1..Len(pending) -> Delivery]
    BY <1>1, <1>2, <1>3, <1>4
  <2>2. QED
    BY <1>2, <2>1, SeqDef
<1>6. CopiesOf(pending') = CopiesOf(pending) /\ Distinct(pending')
  BY <1>3, <1>4 DEF CopiesOf, Inv, PlaceInv, Distinct
<1>7. FirstInv'
  BY <1>3, <1>4 DEF Inv, FirstInv
<1>8. Taken' = Taken /\ Done' = Done
  BY <1>1 DEF Taken, Live, Done
<1>9. PlaceInv' /\ RestType'
  BY <1>1, <1>6, <1>8 DEF Inv, PlaceInv, RestType
<1>10. RunnerInv' /\ EndInv' /\ LogInv'
  BY <1>1 DEF Inv, RunnerInv, Live, EndInv, LogInv, DeadLettersExact
<1>11. QED
  BY <1>5, <1>6, <1>7, <1>9, <1>10 DEF Inv, Keeps

\* The index next_due chooses: the first that is due.
LEMMA FirstDue ==
  ASSUME pending \in Seq(Delivery), DueIndexes # {}
  PROVE  /\ DueIndex \in 1..Len(pending) /\ DueIndex \in DueIndexes
         /\ \A i \in DueIndexes : DueIndex <= i
<1>1. DueIndexes \in SUBSET Nat /\ DueIndexes \subseteq 1..Len(pending)
  BY LenProperties DEF DueIndexes
<1>2. \E i \in DueIndexes : \A j \in DueIndexes : i <= j
  BY <1>1, Least
<1>3. DueIndex \in DueIndexes /\ \A j \in DueIndexes : DueIndex <= j
  BY <1>2 DEF DueIndex
<1>4. QED
  BY <1>1, <1>3

\* A delivery goes from the queue to a runner.
LEMMA TakeInv == ASSUME Inv, NEW p \in Runners, Take(p) PROVE Inv'
<1> DEFINE v == pending[DueIndex]
<1>1. /\ runner[p] = Idle /\ DueIndexes # {}
      /\ runner' = [runner EXCEPT ![p] = [doing |-> "taken", held |-> v]]
      /\ pending' = RemoveAt(pending, DueIndex)
      /\ deliveries' = [deliveries EXCEPT ![v.durable] = @ + 1]
      /\ UNCHANGED <<registered, timeoutNext, log, published, owed, settled>>
  BY DEF Take
<1>2. pending \in Seq(Delivery) /\ Distinct(pending) /\ DueIndex \in 1..Len(pending)
  BY <1>1, FirstDue DEF Inv, PlaceInv
<1>3. v \in Delivery /\ Copy(v) \in CopiesOf(pending)
  BY <1>2, ElementOfSeq, LenProperties DEF CopiesOf
<1>4. /\ pending' \in Seq(Delivery) /\ Distinct(pending')
      /\ CopiesOf(pending') = CopiesOf(pending) \ {Copy(v)}
      /\ \A i \in DOMAIN pending' : \E j \in DOMAIN pending : pending'[i] = pending[j]
  BY <1>1, <1>2, Shortened
<1> HIDE DEF v
<1>5. RunnerInv' /\ Taken' = Taken \cup {Copy(v)}
  BY <1>1, <1>3, Loaded DEF Inv, PlaceInv
<1>6. Done' = Done
  BY <1>1 DEF Done
<1>7. PlaceInv'
  BY <1>1, <1>3, <1>4, <1>5, <1>6 DEF Inv, PlaceInv
<1>8. RestType'
  BY <1>1, <1>3 DEF Inv, RestType, Delivery
<1>9. FirstInv'
  BY <1>4 DEF Inv, FirstInv
<1>10. EndInv' /\ LogInv'
  BY <1>1 DEF Inv, EndInv, LogInv, DeadLettersExact
<1>11. QED
  BY <1>4, <1>5, <1>7, <1>8, <1>9, <1>10 DEF Inv

\* A runner learns whether its delivery is to time out.
LEMMA ConsumeTimeoutInv == ASSUME Inv, NEW p \in Runners, ConsumeTimeout(p) PROVE Inv' /\ Keeps
<1> DEFINE planned == {i \in DOMAIN timeoutNext : timeoutNext[i] = runner[p].held.durable}
           i0 == CHOOSE i \in planned : \A j \in planned : i <= j
<1>1. /\ runner[p].doing = "taken"
      /\ UNCHANGED <<registered, pending, deliveries, log, published, owed, settled>>
      /\ \/ /\ planned # {} /\ timeoutNext' = RemoveAt(timeoutNext, i0)
            /\ runner' = [runner EXCEPT ![p].doing = "timing out"]
         \/ /\ runner' = [runner EXCEPT ![p].doing = "handling"]
            /\ UNCHANGED timeoutNext
  BY DEF ConsumeTimeout
<1>2. RunnerInv' /\ Taken' = Taken
  <2>1. p \in Live
    BY <1>1, Holds DEF Inv
  <2>2. QED
    BY <1>1, <2>1, GoesOn DEF Inv
<1>3. timeoutNext' \in Seq(Durables) /\ Len(timeoutNext') <= MaxTimeouts
  <2>1. timeoutNext \in Seq(Durables) /\ Len(timeoutNext) <= MaxTimeouts /\ Len(timeoutNext) \in Nat
        /\ DOMAIN timeoutNext = 1..Len(timeoutNext) /\ MaxTimeouts \in Nat
    BY LenProperties, SimulatorAssumption DEF Inv, RestType
  <2>2. CASE planned # {} /\ timeoutNext' = RemoveAt(timeoutNext, i0)
    <3>1. planned \in SUBSET Nat
      BY <2>1
    <3>2. i0 \in planned
      BY <2>2, <3>1, Least
    <3>3. i0 \in 1..Len(timeoutNext)
      BY <2>1, <3>2
    <3> HIDE DEF i0, planned
    <3>4. RemoveAt(timeoutNext, i0) \in Seq(Durables) /\ Len(RemoveAt(timeoutNext, i0)) = Len(timeoutNext) - 1
      BY <2>1, <3>3, Removed
    <3>5. QED
      BY <2>1, <2>2, <3>4
  <2>3. QED
    BY <1>1, <2>1, <2>2
<1>4. RestType'
  BY <1>1, <1>3 DEF Inv, RestType
<1>5. Done' = Done
  BY <1>1 DEF Done
<1>6. PlaceInv'
  BY <1>1, <1>2, <1>5 DEF Inv, PlaceInv
<1>7. EndInv' /\ LogInv' /\ FirstInv'
  BY <1>1 DEF Inv, EndInv, LogInv, DeadLettersExact, FirstInv
<1>8. pending' \in Seq(Delivery) /\ Keeps
  BY <1>1 DEF Inv, Keeps
<1>9. QED
  BY <1>2, <1>4, <1>6, <1>7, <1>8 DEF Inv

\* A delivery ends, by whatever its runner says of it but a retry.
LEMMA EndsInv ==
  ASSUME Inv, NEW p \in Runners, runner[p].doing # "idle", NEW how \in Hows \ {"exhausted"},
         settled' = [settled EXCEPT ![how] = @ \cup {Copy(runner[p].held)}],
         runner' = [runner EXCEPT ![p] = Idle],
         UNCHANGED <<registered, pending, deliveries, timeoutNext, log, published, owed>>
  PROVE  Inv' /\ Keeps
<1> DEFINE c == Copy(runner[p].held)
<1>1. p \in Live /\ c \in Taken /\ c \in Copies
  BY Holds, CopyIsPair DEF Inv
<1> HIDE DEF c
<1>2. c \notin Done /\ c \notin CopiesOf(pending)
  BY <1>1 DEF Inv, PlaceInv
<1>3. RunnerInv' /\ Taken' = Taken \ {c}
  BY <1>1, Freed DEF Inv, c
<1>4. EndInv' /\ Done' = Done \cup {c}
  BY <1>1, <1>2, Ended DEF Inv, c
<1>5. LogInv'
  <2>1. settled'["exhausted"] = settled["exhausted"]
    BY DEF Inv, EndInv, Hows
  <2>2. QED
    BY <2>1, LogKept DEF Inv
<1>6. PlaceInv'
  BY <1>1, <1>2, <1>3, <1>4 DEF Inv, PlaceInv
<1>7. RestType' /\ FirstInv' /\ pending' \in Seq(Delivery) /\ Keeps
  BY DEF Inv, RestType, FirstInv, Keeps
<1>8. QED
  BY <1>3, <1>4, <1>5, <1>6, <1>7 DEF Inv

\* A delivery comes back, or runs out of attempts.
LEMMA RetriedInv ==
  ASSUME Inv, NEW p \in Runners, runner[p].doing # "idle", NEW delay \in Nat,
         Retry(runner[p].held, delay),
         runner' = [runner EXCEPT ![p] = Idle],
         UNCHANGED <<registered, deliveries, timeoutNext, published, owed>>
  PROVE  Inv' /\ Keeps
<1> DEFINE v == runner[p].held
           c == Copy(v)
           w == [v EXCEPT !.attempt = v.attempt + 1, !.wait = delay]
<1>1. p \in Live /\ c \in Taken /\ c \in Copies /\ v \in Delivery /\ v.durable = c[2]
  BY Holds, CopyIsPair DEF Inv
<1>2. c \notin Done /\ c \notin CopiesOf(pending)
  BY <1>1 DEF Inv, PlaceInv
<1>3. RunnerInv' /\ Taken' = Taken \ {c}
  BY <1>1, Freed DEF Inv
<1>4. RestType'
  BY DEF Inv, RestType
<1>5. CASE v.attempt >= MaxDeliver[v.durable]
  <2>1. /\ settled' = [settled EXCEPT !["exhausted"] = @ \cup {c}]
        /\ log' = IF c[2] \in DeadLetters THEN Append(log, c) ELSE log
        /\ UNCHANGED pending
    BY <1>1, <1>5 DEF Retry
  <2> HIDE DEF c, v
  <2>2. EndInv' /\ Done' = Done \cup {c}
    BY <1>1, <1>2, <2>1, Ended DEF Inv, Hows
  <2>3. LogInv'
    BY <1>1, <1>2, <2>1, LogGrown DEF Inv
  <2>4. PlaceInv'
    BY <1>1, <1>2, <1>3, <2>1, <2>2 DEF Inv, PlaceInv
  <2>5. FirstInv' /\ pending' \in Seq(Delivery) /\ Keeps
    BY <2>1 DEF Inv, FirstInv, Keeps
  <2>6. QED
    BY <1>3, <1>4, <2>2, <2>3, <2>4, <2>5 DEF Inv
<1>6. CASE ~(v.attempt >= MaxDeliver[v.durable])
  <2>1. pending' = Append(pending, w) /\ UNCHANGED <<settled, log>>
    BY <1>6 DEF Retry
  <2>2. v.attempt \in Nat \ {0} /\ v.attempt + 1 \in Nat \ {0}
    BY <1>1 DEF Delivery
  <2>3. w \in Delivery /\ Copy(w) = c
    BY <1>1, <2>2, CopyIsPair
  <2>4. w.attempt # 1
    BY <1>1, <2>2 DEF Delivery
  <2> HIDE DEF c, v, w
  <2>5. /\ pending' \in Seq(Delivery) /\ Distinct(pending')
        /\ CopiesOf(pending') = CopiesOf(pending) \cup {c}
        /\ \A i \in DOMAIN pending' : pending'[i] = w \/ \E j \in DOMAIN pending : pending'[i] = pending[j]
    BY <1>2, <2>1, <2>3, Lengthened DEF Inv, PlaceInv
  <2>6. FirstInv'
    BY <2>4, <2>5 DEF Inv, FirstInv
  <2>7. Done' = Done
    BY <2>1 DEF Done
  <2>8. PlaceInv'
    BY <1>1, <1>2, <1>3, <2>5, <2>7 DEF Inv, PlaceInv
  <2>9. EndInv' /\ LogInv'
    BY <2>1 DEF Inv, EndInv, LogInv, DeadLettersExact
  <2>10. Keeps
    BY <2>5 DEF Keeps
  <2>11. QED
    BY <1>3, <1>4, <2>5, <2>6, <2>8, <2>9, <2>10 DEF Inv
<1>7. QED
  BY <1>5, <1>6

\* The delay of a delivery that timed out is a natural number.
LEMMA DelayType == ASSUME NEW v \in Delivery PROVE TimeoutDelay(v) \in Nat
<1>1. v.durable \in Durables
  BY DEF Delivery
<1>2. Backoff[v.durable] \in Seq(Nat) /\ AckWait[v.durable] \in Nat
  BY <1>1, SimulatorAssumption
<1>3. v.attempt \in DOMAIN Backoff[v.durable] => Backoff[v.durable][v.attempt] \in Nat
  BY <1>2, LenProperties, ElementOfSeq
<1>4. QED
  BY <1>2, <1>3 DEF TimeoutDelay

\* A step of run_until_idle.
LEMMA RunInv == ASSUME Inv, NEW p \in Runners, Run(p) PROVE Inv' /\ (Keeps \/ Take(p))
<1>1. CASE Take(p)
  BY <1>1, TakeInv
<1>2. CASE ConsumeTimeout(p)
  BY <1>2, ConsumeTimeoutInv
<1>3. CASE CompleteTimeout(p)
  <2>1. /\ runner[p].doing # "idle" /\ Retry(runner[p].held, TimeoutDelay(runner[p].held))
        /\ runner' = [runner EXCEPT ![p] = Idle]
        /\ UNCHANGED <<registered, deliveries, timeoutNext, published, owed>>
    BY <1>3 DEF CompleteTimeout
  <2>2. TimeoutDelay(runner[p].held) \in Nat
    BY <2>1, Holds, DelayType DEF Inv
  <2>3. QED
    BY <2>1, <2>2, RetriedInv
<1>4. CASE CompleteAck(p)
  <2>1. /\ runner[p].doing # "idle" /\ "acked" \in Hows \ {"exhausted"}
        /\ settled' = [settled EXCEPT !["acked"] = @ \cup {Copy(runner[p].held)}]
        /\ runner' = [runner EXCEPT ![p] = Idle]
        /\ UNCHANGED <<registered, pending, deliveries, timeoutNext, log, published, owed>>
    BY <1>4 DEF CompleteAck, Hows
  <2>2. QED
    BY <2>1, EndsInv
<1>5. CASE CompleteTerm(p)
  <2>1. /\ runner[p].doing # "idle" /\ "termed" \in Hows \ {"exhausted"}
        /\ settled' = [settled EXCEPT !["termed"] = @ \cup {Copy(runner[p].held)}]
        /\ runner' = [runner EXCEPT ![p] = Idle]
        /\ UNCHANGED <<registered, pending, deliveries, timeoutNext, log, published, owed>>
    BY <1>5 DEF CompleteTerm, Hows
  <2>2. QED
    BY <2>1, EndsInv
<1>6. CASE RunnerDropped(p)
  <2>1. /\ runner[p].doing # "idle" /\ "lost" \in Hows \ {"exhausted"}
        /\ settled' = [settled EXCEPT !["lost"] = @ \cup {Copy(runner[p].held)}]
        /\ runner' = [runner EXCEPT ![p] = Idle]
        /\ UNCHANGED <<registered, pending, deliveries, timeoutNext, log, published, owed>>
    BY <1>6 DEF RunnerDropped, Hows
  <2>2. QED
    BY <2>1, EndsInv
<1>7. CASE \E delay \in Delays \cup {0} : CompleteNack(p, delay)
  <2>1. PICK delay \in Delays \cup {0} : CompleteNack(p, delay)
    BY <1>7
  <2>2. delay \in Nat
    BY SimulatorAssumption
  <2>3. /\ runner[p].doing # "idle" /\ Retry(runner[p].held, delay)
        /\ runner' = [runner EXCEPT ![p] = Idle]
        /\ UNCHANGED <<registered, deliveries, timeoutNext, published, owed>>
    BY <2>1 DEF CompleteNack
  <2>4. QED
    BY <2>2, <2>3, RetriedInv
<1>8. QED
  BY <1>1, <1>2, <1>3, <1>4, <1>5, <1>6, <1>7 DEF Run

\* Steps that change neither a copy nor where it is.
LEMMA QuietInv ==
  ASSUME Inv, RestType', UNCHANGED <<pending, log, runner, published, owed, settled>>
  PROVE  Inv' /\ Keeps
<1>1. Taken' = Taken /\ Done' = Done
  BY DEF Taken, Live, Done
<1>2. PlaceInv'
  BY <1>1 DEF Inv, PlaceInv
<1>3. QED
  BY <1>2 DEF Inv, RunnerInv, Live, EndInv, LogInv, DeadLettersExact, FirstInv, Keeps

\* Every step keeps Inv, and only Take takes a copy out of the queue.
LEMMA NextInv == Inv /\ [Next]_vars => Inv' /\ (Keeps \/ \E p \in Runners : Take(p))
<1>1. SUFFICES ASSUME Inv, [Next]_vars PROVE Inv' /\ (Keeps \/ \E p \in Runners : Take(p))
  OBVIOUS
<1>2. ASSUME NEW d \in Durables, RegisterConsumer(d) PROVE Inv' /\ Keeps
  <2>1. RestType'
    BY <1>1, <1>2 DEF RegisterConsumer, Inv, RestType
  <2>2. QED
    BY <1>1, <1>2, <2>1, QuietInv DEF RegisterConsumer
<1>3. ASSUME NEW d \in Durables, TimeoutNext(d) PROVE Inv' /\ Keeps
  <2>1. timeoutNext' \in Seq(Durables) /\ Len(timeoutNext') = Len(timeoutNext) + 1
        /\ Len(timeoutNext) < MaxTimeouts /\ Len(timeoutNext) \in Nat /\ MaxTimeouts \in Nat
    BY <1>1, <1>3, AppendProperties, LenProperties, SimulatorAssumption DEF TimeoutNext, Inv, RestType
  <2>2. RestType'
    BY <1>1, <1>3, <2>1 DEF TimeoutNext, Inv, RestType
  <2>3. QED
    BY <1>1, <1>3, <2>2, QuietInv DEF TimeoutNext
<1>4. CASE UNCHANGED vars
  <2>1. RestType'
    BY <1>1, <1>4 DEF vars, Inv, RestType
  <2>2. QED
    BY <1>1, <1>4, <2>1, QuietInv DEF vars
<1>5. QED
  BY <1>1, <1>2, <1>3, <1>4, PublishInv, AdvanceInv, RunInv DEF Next

\* Inv holds in every state of every test.
THEOREM Invariance == Spec => []Inv
BY InitInv, NextInv, PTL DEF Spec
-----------------------------------------------------------------------------
(* What follows from the invariant.                                        *)

\* The variables keep their types, whatever the consumers and the messages.
THEOREM TypeCorrect == Spec => []TypeOK
<1>1. Inv => TypeOK
  BY DEF Inv, RestType, RunnerInv, EndInv, LogInv, Hows, TypeOK
<1>2. QED
  BY <1>1, Invariance, PTL

\* Three disjoint finite sets are as large as the three together.
LEMMA SumOfThree ==
  ASSUME NEW A, NEW B, NEW C, IsFiniteSet(A), IsFiniteSet(B), IsFiniteSet(C),
         A \cap B = {}, A \cap C = {}, B \cap C = {}
  PROVE  Cardinality(A \cup B \cup C) = Cardinality(A) + Cardinality(B) + Cardinality(C)
<1>1. IsFiniteSet(A \cup B) /\ Cardinality(A \cup B) = Cardinality(A) + Cardinality(B)
  <2>1. /\ IsFiniteSet(A \cup B)
        /\ Cardinality(A \cup B) = Cardinality(A) + Cardinality(B) - Cardinality(A \cap B)
    BY FS_Union
  <2>2. Cardinality(A) \in Nat /\ Cardinality(B) \in Nat /\ Cardinality(A \cap B) = 0
    BY FS_CardinalityType, FS_EmptySet
  <2>3. QED
    BY <2>1, <2>2
<1>2. (A \cup B) \cap C = {}
  OBVIOUS
<1>3. Cardinality((A \cup B) \cup C) = Cardinality(A \cup B) + Cardinality(C) - Cardinality((A \cup B) \cap C)
  BY <1>1, FS_Union
<1>4. Cardinality(A \cup B) \in Nat /\ Cardinality(C) \in Nat /\ Cardinality((A \cup B) \cap C) = 0
  BY <1>1, <1>2, FS_CardinalityType, FS_EmptySet
<1>5. QED
  BY <1>1, <1>3, <1>4

\* No copy is lost, none is in two places, and none is there twice, with any number of runners.
THEOREM CopiesKeepOnePlace == Spec => []OnePlace
<1>1. ASSUME Inv PROVE OnePlace
  <2>1. pending \in Seq(Delivery) /\ Len(pending) \in Nat /\ DOMAIN pending = 1..Len(pending)
    BY <1>1, LenProperties DEF Inv
  <2>2. IsFiniteSet(CopiesOf(pending)) /\ Cardinality(CopiesOf(pending)) = Len(pending)
    <3> DEFINE f == [i \in 1..Len(pending) |-> Copy(pending[i])]
    <3>1. IsFiniteSet(1..Len(pending)) /\ Cardinality(1..Len(pending)) = Len(pending)
      BY <2>1, FS_Interval
    <3>2. f \in Bijection(1..Len(pending), CopiesOf(pending))
      BY <1>1, <2>1 DEF Inv, PlaceInv, Distinct, CopiesOf, Bijection, Injection, Surjection, IsInjective
    <3>3. QED
      BY <3>1, <3>2, FS_Bijection DEF ExistsBijection
  <2>3. IsFiniteSet(Taken) /\ Cardinality(Taken) = Cardinality(Live)
    <3> DEFINE f == [p \in Live |-> Copy(runner[p].held)]
    <3>1. IsFiniteSet(Live)
      BY FS_Subset, SimulatorAssumption DEF Live
    <3>2. f \in Bijection(Live, Taken)
      BY <1>1 DEF Inv, RunnerInv, Taken, Bijection, Injection, Surjection, IsInjective
    <3>3. QED
      BY <3>1, <3>2, FS_Bijection DEF ExistsBijection
  <2>4. IsFiniteSet(Done)
    <3>1. IsFiniteSet(Copies)
      BY FS_Product, SimulatorAssumption DEF Copies
    <3>2. Done \in SUBSET Copies
      BY <1>1, DoneMeans DEF Inv, EndInv
    <3>3. QED
      BY <3>1, <3>2, FS_Subset
  <2>5. Cardinality(owed) = Len(pending) + Cardinality(Live) + Cardinality(Done)
    <3>1. Cardinality(CopiesOf(pending) \cup Taken \cup Done) =
            Cardinality(CopiesOf(pending)) + Cardinality(Taken) + Cardinality(Done)
      BY <1>1, <2>2, <2>3, <2>4, SumOfThree DEF Inv, PlaceInv
    <3>2. QED
      BY <1>1, <2>2, <2>3, <3>1 DEF Inv, PlaceInv
  <2>6. CopiesOf(pending) = {Copy(pending[i]) : i \in DOMAIN pending}
    BY DEF CopiesOf
  <2>7. Taken = {Copy(v) : v \in Held}
    BY DEF Taken, Live, Held
  <2>8. owed = {Copy(pending[i]) : i \in DOMAIN pending} \cup {Copy(v) : v \in Held} \cup Done
    BY <1>1, <2>6, <2>7 DEF Inv, PlaceInv
  <2>9. \A how, other \in DOMAIN settled : how # other => settled[how] \cap settled[other] = {}
    BY <1>1 DEF Inv, EndInv
  <2>10. QED
    BY <2>5, <2>8, <2>9 DEF OnePlace, Live
<1>2. QED
  BY <1>1, Invariance, PTL

\* Each copy that runs out of attempts has its one dead letter, for any number of attempts.
THEOREM DeadLettersAreExact == Spec => []DeadLettersExact
<1>1. Inv => DeadLettersExact
  BY DEF Inv, LogInv
<1>2. QED
  BY <1>1, Invariance, PTL
-----------------------------------------------------------------------------
(* The order of the queue.                                                 *)

\* The delivery that is taken is not behind a first attempt that stays.
LEMMA TakeInOrder ==
  ASSUME Inv, NEW p \in Runners, Take(p),
         NEW i \in DOMAIN pending, NEW j \in DOMAIN pending, i < j, pending[i].attempt = 1
  PROVE  \E k \in DOMAIN pending' : Copy(pending'[k]) = Copy(pending[j])
<1>1. pending \in Seq(Delivery) /\ Distinct(pending) /\ DueIndexes # {} /\ DOMAIN pending = 1..Len(pending)
  BY LenProperties DEF Take, Inv, PlaceInv
<1>2. /\ DueIndex \in 1..Len(pending)
      /\ \A d \in DueIndexes : DueIndex <= d
  BY <1>1, FirstDue
<1>3. i \in DueIndexes
  BY DEF DueIndexes, Inv, FirstInv
<1>4. DueIndex # j
  BY <1>1, <1>2, <1>3
<1>5. CopiesOf(RemoveAt(pending, DueIndex)) = CopiesOf(pending) \ {Copy(pending[DueIndex])}
  BY <1>1, <1>2, Shortened
<1>6. Copy(pending[j]) \in CopiesOf(pending) /\ Copy(pending[j]) # Copy(pending[DueIndex])
  BY <1>1, <1>2, <1>4 DEF CopiesOf, Distinct
<1>7. Copy(pending[j]) \in CopiesOf(pending')
  BY <1>5, <1>6 DEF Take
<1>8. QED
  BY <1>7 DEF CopiesOf

\* First attempts leave the queue in the order of publication, whatever is retried meanwhile.
THEOREM FirstAttemptsKeepOrder == Spec => FirstAttemptsInOrder
<1> DEFINE Order == \A i, j \in DOMAIN pending :
              (i < j /\ pending[i].attempt = 1 /\ pending[j].attempt = 1
                 /\ \E k \in DOMAIN pending' : Copy(pending'[k]) = Copy(pending[i]) /\ pending'[k].attempt = 1)
                => \E k \in DOMAIN pending' : Copy(pending'[k]) = Copy(pending[j])
<1>1. Inv /\ [Next]_vars => [Order]_vars
  <2> SUFFICES ASSUME Inv, [Next]_vars, NEW i \in DOMAIN pending, NEW j \in DOMAIN pending,
                      i < j, pending[i].attempt = 1
               PROVE  \E k \in DOMAIN pending' : Copy(pending'[k]) = Copy(pending[j])
    OBVIOUS
  <2>1. CASE Keeps
    BY <2>1 DEF Keeps, CopiesOf
  <2>2. CASE \E p \in Runners : Take(p)
    BY <2>2, TakeInOrder
  <2>3. QED
    BY <2>1, <2>2, NextInv
<1>2. QED
  BY <1>1, Invariance, PTL DEF Spec, FirstAttemptsInOrder
-----------------------------------------------------------------------------
(* The simulator implements DurableConsumer.                               *)

Queued(c, n) == \E i \in DOMAIN pending : Copy(pending[i]) = c /\ pending[i].attempt = n
InHands(c, n) == \E p \in Live : Copy(runner[p].held) = c /\ runner[p].held.attempt = n

\* Place, read off where a copy is.
PlacesKnown ==
  /\ \A c, n : Queued(c, n) => Place(c) = Durable!At("waiting", n - 1)
  /\ \A c, n : InHands(c, n) => Place(c) = Durable!At("out", n)
  /\ \A how \in Hows : \A c \in settled[how] : Place(c) = Durable!At(how, 0)
  /\ \A c : c \notin owed => Place(c) = Durable!At("absent", 0)

LEMMA Placed == Inv => PlacesKnown
<1>1. SUFFICES ASSUME Inv PROVE PlacesKnown
  OBVIOUS
<1>2. PlaceInv /\ RunnerInv /\ EndInv /\ DOMAIN settled = Hows
  BY <1>1 DEF Inv, EndInv
<1>3. /\ \A x \in InQueue : \E i \in DOMAIN pending : x = <<Copy(pending[i]), pending[i].attempt>>
      /\ \A i \in DOMAIN pending : <<Copy(pending[i]), pending[i].attempt>> \in InQueue
  BY DEF InQueue
<1>4. /\ \A x \in InHand : \E p \in Live : x = <<Copy(runner[p].held), runner[p].held.attempt>>
      /\ \A p \in Live : <<Copy(runner[p].held), runner[p].held.attempt>> \in InHand
  <2>1. Held = {runner[p].held : p \in Live}
    BY DEF Held, Live
  <2>2. QED
    BY <2>1 DEF InHand
<1>5. /\ \A c : (\E x \in InQueue : x[1] = c) <=> c \in CopiesOf(pending)
      /\ \A c : (\E x \in InHand : x[1] = c) <=> c \in Taken
  <2>1. ASSUME NEW x \in InQueue PROVE x[1] \in CopiesOf(pending)
    <3>1. PICK i \in DOMAIN pending : x = <<Copy(pending[i]), pending[i].attempt>>
      BY <1>3
    <3>2. x[1] = Copy(pending[i])
      BY <3>1
    <3>3. QED
      BY <3>2 DEF CopiesOf
  <2>2. ASSUME NEW c \in CopiesOf(pending) PROVE \E x \in InQueue : x[1] = c
    <3>1. PICK i \in DOMAIN pending : Copy(pending[i]) = c
      BY DEF CopiesOf
    <3>2. <<c, pending[i].attempt>> \in InQueue /\ <<c, pending[i].attempt>>[1] = c
      BY <1>3, <3>1
    <3>3. QED
      BY <3>2
  <2>3. ASSUME NEW x \in InHand PROVE x[1] \in Taken
    <3>1. PICK p \in Live : x = <<Copy(runner[p].held), runner[p].held.attempt>>
      BY <1>4
    <3>2. x[1] = Copy(runner[p].held)
      BY <3>1
    <3>3. QED
      BY <3>2 DEF Taken
  <2>4. ASSUME NEW c \in Taken PROVE \E x \in InHand : x[1] = c
    <3>1. PICK p \in Live : Copy(runner[p].held) = c
      BY DEF Taken
    <3>2. <<c, runner[p].held.attempt>> \in InHand /\ <<c, runner[p].held.attempt>>[1] = c
      BY <1>4, <3>1
    <3>3. QED
      BY <3>2
  <2>5. QED
    BY <2>1, <2>2, <2>3, <2>4
<1>6. ASSUME NEW c, NEW n, Queued(c, n) PROVE Place(c) = Durable!At("waiting", n - 1)
  <2>1. PICK i \in DOMAIN pending : Copy(pending[i]) = c /\ pending[i].attempt = n
    BY <1>6 DEF Queued
  <2>2. <<c, n>> \in InQueue /\ <<c, n>>[1] = c /\ <<c, n>>[2] = n
    BY <1>3, <2>1
  <2>3. ASSUME NEW x \in InQueue, x[1] = c PROVE x = <<c, n>>
    <3>1. PICK j \in DOMAIN pending : x = <<Copy(pending[j]), pending[j].attempt>>
      BY <1>3
    <3>2. Copy(pending[j]) = c
      BY <2>3, <3>1
    <3>3. j = i
      BY <1>2, <2>1, <3>2 DEF PlaceInv, Distinct
    <3>4. QED
      BY <2>1, <3>1, <3>3
  <2>4. (CHOOSE x \in InQueue : x[1] = c) = <<c, n>>
    BY <2>2, <2>3
  <2>5. Place(c) = [state |-> "waiting", tries |-> (CHOOSE x \in InQueue : x[1] = c)[2] - 1]
    BY <2>2 DEF Place
  <2>6. QED
    BY <2>2, <2>4, <2>5 DEF Durable!At
<1>7. ASSUME NEW c, NEW n, InHands(c, n) PROVE Place(c) = Durable!At("out", n)
  <2>1. PICK p \in Live : Copy(runner[p].held) = c /\ runner[p].held.attempt = n
    BY <1>7 DEF InHands
  <2>2. <<c, n>> \in InHand /\ <<c, n>>[1] = c /\ <<c, n>>[2] = n /\ c \in Taken
    BY <1>4, <2>1 DEF Taken
  <2>3. ASSUME NEW x \in InHand, x[1] = c PROVE x = <<c, n>>
    <3>1. PICK q \in Live : x = <<Copy(runner[q].held), runner[q].held.attempt>>
      BY <1>4
    <3>2. Copy(runner[q].held) = c
      BY <2>3, <3>1
    <3>3. q = p
      BY <1>2, <2>1, <3>2 DEF RunnerInv
    <3>4. QED
      BY <2>1, <3>1, <3>3
  <2>4. (CHOOSE x \in InHand : x[1] = c) = <<c, n>>
    BY <2>2, <2>3
  <2>5. ~ \E x \in InQueue : x[1] = c
    BY <1>2, <1>5, <2>2 DEF PlaceInv
  <2>6. Place(c) = [state |-> "out", tries |-> (CHOOSE x \in InHand : x[1] = c)[2]]
    BY <2>2, <2>5 DEF Place
  <2>7. QED
    BY <2>2, <2>4, <2>6 DEF Durable!At
<1>8. ASSUME NEW how \in Hows, NEW c \in settled[how] PROVE Place(c) = Durable!At(how, 0)
  <2>1. c \in Done
    BY <1>2, <1>8, DoneMeans
  <2>2. ~(\E x \in InQueue : x[1] = c) /\ ~(\E x \in InHand : x[1] = c)
    BY <1>2, <1>5, <2>1 DEF PlaceInv
  <2>3. \A other \in DOMAIN settled : c \in settled[other] => other = how
    BY <1>2, <1>8 DEF EndInv
  <2>4. (CHOOSE other \in DOMAIN settled : c \in settled[other]) = how
    BY <1>2, <1>8, <2>3
  <2>5. QED
    BY <2>1, <2>2, <2>4 DEF Place, Durable!At
<1>9. ASSUME NEW c, c \notin owed PROVE Place(c) = Durable!At("absent", 0)
  <2>1. c \notin CopiesOf(pending) /\ c \notin Taken /\ c \notin Done
    BY <1>2, <1>9 DEF PlaceInv
  <2>2. QED
    BY <1>5, <2>1 DEF Place, Durable!At
<1>10. QED
  BY <1>6, <1>7, <1>8, <1>9 DEF PlacesKnown

LEMMA PlacedNext == Inv' => PlacesKnown'
BY Placed, PTL

\* Where a copy can be.
LEMMA Somewhere ==
  ASSUME Inv, NEW c
  PROVE  \/ \E n \in Nat \ {0} : Queued(c, n)
         \/ \E n \in Nat \ {0} : InHands(c, n)
         \/ \E how \in Hows : c \in settled[how]
         \/ c \notin owed
<1>1. CASE c \in CopiesOf(pending)
  <2>1. PICK i \in DOMAIN pending : Copy(pending[i]) = c
    BY <1>1 DEF CopiesOf
  <2>2. pending[i] \in Delivery
    BY <2>1, LenProperties, ElementOfSeq DEF Inv
  <2>3. QED
    BY <2>1, <2>2 DEF Queued, Delivery
<1>2. CASE c \in Taken
  <2>1. PICK p \in Live : Copy(runner[p].held) = c
    BY <1>2 DEF Taken
  <2>2. runner[p].held \in Delivery
    BY <2>1 DEF Inv, RunnerInv, Live
  <2>3. QED
    BY <2>1, <2>2 DEF InHands, Delivery
<1>3. CASE c \in Done
  BY <1>3, DoneMeans DEF Inv
<1>4. QED
  BY <1>1, <1>2, <1>3 DEF Inv, PlaceInv

\* A copy that stays in its place, at its attempt.
LEMMA StaysPut ==
  ASSUME Inv, Inv', NEW c,
         \A n : Queued(c, n) => Queued(c, n)',
         \A n : InHands(c, n) => InHands(c, n)',
         \A how \in Hows : c \in settled[how] => c \in settled'[how],
         c \notin owed => c \notin owed'
  PROVE  Place(c)' = Place(c)
<1>1. PlacesKnown /\ PlacesKnown'
  BY Placed, PlacedNext
<1>2. CASE \E n \in Nat \ {0} : Queued(c, n)
  BY <1>1, <1>2 DEF PlacesKnown
<1>3. CASE \E n \in Nat \ {0} : InHands(c, n)
  BY <1>1, <1>3 DEF PlacesKnown
<1>4. CASE \E how \in Hows : c \in settled[how]
  BY <1>1, <1>4 DEF PlacesKnown
<1>5. CASE c \notin owed
  BY <1>1, <1>5 DEF PlacesKnown
<1>6. QED
  BY <1>2, <1>3, <1>4, <1>5, Somewhere

\* A copy that a step has nothing to do with: where it was queued it still is, at its
\* attempt; who has it has it still; and it is done with, or nowhere, as before.
LEMMA Untouched ==
  ASSUME Inv, Inv', NEW c,
         c \in CopiesOf(pending) => c \in CopiesOf(pending'),
         \A i \in DOMAIN pending' : Copy(pending'[i]) = c =>
           \E j \in DOMAIN pending : Copy(pending[j]) = c /\ pending[j].attempt = pending'[i].attempt,
         \A p \in Live : Copy(runner[p].held) = c => p \in Live' /\ runner'[p].held = runner[p].held,
         \A how \in Hows : c \in settled[how] => c \in settled'[how],
         c \notin owed => c \notin owed'
  PROVE  Place(c)' = Place(c)
<1>1. ASSUME NEW n, Queued(c, n) PROVE Queued(c, n)'
  <2>1. PICK i \in DOMAIN pending : Copy(pending[i]) = c /\ pending[i].attempt = n
    BY <1>1 DEF Queued
  <2>2. PICK k \in DOMAIN pending' : Copy(pending'[k]) = c
    BY <2>1 DEF CopiesOf
  <2>3. PICK j \in DOMAIN pending : Copy(pending[j]) = c /\ pending[j].attempt = pending'[k].attempt
    BY <2>2
  <2>4. j = i
    BY <2>1, <2>3 DEF Inv, PlaceInv, Distinct
  <2>5. QED
    BY <2>1, <2>2, <2>3, <2>4 DEF Queued
<1>2. ASSUME NEW n, InHands(c, n) PROVE InHands(c, n)'
  BY <1>2 DEF InHands
<1>3. QED
  BY <1>1, <1>2, StaysPut

\* What the tests see of all copies, and a step of it that is about one of them.
Items == [c \in Copies |-> Place(c)]

LEMMA OneMoves ==
  ASSUME NEW c \in Copies, NEW v, Place(c)' = v,
         \A x \in Copies : x # c => Place(x)' = Place(x)
  PROVE  Items' = [Items EXCEPT ![c] = v]
BY DEF Items

\* No delivery is queued for an attempt it may not have.
BoundInv == \A i \in DOMAIN pending : pending[i].attempt <= MaxDeliver[pending[i].durable]

\* A step that neither moves a copy nor counts an attempt of one.
LEMMA NothingMoves ==
  ASSUME Inv, Inv', BoundInv,
         CopiesOf(pending') = CopiesOf(pending),
         \A i \in DOMAIN pending' : \E j \in DOMAIN pending :
           Copy(pending[j]) = Copy(pending'[i]) /\ pending[j].attempt = pending'[i].attempt,
         \A p \in Live : p \in Live' /\ runner'[p].held = runner[p].held,
         UNCHANGED <<settled, owed>>
  PROVE  BoundInv' /\ UNCHANGED Items
<1>1. \A x \in Copies : Place(x)' = Place(x)
  <2> SUFFICES ASSUME NEW x \in Copies PROVE Place(x)' = Place(x)
    OBVIOUS
  <2>1. \A i \in DOMAIN pending' : Copy(pending'[i]) = x =>
          \E j \in DOMAIN pending : Copy(pending[j]) = x /\ pending[j].attempt = pending'[i].attempt
    OBVIOUS
  <2>2. QED
    BY <2>1, Untouched
<1>2. BoundInv'
  BY DEF BoundInv, Copy
<1>3. QED
  BY <1>1, <1>2 DEF Items

\* The test's own calls: only publish adds items.
LEMMA PublishItems ==
  ASSUME Inv, Inv', BoundInv, NEW m \in Messages, Publish(m), FirstsQueued(CopiesFor(m))
  PROVE  BoundInv' /\ Durable!Publish(CopiesFor(m))
<1> DEFINE C == CopiesFor(m)
<1>1. /\ C \subseteq Copies /\ C \cap owed = {}
      /\ CopiesOf(pending') = CopiesOf(pending) \cup C
      /\ \A i \in DOMAIN pending' : \/ \E j \in DOMAIN pending : pending'[i] = pending[j]
                                    \/ pending'[i].attempt = 1 /\ Copy(pending'[i]) \in C
  BY DEF FirstsQueued
<1>2. owed' = owed \cup C /\ UNCHANGED <<runner, settled>>
  BY DEF Publish, CopiesFor
<1> HIDE DEF C
<1>3. \A c \in C : c \notin CopiesOf(pending) /\ Place(c) = Durable!At("absent", 0)
  BY <1>1, Placed DEF PlacesKnown, Inv, PlaceInv
<1>4. ASSUME NEW c \in C PROVE Place(c)' = Durable!At("waiting", 0)
  <2>1. PICK i \in DOMAIN pending' : Copy(pending'[i]) = c
    BY <1>1 DEF CopiesOf
  <2>2. pending'[i].attempt = 1
    BY <1>1, <1>3, <2>1 DEF CopiesOf
  <2>3. Queued(c, 1)'
    BY <2>1, <2>2 DEF Queued
  <2>4. Place(c)' = Durable!At("waiting", 1 - 1)
    BY <2>3, PlacedNext DEF PlacesKnown, Durable!At
  <2>5. QED
    BY <2>4
<1>5. ASSUME NEW c \in Copies, c \notin C PROVE Place(c)' = Place(c)
  <2>1. c \in CopiesOf(pending) => c \in CopiesOf(pending')
    BY <1>1
  <2>2. \A i \in DOMAIN pending' : Copy(pending'[i]) = c =>
          \E j \in DOMAIN pending : Copy(pending[j]) = c /\ pending[j].attempt = pending'[i].attempt
    BY <1>1, <1>5
  <2>3. \A p \in Live : p \in Live' /\ runner'[p].held = runner[p].held
    BY <1>2 DEF Live
  <2>4. (\A how \in Hows : c \in settled[how] => c \in settled'[how]) /\ (c \notin owed => c \notin owed')
    BY <1>2, <1>5
  <2>5. QED
    BY <2>1, <2>2, <2>3, <2>4, Untouched
<1>6. BoundInv'
  <2>1. \A i \in DOMAIN pending' : pending'[i] \in Delivery
    BY LenProperties, ElementOfSeq DEF Inv
  <2>2. \A d \in Durables : MaxDeliver[d] \in Nat \ {0}
    BY SimulatorAssumption
  <2>3. QED
    BY <1>1, <2>1, <2>2 DEF BoundInv, Delivery
<1>7. \A c \in C : Items[c].state = "absent"
  BY <1>1, <1>3 DEF Items, Durable!At
<1>8. Items' = [c \in Copies |-> IF c \in C THEN Durable!At("waiting", 0) ELSE Items[c]]
  <2>1. \A c \in Copies : Place(c)' = IF c \in C THEN Durable!At("waiting", 0) ELSE Place(c)
    BY <1>4, <1>5
  <2>2. QED
    BY <2>1 DEF Items
<1>9. QED
  BY <1>6, <1>7, <1>8 DEF Durable!Publish, Items, C

\* A handler is given the delivery that was first in the queue.
LEMMA TakeItems ==
  ASSUME Inv, Inv', BoundInv, NEW p \in Runners, Take(p)
  PROVE  BoundInv' /\ \E c \in Copies : Durable!Deliver(c)
<1>0. PICK v, c : v = pending[DueIndex] /\ c = Copy(v)
  OBVIOUS
<1>1. /\ runner[p] = Idle /\ DueIndexes # {}
      /\ runner' = [runner EXCEPT ![p] = [doing |-> "taken", held |-> v]]
      /\ pending' = RemoveAt(pending, DueIndex)
      /\ UNCHANGED <<owed, settled>>
  BY <1>0 DEF Take
<1>2. pending \in Seq(Delivery) /\ Distinct(pending) /\ DueIndex \in 1..Len(pending)
  BY <1>1, FirstDue DEF Inv, PlaceInv
<1>3. v \in Delivery /\ DueIndex \in DOMAIN pending /\ c \in Copies /\ v.durable = c[2]
  BY <1>0, <1>2, ElementOfSeq, LenProperties, CopyIsPair
<1>4. /\ CopiesOf(pending') = CopiesOf(pending) \ {c}
      /\ \A i \in DOMAIN pending' : \E j \in DOMAIN pending : pending'[i] = pending[j]
  BY <1>0, <1>1, <1>2, Shortened
<1>5. v.attempt \in Nat \ {0} /\ v.attempt <= MaxDeliver[c[2]]
  BY <1>0, <1>3 DEF BoundInv, Delivery
<1>6. Place(c) = Durable!At("waiting", v.attempt - 1)
  <2>1. Queued(c, v.attempt)
    BY <1>0, <1>3 DEF Queued
  <2>2. QED
    BY <2>1, Placed DEF PlacesKnown
<1>7. /\ p \in Live' /\ runner'[p].held = v /\ p \notin Live
      /\ \A q \in Live : q \in Live' /\ runner'[q] = runner[q]
  BY <1>1 DEF Inv, RunnerInv, Live, Idle
<1>8. Place(c)' = Durable!At("out", v.attempt)
  <2>1. InHands(c, v.attempt)'
    BY <1>0, <1>7 DEF InHands
  <2>2. QED
    BY <2>1, PlacedNext DEF PlacesKnown, Durable!At
<1>9. \A x \in Copies : x # c => Place(x)' = Place(x)
  <2> SUFFICES ASSUME NEW x \in Copies, x # c PROVE Place(x)' = Place(x)
    OBVIOUS
  <2>1. x \in CopiesOf(pending) => x \in CopiesOf(pending')
    BY <1>4
  <2>2. \A i \in DOMAIN pending' : Copy(pending'[i]) = x =>
          \E j \in DOMAIN pending : Copy(pending[j]) = x /\ pending[j].attempt = pending'[i].attempt
    BY <1>4
  <2>3. \A q \in Live : q \in Live' /\ runner'[q].held = runner[q].held
    BY <1>7
  <2>4. QED
    BY <1>1, <2>1, <2>2, <2>3, Untouched
<1>10. BoundInv'
  BY <1>4 DEF BoundInv
<1>11. Items' = [Items EXCEPT ![c] = Durable!At("out", (v.attempt - 1) + 1)]
  <2>1. (v.attempt - 1) + 1 = v.attempt
    BY <1>5
  <2>2. QED
    BY <1>3, <1>8, <1>9, <2>1, OneMoves DEF Durable!At
<1>12. Items[c].state = "waiting" /\ Items[c].tries = v.attempt - 1
  BY <1>3, <1>6 DEF Items, Durable!At
<1>13. v.attempt - 1 < [x \in Copies |-> MaxDeliver[x[2]]][c]
  BY <1>3, <1>5, SimulatorAssumption DEF Copies
<1>14. Durable!Deliver(c)
  BY <1>11, <1>12, <1>13 DEF Durable!Deliver, Items
<1>15. QED
  BY <1>3, <1>10, <1>14

\* What a runner has is out.
LEMMA InHandOut ==
  ASSUME Inv, NEW p \in Runners, runner[p].doing # "idle", NEW v, NEW c,
         v = runner[p].held, c = Copy(v)
  PROVE  /\ v \in Delivery /\ c \in Copies /\ v.durable = c[2]
         /\ Items[c] = Durable!At("out", v.attempt)
<1>1. p \in Live /\ v \in Delivery /\ c \in Copies /\ v.durable = c[2]
  BY Holds, CopyIsPair DEF Inv
<1>2. InHands(c, v.attempt)
  BY <1>1 DEF InHands
<1>3. Place(c) = Durable!At("out", v.attempt)
  BY <1>2, Placed DEF PlacesKnown
<1>4. QED
  BY <1>1, <1>3 DEF Items

\* A runner that lets go of its copy leaves the others theirs.
LEMMA OthersHold ==
  ASSUME RunnerInv, NEW p \in Runners, runner' = [runner EXCEPT ![p] = Idle],
         NEW x, x # Copy(runner[p].held)
  PROVE  \A q \in Live : Copy(runner[q].held) = x => q \in Live' /\ runner'[q].held = runner[q].held
BY DEF RunnerInv, Live

\* A delivery that ends takes its copy to the end it names.
LEMMA EndItems ==
  ASSUME Inv, Inv', BoundInv, NEW p \in Runners, runner[p].doing # "idle", NEW how \in Hows,
         NEW c, c = Copy(runner[p].held),
         settled' = [settled EXCEPT ![how] = @ \cup {c}],
         runner' = [runner EXCEPT ![p] = Idle],
         UNCHANGED <<pending, owed>>
  PROVE  BoundInv' /\ Items' = [Items EXCEPT ![c] = Durable!At(how, 0)]
<1>1. PICK v : v = runner[p].held /\ c = Copy(v)
  OBVIOUS
<1>2. c \in Copies
  BY <1>1, InHandOut
<1>3. \A h \in Hows : settled[h] \subseteq settled'[h]
  BY DEF Inv, EndInv
<1>4. Place(c)' = Durable!At(how, 0)
  <2>1. c \in settled'[how]
    BY DEF Inv, EndInv
  <2>2. QED
    BY <2>1, PlacedNext DEF PlacesKnown, Durable!At
<1>5. \A x \in Copies : x # c => Place(x)' = Place(x)
  <2> SUFFICES ASSUME NEW x \in Copies, x # c PROVE Place(x)' = Place(x)
    OBVIOUS
  <2>1. \A q \in Live : Copy(runner[q].held) = x => q \in Live' /\ runner'[q].held = runner[q].held
    BY OthersHold DEF Inv
  <2>2. QED
    BY <1>3, <2>1, Untouched
<1>6. QED
  BY <1>2, <1>4, <1>5, OneMoves DEF BoundInv

\* A delivery that a handler rejected, or that timed out, waits again if it may.
LEMMA RetryItems ==
  ASSUME Inv, Inv', BoundInv, NEW p \in Runners, runner[p].doing # "idle", NEW delay \in Nat,
         Retry(runner[p].held, delay),
         runner' = [runner EXCEPT ![p] = Idle],
         UNCHANGED owed
  PROVE  BoundInv' /\ \E c \in Copies : Durable!Requeue(c)
<1>1. PICK v, c : v = runner[p].held /\ c = Copy(v)
  OBVIOUS
<1>2. /\ v \in Delivery /\ c \in Copies /\ v.durable = c[2]
      /\ Items[c] = Durable!At("out", v.attempt)
  BY <1>1, InHandOut
<1>3. /\ Items[c].state = "out" /\ Items[c].tries = v.attempt
      /\ v.attempt \in Nat \ {0} /\ MaxDeliver[c[2]] \in Nat
      /\ [x \in Copies |-> MaxDeliver[x[2]]][c] = MaxDeliver[c[2]]
  BY <1>2, SimulatorAssumption DEF Durable!At, Delivery, Copies
<1>4. CASE v.attempt >= MaxDeliver[v.durable]
  <2>1. settled' = [settled EXCEPT !["exhausted"] = @ \cup {c}] /\ UNCHANGED pending
    BY <1>1, <1>4 DEF Retry
  <2>2. BoundInv' /\ Items' = [Items EXCEPT ![c] = Durable!At("exhausted", 0)]
    BY <1>1, <2>1, EndItems DEF Hows
  <2>3. ~(Items[c].tries < MaxDeliver[c[2]])
    BY <1>2, <1>3, <1>4
  <2>4. Durable!Requeue(c)
    BY <1>3, <2>2, <2>3 DEF Durable!Requeue, Items
  <2>5. QED
    BY <1>2, <2>2, <2>4
<1>5. CASE ~(v.attempt >= MaxDeliver[v.durable])
  <2>1. PICK w : w = [v EXCEPT !.attempt = v.attempt + 1, !.wait = delay]
    OBVIOUS
  <2>2. pending' = Append(pending, w) /\ UNCHANGED settled
    BY <1>1, <1>5, <2>1 DEF Retry
  <2>3. w \in Delivery /\ Copy(w) = c /\ w.attempt = v.attempt + 1 /\ w.durable = v.durable
    <3>1. v.attempt + 1 \in Nat \ {0}
      BY <1>3
    <3>2. w \in Delivery /\ Copy(w) = c
      BY <1>1, <1>2, <2>1, <3>1, CopyIsPair
    <3>3. QED
      BY <1>2, <2>1, <3>2 DEF Delivery
  <2>4. c \notin CopiesOf(pending)
    BY <1>1, Holds DEF Inv, PlaceInv
  <2>5. /\ CopiesOf(pending') = CopiesOf(pending) \cup {c}
        /\ \A i \in DOMAIN pending' : pending'[i] = w \/ \E j \in DOMAIN pending : pending'[i] = pending[j]
    BY <2>2, <2>3, <2>4, Lengthened DEF Inv, PlaceInv
  <2>6. BoundInv'
    <3>1. w.attempt <= MaxDeliver[w.durable]
      BY <1>2, <1>3, <1>5, <2>3
    <3>2. QED
      BY <2>5, <3>1 DEF BoundInv
  <2>7. Place(c)' = Durable!At("waiting", v.attempt)
    <3>1. PICK i \in DOMAIN pending' : Copy(pending'[i]) = c
      BY <2>5 DEF CopiesOf
    <3>2. pending'[i] = w
      BY <2>4, <2>5, <3>1 DEF CopiesOf
    <3>3. Queued(c, v.attempt + 1)'
      BY <2>3, <3>1, <3>2 DEF Queued
    <3>4. Place(c)' = Durable!At("waiting", (v.attempt + 1) - 1)
      BY <3>3, PlacedNext DEF PlacesKnown, Durable!At
    <3>5. (v.attempt + 1) - 1 = v.attempt
      BY <1>3
    <3>6. QED
      BY <3>4, <3>5
  <2>8. \A x \in Copies : x # c => Place(x)' = Place(x)
    <3> SUFFICES ASSUME NEW x \in Copies, x # c PROVE Place(x)' = Place(x)
      OBVIOUS
    <3>1. \A i \in DOMAIN pending' : Copy(pending'[i]) = x =>
            \E j \in DOMAIN pending : Copy(pending[j]) = x /\ pending[j].attempt = pending'[i].attempt
      BY <2>3, <2>5
    <3>2. \A q \in Live : Copy(runner[q].held) = x => q \in Live' /\ runner'[q].held = runner[q].held
      BY <1>1, OthersHold DEF Inv
    <3>3. x \in CopiesOf(pending) => x \in CopiesOf(pending')
      BY <2>5
    <3>4. QED
      BY <2>2, <3>1, <3>2, <3>3, Untouched
  <2>9. Items' = [Items EXCEPT ![c] = Durable!At("waiting", v.attempt)]
    BY <1>2, <2>7, <2>8, OneMoves DEF Durable!At
  <2>10. Items[c].tries < MaxDeliver[c[2]]
    BY <1>2, <1>3, <1>5
  <2>11. Durable!Requeue(c)
    BY <1>3, <2>9, <2>10 DEF Durable!Requeue, Items
  <2>12. QED
    BY <1>2, <2>6, <2>11
<1>6. QED
  BY <1>4, <1>5

\* A step of run_until_idle is a step of a durable consumer.
LEMMA RunItems ==
  ASSUME Inv, Inv', BoundInv, NEW p \in Runners, Run(p)
  PROVE  BoundInv' /\ (Durable!Next \/ UNCHANGED Items)
<1>1. PICK c : c = Copy(runner[p].held)
  OBVIOUS
<1>2. ASSUME runner[p].doing = "handling", runner' = [runner EXCEPT ![p] = Idle]
      PROVE  c \in Copies /\ Items[c].state = "out" /\ Items[c].tries > 0
  <2>1. PICK v : v = runner[p].held
    OBVIOUS
  <2>2. v \in Delivery /\ c \in Copies /\ Items[c] = Durable!At("out", v.attempt)
    BY <1>1, <1>2, <2>1, InHandOut
  <2>3. QED
    BY <2>2 DEF Durable!At, Delivery
<1>3. CASE Take(p)
  BY <1>3, TakeItems DEF Durable!Next
<1>4. CASE ConsumeTimeout(p)
  <2>1. /\ runner[p].doing = "taken" /\ UNCHANGED <<pending, owed, settled>>
        /\ \/ runner' = [runner EXCEPT ![p].doing = "timing out"]
           \/ runner' = [runner EXCEPT ![p].doing = "handling"]
    BY <1>4 DEF ConsumeTimeout
  <2>2. \A q \in Live : q \in Live' /\ runner'[q].held = runner[q].held
    <3>1. p \in Live /\ runner[p] \in [doing : {"taken", "timing out", "handling"}, held : Delivery]
      BY <2>1, Holds DEF Inv, RunnerInv, Live
    <3>2. PICK w \in {"timing out", "handling"} : runner'[p] = [runner[p] EXCEPT !.doing = w]
      BY <2>1 DEF Inv, RunnerInv
    <3>3. /\ runner'[p] # Idle /\ runner'[p].held = runner[p].held
          /\ \A q \in Runners : q # p => runner'[q] = runner[q]
      <4>1. runner'[p].doing = w /\ runner'[p].held = runner[p].held
        BY <3>1, <3>2
      <4>2. runner'[p] # Idle
        <5>1. runner'[p].doing # "idle"
          BY <3>2, <4>1
        <5>2. Idle.doing = "idle"
          BY DEF Idle
        <5>3. QED
          BY <5>1, <5>2, Zenon
      <4>3. QED
        BY <2>1, <4>1, <4>2 DEF Inv, RunnerInv
    <3>4. QED
      BY <3>3 DEF Live
  <2>3. CopiesOf(pending') = CopiesOf(pending)
    BY <2>1
  <2>4. QED
    BY <2>1, <2>2, <2>3, NothingMoves
<1>5. CASE CompleteTimeout(p)
  <2>1. /\ runner[p].doing # "idle" /\ Retry(runner[p].held, TimeoutDelay(runner[p].held))
        /\ runner' = [runner EXCEPT ![p] = Idle] /\ UNCHANGED owed
    BY <1>5 DEF CompleteTimeout
  <2>2. TimeoutDelay(runner[p].held) \in Nat
    BY <2>1, Holds, DelayType DEF Inv
  <2>3. QED
    BY <2>1, <2>2, RetryItems DEF Durable!Next
<1>6. CASE CompleteAck(p)
  <2>1. /\ runner[p].doing = "handling" /\ runner' = [runner EXCEPT ![p] = Idle]
        /\ settled' = [settled EXCEPT !["acked"] = @ \cup {c}] /\ UNCHANGED <<pending, owed>>
    BY <1>1, <1>6 DEF CompleteAck
  <2>2. BoundInv' /\ Items' = [Items EXCEPT ![c] = Durable!At("acked", 0)]
    BY <1>1, <2>1, EndItems DEF Hows
  <2>3. Durable!Settle(c, "acked")
    BY <1>2, <2>1, <2>2 DEF Durable!Settle, Items
  <2>4. QED
    BY <1>2, <2>1, <2>2, <2>3 DEF Durable!Next
<1>7. CASE CompleteTerm(p)
  <2>1. /\ runner[p].doing = "handling" /\ runner' = [runner EXCEPT ![p] = Idle]
        /\ settled' = [settled EXCEPT !["termed"] = @ \cup {c}] /\ UNCHANGED <<pending, owed>>
    BY <1>1, <1>7 DEF CompleteTerm
  <2>2. BoundInv' /\ Items' = [Items EXCEPT ![c] = Durable!At("termed", 0)]
    BY <1>1, <2>1, EndItems DEF Hows
  <2>3. Durable!Settle(c, "termed")
    BY <1>2, <2>1, <2>2 DEF Durable!Settle, Items
  <2>4. QED
    BY <1>2, <2>1, <2>2, <2>3 DEF Durable!Next
<1>8. CASE RunnerDropped(p)
  <2>1. /\ runner[p].doing = "handling" /\ runner' = [runner EXCEPT ![p] = Idle]
        /\ settled' = [settled EXCEPT !["lost"] = @ \cup {c}] /\ UNCHANGED <<pending, owed>>
    BY <1>1, <1>8 DEF RunnerDropped
  <2>2. BoundInv' /\ Items' = [Items EXCEPT ![c] = Durable!At("lost", 0)]
    BY <1>1, <2>1, EndItems DEF Hows
  <2>3. Durable!Forget(c)
    BY <1>2, <2>1, <2>2 DEF Durable!Forget, Items
  <2>4. QED
    BY <1>2, <2>1, <2>2, <2>3 DEF Durable!Next
<1>9. CASE \E delay \in Delays \cup {0} : CompleteNack(p, delay)
  <2>1. PICK delay \in Nat : CompleteNack(p, delay)
    BY <1>9, SimulatorAssumption
  <2>2. QED
    BY <2>1, RetryItems DEF CompleteNack, Durable!Next
<1>10. QED
  BY <1>3, <1>4, <1>5, <1>6, <1>7, <1>8, <1>9 DEF Run

\* Every step is one that a durable consumer may take, or none that its tests see.
LEMMA NextItems ==
  ASSUME Inv, Inv', BoundInv, [Next]_vars
  PROVE  BoundInv' /\ (Durable!Next \/ UNCHANGED Items)
<1>1. ASSUME UNCHANGED <<pending, runner, owed, settled>>
      PROVE  BoundInv' /\ UNCHANGED Items
  <2>1. Live' = Live /\ CopiesOf(pending') = CopiesOf(pending)
    BY <1>1 DEF Live
  <2>2. QED
    BY <1>1, <2>1, NothingMoves
<1>2. CASE \E d \in Durables : RegisterConsumer(d) \/ TimeoutNext(d)
  BY <1>1, <1>2 DEF RegisterConsumer, TimeoutNext
<1>3. CASE \E m \in Messages : Publish(m)
  <2>1. PICK m \in Messages : Publish(m)
    BY <1>3
  <2>2. FirstsQueued(CopiesFor(m))
    BY <2>1, PublishInv
  <2>3. CopiesFor(m) \in SUBSET Copies
    BY <2>2 DEF FirstsQueued
  <2>4. QED
    BY <2>1, <2>2, <2>3, PublishItems DEF Durable!Next
<1>4. CASE Advance
  <2>1. /\ pending' = [i \in DOMAIN pending |-> [pending[i] EXCEPT !.wait = IF @ > 0 THEN @ - 1 ELSE 0]]
        /\ UNCHANGED <<runner, owed, settled>>
    BY <1>4 DEF Advance
  <2>2. \A i \in DOMAIN pending : pending[i] \in Delivery
    BY LenProperties, ElementOfSeq DEF Inv
  <2>3. /\ DOMAIN pending' = DOMAIN pending
        /\ \A i \in DOMAIN pending : /\ Copy(pending'[i]) = Copy(pending[i])
                                     /\ pending'[i].attempt = pending[i].attempt
    BY <2>1, <2>2 DEF Copy, Delivery
  <2>4. CopiesOf(pending') = CopiesOf(pending)
    BY <2>3 DEF CopiesOf
  <2>5. \A p \in Live : p \in Live' /\ runner'[p].held = runner[p].held
    BY <2>1 DEF Live
  <2>6. QED
    BY <2>1, <2>3, <2>4, <2>5, NothingMoves
<1>5. CASE \E p \in Runners : Run(p)
  BY <1>5, RunItems
<1>6. CASE UNCHANGED vars
  BY <1>1, <1>6 DEF vars
<1>7. QED
  BY <1>2, <1>3, <1>4, <1>5, <1>6 DEF Next

\* The simulator does nothing that a durable consumer does not do, for any messages,
\* durables, limits and number of runners.
THEOREM SimulatesDurable == Spec => ImplementsDurable
<1>1. Init => Durable!Init /\ BoundInv
  <2>1. SUFFICES ASSUME Init PROVE Durable!Init /\ BoundInv
    OBVIOUS
  <2>2. PlacesKnown
    BY <2>1, InitInv, Placed
  <2>3. \A c \in Copies : Place(c) = Durable!At("absent", 0)
    BY <2>1, <2>2 DEF Init, PlacesKnown
  <2>4. Items = [c \in Copies |-> Durable!At("absent", 0)]
    BY <2>3 DEF Items
  <2>5. DOMAIN pending = {}
    BY <2>1, EmptySeq, LenProperties DEF Init
  <2>6. QED
    BY <2>4, <2>5 DEF Durable!Init, Items, BoundInv
<1>2. Inv /\ Inv' /\ BoundInv /\ [Next]_vars => BoundInv'
  BY NextItems
<1>3. Inv /\ Inv' /\ BoundInv /\ [Next]_vars => [Durable!Next]_Items
  BY NextItems
<1>4. Spec => [][Durable!Next]_Items
  BY <1>1, <1>2, <1>3, Invariance, PTL DEF Spec
<1>5. QED
  BY <1>1, <1>4, PTL DEF Spec, ImplementsDurable, Durable!Spec, Items
=============================================================================
