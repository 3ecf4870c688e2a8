-------------------------- MODULE FederationProofs --------------------------
(***************************************************************************)
(* Proofs about Federation, for every set of instances, entities, names,   *)
(* prefixes and inherited messages: the operators of the broker and of the *)
(* wire protocol, type correctness, and that nobody shows its own.         *)
(*                                                                         *)
(* The actions are used through Step(q), what a step is for one instance:  *)
(* it hears what is published, starts afresh, renews its subscriptions,    *)
(* handles a message or depublishes.  Nothing is used of AnyOrder but that *)
(* it puts a finite set in some order.                                     *)
(***************************************************************************)
EXTENDS Federation, TLAPS, FiniteSetTheorems, FunctionTheorems, SequenceTheorems

(***************************************************************************)
(* The broker's operators                                                  *)
(***************************************************************************)

\* A finite set of messages can be put in an order: a sequence of its members
\* in which each of them occurs.
LEMMA OrderOfSet ==
  ASSUME NEW S, IsFiniteSet(S)
  PROVE  /\ AnyOrder(S) \in Seq(S)
         /\ \A m \in S : \E i \in 1..Len(AnyOrder(S)) : AnyOrder(S)[i] = m
<1> DEFINE n == Cardinality(S)
<1>1. n \in Nat /\ ExistsBijection(1..n, S)
  BY FS_CardinalityType
<1>2. PICK f : f \in Bijection(1..n, S)
  BY <1>1, Fun_ExistsBij
<1> HIDE DEF n
<1>3. f \in [1..n -> S] /\ \A m \in S : \E i \in 1..n : f[i] = m
  BY <1>2 DEF Bijection, Surjection
<1>4. f \in Orders(S)
  BY <1>3 DEF Orders, n
<1>5. AnyOrder(S) \in Orders(S)
  BY <1>4 DEF AnyOrder
<1>6. AnyOrder(S) \in Seq(S)
  BY <1>5, <1>1, SeqDef DEF Orders, n
<1> QED
  BY <1>5, <1>6, LenProperties DEF Orders

\* Appending the members of a finite set to a sequence.
LEMMA AppendSet ==
  ASSUME NEW M, NEW s \in Seq(M), NEW S \in SUBSET M, IsFiniteSet(S)
  PROVE  LET w == s \o AnyOrder(S) IN
         /\ w \in Seq(M) /\ Len(s) <= Len(w)
         /\ \A i \in 1..Len(s) : w[i] = s[i]
         /\ \A i \in Len(s) + 1 .. Len(w) : w[i] \in S
         /\ \A m \in S : \E i \in Len(s) + 1 .. Len(w) : w[i] = m
<1> DEFINE o == AnyOrder(S)
           w == s \o o
<1>1. o \in Seq(S) /\ o \in Seq(M) /\ \A m \in S : \E i \in 1..Len(o) : o[i] = m
  BY OrderOfSet, SeqMonotonic
<1>2. Len(s) \in Nat /\ Len(o) \in Nat /\ \A i \in 1..Len(o) : o[i] \in S
  BY <1>1, LenProperties, ElementOfSeq
<1> HIDE DEF o
<1>3. /\ w \in Seq(M) /\ Len(w) = Len(s) + Len(o)
      /\ \A i \in 1 .. Len(s) + Len(o) : w[i] = IF i <= Len(s) THEN s[i] ELSE o[i - Len(s)]
  BY <1>1, ConcatProperties
<1> HIDE DEF w
<1>4. \A i \in Len(s) + 1 .. Len(w) : w[i] = o[i - Len(s)] /\ i - Len(s) \in 1..Len(o)
  BY <1>2, <1>3
<1>5. \A i \in 1..Len(s) : w[i] = s[i]
  BY <1>2, <1>3
<1>6. \A i \in Len(s) + 1 .. Len(w) : w[i] \in S
  BY <1>2, <1>4
<1>7. ASSUME NEW m \in S PROVE \E i \in Len(s) + 1 .. Len(w) : w[i] = m
  <2>1. PICK k \in 1..Len(o) : o[k] = m
    BY <1>1
  <2>2. k + Len(s) \in Len(s) + 1 .. Len(w) /\ (k + Len(s)) - Len(s) = k
    BY <2>1, <1>2, <1>3
  <2> QED
    BY <2>1, <2>2, <1>4
<1> QED
  BY <1>2, <1>3, <1>5, <1>6, <1>7 DEF w, o

\* What an inbox becomes when the messages of a set are put at its end.
Extended(w, s, S) ==
  /\ w \in Seq(Msg) /\ Len(s) <= Len(w)
  /\ \A i \in 1..Len(s) : w[i] = s[i]
  /\ \A i \in Len(s) + 1 .. Len(w) : w[i] \in S
  /\ \A m \in S : \E i \in Len(s) + 1 .. Len(w) : w[i] = m

\* Forward puts what an instance hears at the end of its inbox.
LEMMA ForwardExtends ==
  ASSUME NEW first \in SUBSET Msg, NEW second \in SUBSET Msg,
         IsFiniteSet(first), IsFiniteSet(second),
         NEW q \in Instance, inbox[q] \in Seq(Msg)
  PROVE  /\ DOMAIN Forward(first, second) = Instance
         /\ q \notin up => Forward(first, second)[q] = inbox[q]
         /\ q \in up => Extended(Forward(first, second)[q], inbox[q], Heard(q, first \cup second))
         /\ Forward(first, second)[q] \in Seq(Msg)
<1> DEFINE s == inbox[q]
           A == Heard(q, first)
           B == Heard(q, second)
           v == s \o AnyOrder(A)
           w == v \o AnyOrder(B)
<1>1. /\ DOMAIN Forward(first, second) = Instance
      /\ Forward(first, second)[q] = IF q \notin up THEN s ELSE w
  BY DEF Forward
<1>2. A \in SUBSET Msg /\ B \in SUBSET Msg /\ IsFiniteSet(A) /\ IsFiniteSet(B)
  <2>1. A \in SUBSET first /\ B \in SUBSET second
    BY DEF Heard
  <2> HIDE DEF A, B
  <2> QED
    BY <2>1, FS_Subset
<1>3. Heard(q, first \cup second) = A \cup B
  BY DEF Heard
<1> HIDE DEF A, B
<1>4. /\ v \in Seq(Msg) /\ Len(s) <= Len(v)
      /\ \A i \in 1..Len(s) : v[i] = s[i]
      /\ \A i \in Len(s) + 1 .. Len(v) : v[i] \in A
      /\ \A m \in A : \E i \in Len(s) + 1 .. Len(v) : v[i] = m
  <2>1. s \in Seq(Msg) /\ A \in SUBSET Msg /\ IsFiniteSet(A)
    BY <1>2
  <2> HIDE DEF s
  <2> QED
    BY <2>1, AppendSet
<1> HIDE DEF v
<1>5. /\ w \in Seq(Msg) /\ Len(v) <= Len(w)
      /\ \A i \in 1..Len(v) : w[i] = v[i]
      /\ \A i \in Len(v) + 1 .. Len(w) : w[i] \in B
      /\ \A m \in B : \E i \in Len(v) + 1 .. Len(w) : w[i] = m
  <2>1. v \in Seq(Msg) /\ B \in SUBSET Msg /\ IsFiniteSet(B)
    BY <1>2, <1>4
  <2> QED
    BY <2>1, AppendSet
<1> HIDE DEF w
<1>6. Len(s) \in Nat /\ Len(v) \in Nat /\ Len(w) \in Nat
  BY <1>4, <1>5, LenProperties
<1>7. Extended(w, s, A \cup B)
  <2>1. \A i \in 1..Len(s) : w[i] = s[i]
    BY <1>4, <1>5, <1>6
  <2>2. ASSUME NEW i \in Len(s) + 1 .. Len(w) PROVE w[i] \in A \cup B
    <3>1. CASE i <= Len(v)
      BY <3>1, <1>4, <1>5, <1>6
    <3>2. CASE i > Len(v)
      BY <3>2, <1>5, <1>6
    <3> QED
      BY <3>1, <3>2, <1>6
  <2>3. ASSUME NEW m \in A PROVE \E i \in Len(s) + 1 .. Len(w) : w[i] = m
    <3>1. PICK i \in Len(s) + 1 .. Len(v) : v[i] = m
      BY <1>4, <2>3
    <3> QED
      BY <3>1, <1>5, <1>6
  <2>4. ASSUME NEW m \in B PROVE \E i \in Len(s) + 1 .. Len(w) : w[i] = m
    <3>1. PICK i \in Len(v) + 1 .. Len(w) : w[i] = m
      BY <1>5, <2>4
    <3> QED
      BY <3>1, <1>4, <1>6
  <2> QED
    BY <1>4, <1>5, <1>6, <2>1, <2>2, <2>3, <2>4 DEF Extended
<1> QED
  BY <1>1, <1>3, <1>7 DEF Extended

(***************************************************************************)
(* Topics and messages                                                     *)
(***************************************************************************)
Normal(x) == x \in Topic /\ Len(x) > 1 /\ x[Len(x)] = ""

LEMMA Words ==
  /\ {"", "sensor", "config", "bridge", "metadata"} \subseteq Segment
  /\ Bridge \subseteq Segment
  /\ \A e \in EntityId : object_id_from_entity_id(e) \in Segment
BY DEF Segment

LEMMA PrefixesAreNormal ==
  /\ \A x \in Prefixes : normalize_prefix(x) \in SharedPrefix
  /\ \A x \in SharedPrefix : Normal(x)
  /\ Normal(ValuePrefix)
<1>1. ASSUME NEW x \in Prefixes PROVE Normal(normalize_prefix(x))
  <2>1. x \in Seq(Segment) /\ x # <<>>
    BY Given DEF Topic
  <2>2. Len(x) \in Nat \ {0}
    BY <2>1, EmptySeq
  <2>3. "" \in Segment
    BY Words
  <2>4. ASSUME NEW z \in Segment
        PROVE  LET y == Append(x, z) IN y \in Seq(Segment) /\ Len(y) > 1 /\ y[Len(y)] = z
    <3> DEFINE y == Append(x, z)
    <3>1. y \in Seq(Segment) /\ Len(y) = Len(x) + 1 /\ y[Len(x) + 1] = z
      BY <2>1, AppendProperties
    <3> HIDE DEF y
    <3>2. y \in Seq(Segment) /\ Len(y) > 1 /\ y[Len(y)] = z
      BY <2>2, <3>1
    <3> QED
      BY <3>2 DEF y
  <2>5. LET y == Append(x, "") IN y \in Topic /\ Len(y) > 1 /\ y[Len(y)] = ""
    BY <2>3, <2>4 DEF Topic
  <2>6. CASE Len(x) > 1 /\ x[Len(x)] = ""
    BY <2>1, <2>6 DEF normalize_prefix, Normal, Topic
  <2>7. CASE ~(Len(x) > 1 /\ x[Len(x)] = "")
    BY <2>5, <2>7 DEF normalize_prefix, Normal
  <2> QED
    BY <2>6, <2>7
<1>2. Normal(ValuePrefix)
  BY Given DEF Normal
<1> QED
  BY <1>1, <1>2 DEF SharedPrefix

\* A topic under a prefix is the prefix without its empty last segment, then
\* the segments.
LEMMA UnderSegments ==
  ASSUME NEW x, Normal(x), NEW g \in Topic
  PROVE  /\ Under(x, g) \in Topic
         /\ Len(Under(x, g)) = Len(x) - 1 + Len(g)
         /\ \A i \in 1 .. Len(x) - 1 : Under(x, g)[i] = x[i]
         /\ \A i \in 1 .. Len(g) : Under(x, g)[Len(x) - 1 + i] = g[i]
<1> DEFINE n == Len(x) - 1
           h == SubSeq(x, 1, n)
<1>1. x \in Seq(Segment) /\ g \in Seq(Segment) /\ Len(x) > 1
  BY DEF Normal, Topic
<1>2. Len(x) \in Nat /\ Len(g) \in Nat /\ \A i \in 1..Len(x) : x[i] \in Segment
  BY <1>1, LenProperties, ElementOfSeq
<1>3. n \in Nat /\ \A i \in 1..n : x[i] \in Segment
  BY <1>1, <1>2
<1>4. Under(x, g) = h \o g
  BY DEF Under
<1> HIDE DEF n
<1>5. h \in Seq(Segment) /\ Len(h) = n /\ \A i \in 1..n : h[i] = x[i]
  <2>1. /\ h \in Seq(Segment) /\ Len(h) = IF 1 <= n THEN n - 1 + 1 ELSE 0
        /\ \A i \in 1 .. n - 1 + 1 : h[i] = x[1 + i - 1]
    BY <1>3, SubSeqProperties
  <2> HIDE DEF h
  <2> QED
    BY <1>3, <2>1
<1> HIDE DEF h
<1>6. /\ h \o g \in Seq(Segment) /\ Len(h \o g) = n + Len(g)
      /\ \A i \in 1 .. n + Len(g) : (h \o g)[i] = IF i <= n THEN h[i] ELSE g[i - n]
  BY <1>1, <1>5, ConcatProperties
<1>7. \A i \in 1 .. Len(g) : (h \o g)[n + i] = g[i]
  <2> TAKE i \in 1 .. Len(g)
  <2>1. n + i \in 1 .. n + Len(g) /\ ~(n + i <= n) /\ (n + i) - n = i
    BY <1>2, <1>3
  <2> QED
    BY <2>1, <1>6
<1>8. \A i \in 1..n : (h \o g)[i] = x[i]
  BY <1>2, <1>3, <1>5, <1>6
<1> QED
  BY <1>4, <1>6, <1>7, <1>8 DEF n, Topic

LEMMA ObjectIds ==
  ASSUME NEW e \in EntityId
  PROVE  object_id_from_entity_id(e) = e[2]
<1>1. e = <<e[1], e[2]>>
  BY Given
<1>2. \A a, b : Len(<<a, b>>) = 2
  <2> TAKE a, b
  <2>1. a \in {a, b} /\ b \in {a, b}
    OBVIOUS
  <2>2. <<a, b>> \in Seq({a, b}) /\ DOMAIN <<a, b>> = 1..2
    BY <2>1
  <2> QED
    BY <2>2, LenProperties
<1> QED
  BY <1>1, <1>2 DEF object_id_from_entity_id

LEMMA Segments3 ==
  ASSUME NEW a \in Segment, NEW b \in Segment, NEW c \in Segment
  PROVE  /\ <<a, b, c>> \in Topic /\ Len(<<a, b, c>>) = 3
         /\ <<a, b, c>>[1] = a /\ <<a, b, c>>[2] = b /\ <<a, b, c>>[3] = c
<1>1. <<a, b, c>> \in Seq(Segment) /\ DOMAIN <<a, b, c>> = 1..3
  OBVIOUS
<1>2. Len(<<a, b, c>>) = 3
  BY <1>1, LenProperties
<1> QED
  BY <1>1, <1>2 DEF Topic

LEMMA Segments2 ==
  ASSUME NEW a \in Segment, NEW b \in Segment
  PROVE  /\ <<a, b>> \in Topic /\ Len(<<a, b>>) = 2
         /\ <<a, b>>[1] = a /\ <<a, b>>[2] = b
<1>1. <<a, b>> \in Seq(Segment) /\ DOMAIN <<a, b>> = 1..2
  OBVIOUS
<1>2. Len(<<a, b>>) = 2
  BY <1>1, LenProperties
<1> QED
  BY <1>1, <1>2 DEF Topic

\* Taking a topic apart: under its own prefix it leaves its segments, and
\* three segments remain under no other prefix.
LEMMA Apart3 ==
  ASSUME NEW x, Normal(x), NEW y, Normal(y), NEW g \in Topic, Len(g) = 3
  PROVE  LET t == Under(y, g) IN
         /\ StartsWith(t, x) /\ Len(Remainder(t, x)) = 3 => y = x
         /\ y = x => StartsWith(t, x) /\ Remainder(t, x) \in Topic /\ Len(Remainder(t, x)) = 3
         /\ y = x => \A i \in 1..3 : Remainder(t, x)[i] = g[i]
<1> DEFINE t == Under(y, g)
           n == Len(x) - 1
           k == Len(y) - 1
           r == SubSeq(t, Len(x), Len(t))
<1>1. x \in Seq(Segment) /\ y \in Seq(Segment)
  BY DEF Normal, Topic
<1>2. Len(x) \in Nat /\ Len(y) \in Nat /\ Len(x) > 1 /\ Len(y) > 1
  BY <1>1, LenProperties DEF Normal
<1>3. /\ t \in Seq(Segment) /\ Len(t) = k + 3
      /\ \A i \in 1..k : t[i] = y[i]
      /\ \A i \in 1..3 : t[k + i] = g[i]
  <2>1. /\ t \in Topic /\ Len(t) = Len(y) - 1 + Len(g)
        /\ \A i \in 1 .. Len(y) - 1 : t[i] = y[i]
        /\ \A i \in 1 .. Len(g) : t[Len(y) - 1 + i] = g[i]
    BY UnderSegments
  <2> HIDE DEF t
  <2> QED
    BY <2>1 DEF Topic
<1>4. \A i \in 1..Len(t) : t[i] \in Segment
  BY <1>3, ElementOfSeq
<1> HIDE DEF t
<1>5. /\ Len(t) \in Nat
      /\ \A i \in Len(x)..Len(t) : t[i] \in Segment
      /\ \A i \in 1..n : i \in 1..Len(x)
  BY <1>2, <1>3, <1>4
<1>6. /\ r \in Seq(Segment)
      /\ Len(r) = IF Len(x) <= Len(t) THEN Len(t) - Len(x) + 1 ELSE 0
      /\ \A i \in 1 .. Len(t) - Len(x) + 1 : r[i] = t[Len(x) + i - 1]
  BY <1>2, <1>5, SubSeqProperties
<1>7. Remainder(t, x) = r
  BY DEF Remainder
<1> HIDE DEF r
<1>8. n \in Nat /\ k \in Nat /\ n + 1 = Len(x) /\ k + 1 = Len(y)
  BY <1>2
<1>9. ASSUME StartsWith(t, x), Len(r) = 3 PROVE y = x
  <2>1. Len(x) <= Len(t) /\ SubSeq(t, 1, n) = SubSeq(x, 1, n)
    <3>1. Len(t) >= Len(x) /\ SubSeq(t, 1, n) = SubSeq(x, 1, n)
      BY <1>9, Zenon DEF StartsWith
    <3>2. Len(x) <= Len(t)
      BY <3>1, <1>2, <1>5
    <3> QED
      BY <3>1, <3>2, Zenon
  <2>2. Len(y) = Len(x) /\ n = k
    <3>1. Len(x) <= Len(t)
      BY <2>1, Zenon
    <3>2. Len(r) = Len(t) - Len(x) + 1
      BY <3>1, <1>6
    <3> DEFINE lx == Len(x)
               ly == Len(y)
               lr == Len(r)
               lt == Len(t)
    <3>3. /\ lx \in Nat /\ ly \in Nat /\ n = lx - 1 /\ k = ly - 1
          /\ lr = lt - lx + 1 /\ lt = k + 3 /\ lr = 3
      BY <3>2, <1>2, <1>3, <1>9, Zenon
    <3> HIDE DEF lx, ly, lr, lt, n, k
    <3>4. ly = lx /\ n = k
      BY <3>3
    <3> QED
      BY <3>4 DEF lx, ly
  <2>3. \A i \in 1..n : SubSeq(t, 1, n)[i] = t[i]
    <3>1. \A i \in 1..n : t[i] \in Segment
      BY <1>3, <1>4, <2>2, <1>8
    <3>2. \A i \in 1 .. n - 1 + 1 : SubSeq(t, 1, n)[i] = t[1 + i - 1]
      BY <3>1, <1>8, SubSeqProperties
    <3> HIDE DEF n
    <3>3. \A i \in 1..n : i \in 1 .. n - 1 + 1 /\ 1 + i - 1 = i
      BY <1>8
    <3> QED
      BY <3>2, <3>3
  <2>4. \A i \in 1..n : SubSeq(x, 1, n)[i] = x[i]
    <3>1. \A i \in 1..n : x[i] \in Segment
      BY <1>1, <1>5, ElementOfSeq
    <3>2. \A i \in 1 .. n - 1 + 1 : SubSeq(x, 1, n)[i] = x[1 + i - 1]
      BY <3>1, <1>8, SubSeqProperties
    <3> HIDE DEF n
    <3>3. \A i \in 1..n : i \in 1 .. n - 1 + 1 /\ 1 + i - 1 = i
      BY <1>8
    <3> QED
      BY <3>2, <3>3
  <2>5. \A i \in 1..n : y[i] = x[i]
    BY <2>1, <2>2, <2>3, <2>4, <1>3
  <2>6. y[Len(y)] = x[Len(x)]
    BY DEF Normal
  <2>7. \A i \in 1..Len(y) : y[i] = x[i]
    <3> HIDE DEF n
    <3> TAKE i \in 1..Len(y)
    <3>1. i \in 1..n \/ i = Len(y)
      BY <2>2, <1>8
    <3> QED
      BY <3>1, <2>2, <2>5, <2>6
  <2> QED
    BY <2>2, <2>7, <1>1, SeqEqual
<1>10. ASSUME y = x PROVE StartsWith(t, x) /\ Len(r) = 3 /\ \A i \in 1..3 : r[i] = g[i]
  <2>1. n = k /\ Len(t) = n + 3 /\ Len(x) <= Len(t)
    BY <1>2, <1>3, <1>10
  <2>2. Len(r) = 3
    BY <2>1, <1>6, <1>8
  <2>3. \A i \in 1..3 : r[i] = g[i]
    <3> TAKE i \in 1..3
    <3>1. i \in 1 .. Len(t) - Len(x) + 1 /\ Len(x) + i - 1 = k + i
      BY <2>1, <1>8
    <3> QED
      BY <3>1, <1>3, <1>6
  <2>4. SubSeq(t, 1, n) = SubSeq(x, 1, n)
    <3>1. \A i \in 1..n : t[i] \in Segment /\ x[i] \in Segment /\ t[i] = x[i]
      BY <1>1, <1>3, <1>5, <1>10, <2>1, ElementOfSeq
    <3>2. /\ SubSeq(t, 1, n) \in Seq(Segment) /\ SubSeq(x, 1, n) \in Seq(Segment)
          /\ Len(SubSeq(t, 1, n)) = Len(SubSeq(x, 1, n))
          /\ Len(SubSeq(t, 1, n)) = IF 1 <= n THEN n - 1 + 1 ELSE 0
      BY <3>1, <1>8, SubSeqProperties
    <3>3. \A i \in 1 .. n - 1 + 1 : SubSeq(t, 1, n)[i] = t[1 + i - 1]
                                    /\ SubSeq(x, 1, n)[i] = x[1 + i - 1]
      BY <3>1, <1>8, SubSeqProperties
    <3> HIDE DEF n
    <3>4. \A i \in 1 .. Len(SubSeq(t, 1, n)) :
            i \in 1 .. n - 1 + 1 /\ i \in 1..n /\ 1 + i - 1 = i
      BY <3>2, <1>8
    <3>5. \A i \in 1 .. Len(SubSeq(t, 1, n)) : SubSeq(t, 1, n)[i] = SubSeq(x, 1, n)[i]
      BY <3>1, <3>3, <3>4
    <3> QED
      BY <3>2, <3>5, SeqEqual
  <2>5. StartsWith(t, x)
    BY <2>1, <2>4 DEF StartsWith
  <2> QED
    BY <2>2, <2>3, <2>5
<1> QED
  BY <1>6, <1>7, <1>9, <1>10 DEF t, Topic

\* What the code's patterns find in the three kinds of topics.
LEMMA DiscoveryRoute ==
  ASSUME NEW x \in SharedPrefix, NEW y \in SharedPrefix, NEW e \in EntityId
  PROVE  /\ DiscoveryTopic(y, e) \in Topic
         /\ topics_to_subscribe(DiscoveryTopic(y, e), x) <=> y = x
         /\ parse_metadata_topic(DiscoveryTopic(x, e), x) = None
         /\ parse_federation_topic(DiscoveryTopic(x, e), x) # None
         /\ Remainder(DiscoveryTopic(x, e), x)[2] = e[2]
<1> DEFINE o == object_id_from_entity_id(e)
           g == <<"sensor", o, "config">>
<1>1. Normal(x) /\ Normal(y)
  BY PrefixesAreNormal
<1>2. "sensor" \in Segment /\ o \in Segment /\ "config" \in Segment
  BY Words
<1> HIDE DEF o
<1>3. g \in Topic /\ Len(g) = 3 /\ g[1] = "sensor" /\ g[2] = o /\ g[3] = "config"
  BY <1>2, Segments3
<1>4. DiscoveryTopic(y, e) = Under(y, g) /\ DiscoveryTopic(x, e) = Under(x, g)
  BY DEF DiscoveryTopic, o
<1> HIDE DEF g
<1>5. /\ StartsWith(Under(y, g), x) /\ Len(Remainder(Under(y, g), x)) = 3 => y = x
      /\ StartsWith(Under(x, g), x) /\ Len(Remainder(Under(x, g), x)) = 3
      /\ Remainder(Under(x, g), x)[1] = "sensor"
      /\ Remainder(Under(x, g), x)[2] = o
      /\ Remainder(Under(x, g), x)[3] = "config"
      /\ Remainder(Under(x, g), x) \in Topic
  BY <1>1, <1>3, Apart3
<1>6. Under(y, g) \in Topic
  BY <1>1, <1>3, UnderSegments
<1>7. topics_to_subscribe(Under(y, g), x) <=> y = x
  BY <1>5, Zenon DEF topics_to_subscribe
<1>8. "sensor" # "bridge"
  OBVIOUS
<1>9. parse_metadata_topic(Under(x, g), x) = None
  BY <1>5, <1>8, Zenon DEF parse_metadata_topic
<1>10. parse_federation_topic(Under(x, g), x) = <<"sensor", o>>
  <2> DEFINE r == Remainder(Under(x, g), x)
             n == Len(r)
  <2>1. n = 3
    BY <1>5, Zenon
  <2> HIDE DEF n
  <2>2. n >= 3
    BY <2>1
  <2>3. StartsWith(Under(x, g), x) /\ Len(r) >= 3 /\ r[1] = "sensor" /\ r[2] = o
    BY <2>2, <1>5, Zenon DEF n
  <2> QED
    BY <2>3, Zenon DEF parse_federation_topic
<1>11. <<"sensor", o>> # None
  BY <1>2, Sorts
<1> QED
  BY <1>4, <1>5, <1>6, <1>7, <1>9, <1>10, <1>11, ObjectIds, Zenon DEF o

LEMMA MetadataRoute ==
  ASSUME NEW x \in SharedPrefix, NEW y \in SharedPrefix, NEW b \in Bridge
  PROVE  /\ MetadataTopic(y, b) \in Topic
         /\ topics_to_subscribe(MetadataTopic(y, b), x) <=> y = x
         /\ parse_metadata_topic(MetadataTopic(x, b), x) = b
<1> DEFINE g == <<"bridge", b, "metadata">>
<1>1. Normal(x) /\ Normal(y)
  BY PrefixesAreNormal
<1>2. "bridge" \in Segment /\ b \in Segment /\ "metadata" \in Segment
  BY Words
<1>3. g \in Topic /\ Len(g) = 3 /\ g[1] = "bridge" /\ g[2] = b /\ g[3] = "metadata"
  BY <1>2, Segments3
<1>4. MetadataTopic(y, b) = Under(y, g) /\ MetadataTopic(x, b) = Under(x, g)
  BY DEF MetadataTopic
<1> HIDE DEF g
<1>5. /\ StartsWith(Under(y, g), x) /\ Len(Remainder(Under(y, g), x)) = 3 => y = x
      /\ StartsWith(Under(x, g), x) /\ Len(Remainder(Under(x, g), x)) = 3
      /\ Remainder(Under(x, g), x)[1] = "bridge"
      /\ Remainder(Under(x, g), x)[2] = b
      /\ Remainder(Under(x, g), x)[3] = "metadata"
  BY <1>1, <1>3, Apart3
<1>6. Under(y, g) \in Topic
  BY <1>1, <1>3, UnderSegments
<1>7. topics_to_subscribe(Under(y, g), x) <=> y = x
  BY <1>5, Zenon DEF topics_to_subscribe
<1>8. parse_metadata_topic(Under(x, g), x) = b
  BY <1>5, Zenon DEF parse_metadata_topic
<1> QED
  BY <1>4, <1>6, <1>7, <1>8, Zenon

LEMMA StateRoute ==
  ASSUME NEW e \in EntityId
  PROVE  /\ StateTopic(ValuePrefix, e) \in Topic
         /\ \A f \in EntityId : StateTopic(ValuePrefix, e) = StateTopic(ValuePrefix, f) => e[2] = f[2]
<1> DEFINE g(f) == <<"sensor", object_id_from_entity_id(f)>>
<1>1. Normal(ValuePrefix)
  BY PrefixesAreNormal
<1>2. "sensor" \in Segment
  BY Words
<1>3. ASSUME NEW f \in EntityId
      PROVE  g(f) \in Topic /\ Len(g(f)) = 2 /\ g(f)[2] = f[2]
  <2> DEFINE o == object_id_from_entity_id(f)
  <2>1. o \in Segment /\ o = f[2]
    BY Words, ObjectIds
  <2> HIDE DEF o
  <2>2. <<"sensor", o>> \in Topic /\ Len(<<"sensor", o>>) = 2 /\ <<"sensor", o>>[2] = o
    BY <1>2, <2>1, Segments2
  <2> QED
    BY <2>1, <2>2 DEF o
<1>4. \A f \in EntityId : StateTopic(ValuePrefix, f) = Under(ValuePrefix, g(f))
  BY DEF StateTopic
<1> HIDE DEF g
<1>5. ASSUME NEW f \in EntityId
      PROVE  /\ Under(ValuePrefix, g(f)) \in Topic
             /\ \A i \in 1 .. Len(g(f)) : Under(ValuePrefix, g(f))[Len(ValuePrefix) - 1 + i] = g(f)[i]
  <2>1. g(f) \in Topic
    BY <1>3
  <2> QED
    BY <1>1, <2>1, UnderSegments
<1>6. \A f \in EntityId : Under(ValuePrefix, g(f))[Len(ValuePrefix) - 1 + 2] = f[2]
  <2> TAKE f \in EntityId
  <2> DEFINE n == Len(g(f))
  <2>1. n = 2 /\ g(f)[2] = f[2]
    BY <1>3
  <2>2. \A i \in 1..n : Under(ValuePrefix, g(f))[Len(ValuePrefix) - 1 + i] = g(f)[i]
    BY <1>5
  <2> HIDE DEF n
  <2>3. 2 \in 1..n
    BY <2>1
  <2> QED
    BY <2>1, <2>2, <2>3, Zenon
<1> DEFINE m == Len(ValuePrefix) - 1 + 2
<1>7. ASSUME NEW f \in EntityId PROVE StateTopic(ValuePrefix, f) \in Topic /\ StateTopic(ValuePrefix, f)[m] = f[2]
  BY <1>4, <1>5, <1>6, Zenon
<1> HIDE DEF m
<1> QED
  BY <1>7

\* The three kinds of payloads differ, and none of them is None.
LEMMA Payloads ==
  /\ \A d \in Announcement :
       /\ d # None /\ "unique_id" \in DOMAIN d
       /\ d.unique_id \in Uid /\ d.device = d.unique_id[1]
       /\ d.state_topic = StateTopic(ValuePrefix, d.unique_id[3])
       /\ \E p \in Instance : Of(p, d.unique_id) /\ d.bridge_id \in Slugs(p) \cup {None}
       /\ d.device_class \in DeviceClass
  /\ \A d \in BridgeInfo \cup Reading : d # None /\ "unique_id" \notin DOMAIN d
<1>1. \A d \in Announcement : d \in [unique_id : Uid, state_topic : Topic, device_class : DeviceClass,
                                    bridge_id : Bridge \cup {None}, device : Bridge]
  BY DEF Announcement
<1>2. \A d \in Announcement :
       /\ "unique_id" \in DOMAIN d /\ d.unique_id \in Uid /\ d.device_class \in DeviceClass
  BY <1>1
<1>3. \A d \in Announcement :
       /\ d.device = d.unique_id[1]
       /\ d.state_topic = StateTopic(ValuePrefix, d.unique_id[3])
       /\ \E p \in Instance : Of(p, d.unique_id) /\ d.bridge_id \in Slugs(p) \cup {None}
  BY DEF Announcement
<1>4. \A d \in BridgeInfo : "unique_id" \notin DOMAIN d
  BY DEF BridgeInfo
<1>5. \A d \in Reading : "unique_id" \notin DOMAIN d
  BY DEF Reading
<1>6. \A d \in Announcement \cup BridgeInfo \cup Reading : d # None
  BY Sorts
<1> QED
  BY <1>2, <1>3, <1>4, <1>5, <1>6, Zenon

LEMMA UidParts ==
  ASSUME NEW u \in Uid
  PROVE  u[1] \in Bridge /\ u[2] \in {"::", "."} /\ u[3] \in EntityId
  BY DEF Uid

\* A message with a unique id announces the entity of its topic; one without a
\* payload erases; the others are metadata and readings.
LEMMA Messages ==
  ASSUME NEW m \in Msg
  PROVE  /\ m = Message(m.topic, m.payload)
         /\ m.payload \in Announcement \cup BridgeInfo \cup Reading \cup {None}
         /\ AboutEntity(m) \/ AboutBridge(m) \/ AboutState(m)
         /\ m.payload # None /\ "unique_id" \in DOMAIN m.payload =>
              /\ m.payload \in Announcement
              /\ \E x \in SharedPrefix : m.topic = DiscoveryTopic(x, m.payload.unique_id[3])
<1>1. /\ m \in [topic : Topic, payload : Announcement \cup BridgeInfo \cup Reading \cup {None}]
      /\ AboutEntity(m) \/ AboutBridge(m) \/ AboutState(m)
  BY DEF Msg
<1>2. m = Message(m.topic, m.payload) /\ m.payload \in Announcement \cup BridgeInfo \cup Reading \cup {None}
  BY <1>1 DEF Message
<1>3. ASSUME m.payload # None, "unique_id" \in DOMAIN m.payload
      PROVE  /\ m.payload \in Announcement
             /\ \E x \in SharedPrefix : m.topic = DiscoveryTopic(x, m.payload.unique_id[3])
  <2>1. m.payload \in Announcement
    BY <1>2, <1>3, Payloads
  <2>2. m.payload \notin BridgeInfo /\ m.payload \notin Reading
    BY <1>3, Payloads
  <2>3. AboutEntity(m)
    BY <1>1, <1>3, <2>2, Zenon DEF AboutBridge, AboutState
  <2> QED
    BY <1>3, <2>1, <2>3, Zenon DEF AboutEntity
<1> QED
  BY <1>1, <1>2, <1>3, Zenon

\* What a flow accepts is an entry with a slug of its own instance, a
\* normalised prefix and entities of that instance.
LEMMA Entries ==
  ASSUME NEW p \in Instance, NEW e \in Acceptable(p)
  PROVE  /\ e # None
         /\ slugify_bridge_name(e.name) \in Slugs(p)
         /\ e.prefix \in SharedPrefix
         /\ e.entities \subseteq Entity[p] /\ e.entities # {}
         /\ e.entities \subseteq EntityId /\ IsFiniteSet(e.entities)
<1>1. e # None
  BY Sorts
<1> DEFINE S == (SUBSET Entity[p]) \ {{}}
<1>2. PICK n \in Named(p), x \in Prefixes, E \in S : e = Entry(n, x, E)
  BY DEF Acceptable
<1>3. e.name = n /\ e.prefix = normalize_prefix(x) /\ e.entities = E
  BY <1>2 DEF Entry
<1>4. slugify_bridge_name(n) \in Slugs(p)
  BY DEF Slugs
<1>5. Entity[p] \subseteq EntityId /\ IsFiniteSet(Entity[p])
  BY Given
<1>6. IsFiniteSet(E)
  BY <1>5, FS_Subset
<1> QED
  BY <1>1, <1>3, <1>4, <1>5, <1>6, PrefixesAreNormal

LEMMA BridgeOfInstance ==
  ASSUME NEW p \in Instance, NEW s \in Slugs(p)
  PROVE  s \in Bridge
BY DEF Bridge

LEMMA Values ==
  ASSUME NEW e \in EntityId, NEW v \in ValuesOf[e] \cup {""}
  PROVE  v \in Value /\ [state |-> v] \in Reading /\ [state |-> v].state = v
<1>1. v \in Value
  <2>1. CASE v = ""
    BY <2>1, Zenon DEF Value
  <2>2. CASE v \in ValuesOf[e]
    BY <2>2, Zenon DEF Value
  <2> QED
    BY <2>1, <2>2
<1> QED
  BY <1>1 DEF Reading

\* A reading of an entity.
LEMMA StateMessage ==
  ASSUME NEW e \in EntityId, NEW v \in ValuesOf[e] \cup {""}
  PROVE  Message(StateTopic(ValuePrefix, e), [state |-> v]) \in Msg
<1> DEFINE m == Message(StateTopic(ValuePrefix, e), [state |-> v])
<1>1. m.topic = StateTopic(ValuePrefix, e) /\ m.payload = [state |-> v]
  BY DEF Message
<1>3. [state |-> v] \in Reading /\ [state |-> v].state = v
  BY Values
<1>4. StateTopic(ValuePrefix, e) \in Topic
  BY StateRoute
<1>5. m \in [topic : Topic, payload : Announcement \cup BridgeInfo \cup Reading \cup {None}]
  BY <1>3, <1>4 DEF Message
<1> HIDE DEF m
<1>6. AboutState(m)
  BY <1>1, <1>3 DEF AboutState
<1> QED
  BY <1>5, <1>6 DEF Msg, m

LEMMA ClearingMessages ==
  ASSUME NEW E \in SUBSET EntityId, IsFiniteSet(E)
  PROVE  /\ Clearing(E) \subseteq Msg /\ IsFiniteSet(Clearing(E))
         /\ \A m \in Clearing(E) : m.payload \in Reading
<1>1. ASSUME NEW e \in E
      PROVE  LET m == Message(StateTopic(ValuePrefix, e), [state |-> ""])
             IN  m \in Msg /\ m.payload \in Reading
  <2>1. Message(StateTopic(ValuePrefix, e), [state |-> ""]) \in Msg
    BY StateMessage
  <2>2. Message(StateTopic(ValuePrefix, e), [state |-> ""]).payload = [state |-> ""]
    BY DEF Message
  <2>3. [state |-> ""] \in Reading
    BY Values
  <2> QED
    BY <2>1, <2>2, <2>3
<1>2. IsFiniteSet(Clearing(E))
  <2> DEFINE f == [e \in E |-> Message(StateTopic(ValuePrefix, e), [state |-> ""])]
  <2>1. f \in Surjection(E, Clearing(E))
    BY DEF Surjection, Clearing
  <2> QED
    BY <2>1, FS_Surjection
<1> QED
  BY <1>1, <1>2, Zenon DEF Clearing

\* An erasing message on the discovery topic of an entity.
LEMMA WithdrawalMessage ==
  ASSUME NEW x \in SharedPrefix, NEW e \in EntityId
  PROVE  Message(DiscoveryTopic(x, e), None) \in Msg
<1> DEFINE m == Message(DiscoveryTopic(x, e), None)
<1>1. m.topic = DiscoveryTopic(x, e) /\ m.payload = None
  BY DEF Message
<1>2. DiscoveryTopic(x, e) \in Topic
  BY DiscoveryRoute
<1>3. m \in [topic : Topic, payload : Announcement \cup BridgeInfo \cup Reading \cup {None}]
  BY <1>2 DEF Message
<1> HIDE DEF m
<1>4. AboutEntity(m)
  BY <1>1 DEF AboutEntity
<1> QED
  BY <1>3, <1>4 DEF Msg, m

LEMMA WithdrawalMessages ==
  ASSUME NEW x \in SharedPrefix, NEW E \in SUBSET EntityId, IsFiniteSet(E)
  PROVE  /\ Withdrawal(x, E) \subseteq Msg /\ IsFiniteSet(Withdrawal(x, E))
         /\ \A m \in Withdrawal(x, E) : m.payload = None
<1>1. ASSUME NEW e \in E
      PROVE  LET m == Message(DiscoveryTopic(x, e), None) IN m \in Msg /\ m.payload = None
  BY WithdrawalMessage DEF Message
<1>2. IsFiniteSet(Withdrawal(x, E))
  <2> DEFINE f == [e \in E |-> Message(DiscoveryTopic(x, e), None)]
  <2>1. f \in Surjection(E, Withdrawal(x, E))
    BY DEF Surjection, Withdrawal
  <2> QED
    BY <2>1, FS_Surjection
<1> QED
  BY <1>1, <1>2, Zenon DEF Withdrawal

\* Bridge metadata, or what erases it.
LEMMA MetadataMessage ==
  ASSUME NEW x \in SharedPrefix, NEW b \in Bridge, NEW d \in BridgeInfo \cup {None}
  PROVE  Message(MetadataTopic(x, b), d) \in Msg
<1> DEFINE m == Message(MetadataTopic(x, b), d)
<1>1. m.topic = MetadataTopic(x, b) /\ m.payload = d
  BY DEF Message
<1>2. MetadataTopic(x, b) \in Topic
  BY MetadataRoute
<1>3. m \in [topic : Topic, payload : Announcement \cup BridgeInfo \cup Reading \cup {None}]
  BY <1>2 DEF Message
<1> HIDE DEF m
<1>4. AboutBridge(m)
  BY <1>1 DEF AboutBridge
<1> QED
  BY <1>3, <1>4 DEF Msg, m

\* The class put on the wire is one Home Assistant knows, one of the table's,
\* or none; and without a hit in the table it is the entity's own.
LEMMA ResolvedClass ==
  ASSUME NEW o, NEW c \in SensorDeviceClass \cup {None}
  PROVE  resolve_device_class(o, c) \in DeviceClass
<1> DEFINE P == DEVICE_CLASS_PATTERNS
           hits == {i \in DOMAIN P : P[i][1] \in WordsOf[o]}
           first == CHOOSE i \in hits : \A j \in hits : i <= j
<1>1. DOMAIN P = 1..8
  BY DEF DEVICE_CLASS_PATTERNS
<1>2. resolve_device_class(o, c) = IF c # None \/ hits = {} THEN c ELSE P[first][2]
  BY DEF resolve_device_class
<1>3. \A i \in DOMAIN P : P[i][2] \in DeviceClass
  BY Zenon DEF DeviceClass
<1>4. hits \subseteq 1..8 /\ hits \subseteq DOMAIN P
  BY <1>1
<1> HIDE DEF hits, P
<1>5. hits # {} => \E i \in hits : \A j \in hits : i <= j
  <2> SUFFICES ASSUME hits # {}, \A i \in hits : \E j \in hits : ~(i <= j) PROVE FALSE
    OBVIOUS
  <2>1. 1 \notin hits
    BY <1>4
  <2>2. 2 \notin hits
    BY <1>4, <2>1
  <2>3. 3 \notin hits
    BY <1>4, <2>1, <2>2
  <2>4. 4 \notin hits
    BY <1>4, <2>1, <2>2, <2>3
  <2>5. 5 \notin hits
    BY <1>4, <2>1, <2>2, <2>3, <2>4
  <2>6. 6 \notin hits
    BY <1>4, <2>1, <2>2, <2>3, <2>4, <2>5
  <2>7. 7 \notin hits
    BY <1>4, <2>1, <2>2, <2>3, <2>4, <2>5, <2>6
  <2>8. 8 \notin hits
    BY <1>4, <2>1, <2>2, <2>3, <2>4, <2>5, <2>6, <2>7
  <2>9. PICK h \in hits : h \in 1..8
    BY <1>4
  <2>10. h = 1 \/ h = 2 \/ h = 3 \/ h = 4 \/ h = 5 \/ h = 6 \/ h = 7 \/ h = 8
    BY <2>9
  <2> QED
    BY <2>1, <2>2, <2>3, <2>4, <2>5, <2>6, <2>7, <2>8, <2>9, <2>10
<1>6. hits # {} => first \in hits
  BY <1>5
<1> HIDE DEF first
<1>7. hits # {} => P[first][2] \in DeviceClass
  BY <1>3, <1>4, <1>6
<1>8. c \in DeviceClass
  BY DEF DeviceClass
<1> QED
  BY <1>2, <1>7, <1>8

\* What publish_own_entity announces is a well-formed announcement.
LEMMA AnnouncementMessage ==
  ASSUME NEW p \in Instance, NEW e \in Entity[p], entry[p] \in Acceptable(p)
  PROVE  LET d == build_discovery_payload(e, ClassOf[e], Slug(p), ValuePrefix)
             m == Message(DiscoveryTopic(entry[p].prefix, e), d)
         IN  /\ m \in Msg /\ d \in Announcement /\ d.unique_id = <<Slug(p), "::", e>>
             /\ d.device_class = resolve_device_class(object_id_from_entity_id(e),
                                                      ForwardedClass(e, ClassOf[e]))
<1> DEFINE c == resolve_device_class(object_id_from_entity_id(e), ForwardedClass(e, ClassOf[e]))
           s == Slug(p)
           st == StateTopic(ValuePrefix, e)
           u == <<s, "::", e>>
           d == [unique_id |-> u, state_topic |-> st, device_class |-> c,
                 bridge_id |-> s, device |-> s]
           x == entry[p].prefix
           m == Message(DiscoveryTopic(x, e), d)
<1>1. build_discovery_payload(e, ClassOf[e], Slug(p), ValuePrefix) = d
  BY DEF build_discovery_payload
<1>2. e \in EntityId
  BY Given
<1>3. s \in Slugs(p) /\ s \in Bridge /\ x \in SharedPrefix
  BY Entries, BridgeOfInstance DEF Slug
<1>4. c \in DeviceClass
  <2>1. ForwardedClass(e, ClassOf[e]) \in SensorDeviceClass \cup {None}
    BY DEF ForwardedClass
  <2> QED
    BY <2>1, ResolvedClass
<1>5. st \in Topic
  BY <1>2, StateRoute
<1> HIDE DEF c, s, st, x
<1>6. u \in Bridge \X {"::", "."} \X EntityId /\ u[1] = s /\ u[3] = e
  BY <1>2, <1>3
<1>7. u \in Uid
  BY <1>6 DEF Uid
<1> HIDE DEF u
<1>8. /\ d \in [unique_id : Uid, state_topic : Topic, device_class : DeviceClass,
                bridge_id : Bridge \cup {None}, device : Bridge]
      /\ d.unique_id = u /\ d.state_topic = st /\ d.bridge_id = s /\ d.device = s /\ d.device_class = c
  BY <1>3, <1>4, <1>5, <1>7
<1> HIDE DEF d
<1>9. d \in Announcement
  BY <1>2, <1>3, <1>6, <1>8 DEF Announcement, st, Of
<1>10. m.topic = DiscoveryTopic(x, e) /\ m.payload = d
  BY DEF Message
<1>11. DiscoveryTopic(x, e) \in Topic
  BY <1>2, <1>3, DiscoveryRoute
<1>12. m \in [topic : Topic, payload : Announcement \cup BridgeInfo \cup Reading \cup {None}]
  BY <1>9, <1>11 DEF Message
<1> HIDE DEF m
<1>13. AboutEntity(m)
  BY <1>2, <1>3, <1>6, <1>8, <1>9, <1>10 DEF AboutEntity
<1>14. m \in Msg
  BY <1>12, <1>13 DEF Msg
<1> QED
  BY <1>1, <1>8, <1>9, <1>14, Zenon DEF m, x, c, u, s

(***************************************************************************)
(* Type correctness                                                        *)
(***************************************************************************)
Shape ==
  /\ DOMAIN entry = Instance /\ DOMAIN sending = Instance /\ DOMAIN inbox = Instance
  /\ DOMAIN known = Instance /\ DOMAIN topicUid = Instance /\ DOMAIN diag = Instance
  /\ DOMAIN registry = Instance /\ DOMAIN buried = Instance
  /\ up \subseteq Instance

StoreTyped ==
  /\ retained \subseteq Msg /\ IsFiniteSet(retained)
  /\ \A r \in retained : r.payload # None /\ r.payload \notin Reading
  /\ \A r, s \in retained : r.topic = s.topic => r = s

KnownTyped(q) ==
  \A u \in DOMAIN known[q] :
    /\ u \in Uid
    /\ DOMAIN known[q][u] = {"device_class", "state_topic", "device", "value"}
    /\ known[q][u].device = u[1]
    /\ known[q][u].state_topic = StateTopic(ValuePrefix, u[3])

InstanceTyped(q) ==
  /\ entry[q] \in Acceptable(q) \cup {None}
  /\ inbox[q] \in Seq(Msg)
  /\ registry[q] \subseteq Uid /\ IsFiniteSet(registry[q])
  /\ KnownTyped(q)
  /\ diag[q] \subseteq BridgesOf(DOMAIN known[q], q)
  /\ entry[q] # None => sending[q] \subseteq entry[q].entities
  /\ q \in up => entry[q] # None
  /\ q \notin up => /\ inbox[q] = <<>> /\ known[q] = Nothing /\ topicUid[q] = Nothing
                    /\ diag[q] = {} /\ sending[q] = {}

Typed == Shape /\ StoreTyped /\ \A q \in Instance : InstanceTyped(q)

\* What a publish of a bridged entity announces.
Produced(d) ==
  \E p \in Instance : \E s \in Slugs(p), e \in Entity[p] :
    d = build_discovery_payload(e, ClassOf[e], s, ValuePrefix)

\* What one step may publish: messages the broker retains, at most one on a
\* topic, and readings.
Shared(S, C) ==
  /\ S \subseteq Msg /\ IsFiniteSet(S) /\ C \subseteq Msg /\ IsFiniteSet(C)
  /\ \A m \in S : m.payload \notin Reading /\ (Announces(m) => Produced(m.payload))
  /\ \A m \in C : m.payload \in Reading
  /\ \A m, n \in S : m.topic = n.topic => m = n

LEMMA NothingShared == Shared({}, {})
BY FS_EmptySet DEF Shared

LEMMA NoneIsNoReading == None \notin Reading
BY Sorts

\* The retained store stays what it is.
LEMMA Stored ==
  ASSUME StoreTyped, NEW S, NEW C, Shared(S, C)
  PROVE  /\ Store(S) \subseteq Msg /\ IsFiniteSet(Store(S))
         /\ \A r \in Store(S) : r.payload # None /\ r.payload \notin Reading
         /\ \A r, s \in Store(S) : r.topic = s.topic => r = s
<1> DEFINE A == {r \in retained : \A m \in S : m.topic # r.topic}
           B == {m \in S : m.payload # None}
<1>1. Store(S) = A \cup B
  BY DEF Store
<1>2. A \subseteq retained /\ B \subseteq S /\ \A m \in B : m.payload # None
  OBVIOUS
<1>3. \A r \in A, m \in S : m.topic # r.topic
  OBVIOUS
<1> HIDE DEF A, B
<1>4. IsFiniteSet(A) /\ IsFiniteSet(B)
  BY <1>2, FS_Subset DEF StoreTyped, Shared
<1>5. IsFiniteSet(A \cup B)
  BY <1>4, FS_Union
<1>6. A \cup B \subseteq Msg
  BY <1>2 DEF StoreTyped, Shared
<1>7. \A r \in A \cup B : r.payload # None /\ r.payload \notin Reading
  BY <1>2 DEF StoreTyped, Shared
<1>8. \A r, s \in A \cup B : r.topic = s.topic => r = s
  BY <1>2, <1>3 DEF StoreTyped, Shared
<1> QED
  BY <1>1, <1>5, <1>6, <1>7, <1>8

\* Nothing published, nothing stored.
LEMMA StoredNothing == Store({}) = retained
BY DEF Store

\* A subscription brings what is retained on its topics, and only that.
LEMMA RedeliveredMessages ==
  ASSUME NEW R, IsFiniteSet(R), NEW x
  PROVE  LET w == Redelivered(x, R) IN
         /\ w \in Seq(R)
         /\ \A i \in 1..Len(w) : w[i] \in R /\ topics_to_subscribe(w[i].topic, x)
         /\ \A r \in R : topics_to_subscribe(r.topic, x) => \E i \in 1..Len(w) : w[i] = r
<1> DEFINE S == {r \in R : topics_to_subscribe(r.topic, x)}
           w == AnyOrder(S)
<1>1. S \subseteq R /\ \A r \in S : topics_to_subscribe(r.topic, x)
  OBVIOUS
<1>2. \A r \in R : topics_to_subscribe(r.topic, x) => r \in S
  OBVIOUS
<1>3. Redelivered(x, R) = w
  BY DEF Redelivered
<1> HIDE DEF S
<1>4. IsFiniteSet(S)
  BY <1>1, FS_Subset
<1>5. w \in Seq(S) /\ \A m \in S : \E i \in 1..Len(w) : w[i] = m
  BY <1>4, OrderOfSet
<1> HIDE DEF w
<1>6. w \in Seq(R)
  BY <1>1, <1>5, SeqMonotonic
<1>7. \A i \in 1..Len(w) : w[i] \in S
  BY <1>5, ElementOfSeq
<1> QED
  BY <1>1, <1>2, <1>3, <1>5, <1>6, <1>7

(***************************************************************************)
(* The actions as an instance sees them                                    *)
(***************************************************************************)
\* What depublish_bridge clears, and the topics of what p shows of bridge b.
Obsolete(p, b) == {u \in registry[p] : u[1] = b}
TopicIn(x, u) == DiscoveryTopic(x, u[3])
Erasers(p, b) ==
  {Message(TopicIn(entry[p].prefix, u), None) : u \in Obsolete(p, b)}
    \cup {Message(MetadataTopic(entry[p].prefix, b), None)}
Live(p, b) == {TopicIn(entry[p].prefix, u) : u \in Obsolete(p, b) \cap DOMAIN known[p]}
LastSeen(p, T) == {topicUid[p][t] : t \in T \cap DOMAIN topicUid[p]}

\* The topics are rebuilt from both conventions, so nothing of the bridge is
\* left out.
LEMMA DepublishEffect ==
  ASSUME NEW p \in Instance, InstanceTyped(p), NEW b, Depublish(p, b)
  PROVE  LET gone == LastSeen(p, Live(p, b)) IN
         /\ p \in up /\ entry[p] \in Acceptable(p) /\ Obsolete(p, b) # {}
         /\ retained' = Store(Erasers(p, b))
         /\ inbox' = Forward(Erasers(p, b), {})
         /\ topicUid' = [topicUid EXCEPT ![p] = Drop(@, Live(p, b))]
         /\ known' = [known EXCEPT ![p] = Drop(@, gone)]
         /\ diag' = [diag EXCEPT ![p] = (@ \cap BridgesOf(DOMAIN known[p] \ gone, p)) \ {b}]
         /\ registry' = [registry EXCEPT ![p] = @ \ (Obsolete(p, b) \cup gone)]
         /\ buried' = [buried EXCEPT ![p] =
                         @ \cup {<<entry[p].prefix, u>> : u \in Obsolete(p, b)}]
         /\ UNCHANGED <<entry, up, sending, missed>>
<1> DEFINE device == {u \in registry[p] : u[1] = b}
           x == entry[p].prefix
           ours == {u \in device : entity_id_from_unique_id(u, b) # None}
           topic(u) == DiscoveryTopic(x, entity_id_from_unique_id(u, b))
           live == {topic(u) : u \in ours \cap DOMAIN known[p]}
           cleared == {Message(topic(u), None) : u \in ours}
                        \cup {Message(MetadataTopic(x, b), None)}
           gone == {topicUid[p][t] : t \in live \cap DOMAIN topicUid[p]}
<1>1. ASSUME NEW u \in device PROVE entity_id_from_unique_id(u, b) = u[3] /\ u[3] # None
  <2>1. u \in Uid /\ u[1] = b
    BY DEF InstanceTyped
  <2>2. u[2] \in {"::", "."} /\ u[3] \in EntityId
    BY <2>1, UidParts
  <2> QED
    BY <2>1, <2>2, Sorts, Zenon DEF entity_id_from_unique_id
<1>2. device = Obsolete(p, b) /\ ours \subseteq device
  BY DEF Obsolete
<1>3. ours = device
  BY <1>1
<1>4. \A u \in device : topic(u) = TopicIn(x, u)
  BY <1>1 DEF TopicIn
<1> HIDE DEF device, ours, topic
<1>5. live = Live(p, b)
  BY <1>2, <1>3, <1>4 DEF Live
<1>6. cleared = Erasers(p, b)
  BY <1>2, <1>3, <1>4 DEF Erasers
<1>7. gone = LastSeen(p, Live(p, b))
  BY <1>5 DEF LastSeen
<1> HIDE DEF live, cleared, gone
<1>8. /\ p \in up /\ device # {}
      /\ retained' = Store(cleared)
      /\ inbox' = Forward(cleared, {})
      /\ topicUid' = [topicUid EXCEPT ![p] = Drop(@, live)]
      /\ known' = [known EXCEPT ![p] = Drop(@, gone)]
      /\ diag' = [diag EXCEPT ![p] = (@ \cap BridgesOf(DOMAIN known[p] \ gone, p)) \ {b}]
      /\ registry' = [registry EXCEPT ![p] = @ \ (device \cup gone)]
      /\ buried' = [buried EXCEPT ![p] = @ \cup {<<x, u>> : u \in device}]
      /\ UNCHANGED <<entry, up, sending, missed>>
  BY Zenon DEF Depublish, device, ours, topic, live, cleared, gone
<1>9. entry[p] \in Acceptable(p)
  BY <1>8 DEF InstanceTyped
<1> QED
  BY <1>2, <1>5, <1>6, <1>7, <1>8, <1>9, Zenon

LEMMA ErasersShared ==
  ASSUME NEW p \in Instance, InstanceTyped(p), entry[p] \in Acceptable(p),
         NEW b, Obsolete(p, b) # {}
  PROVE  Shared(Erasers(p, b), {}) /\ \A m \in Erasers(p, b) : m.payload = None
<1> DEFINE x == entry[p].prefix
           f == [u \in Obsolete(p, b) |-> Message(TopicIn(x, u), None)]
           A == {Message(TopicIn(x, u), None) : u \in Obsolete(p, b)}
           m0 == Message(MetadataTopic(x, b), None)
<1>1. x \in SharedPrefix
  BY Entries
<1>2. Obsolete(p, b) \subseteq registry[p] /\ \A u \in Obsolete(p, b) : u \in Uid /\ u[1] = b
  BY DEF Obsolete, InstanceTyped
<1>3. b \in Bridge
  BY <1>2, UidParts
<1>4. IsFiniteSet(Obsolete(p, b))
  BY <1>2, FS_Subset DEF InstanceTyped
<1>5. f \in Surjection(Obsolete(p, b), A)
  BY DEF Surjection
<1>6. IsFiniteSet(A)
  BY <1>4, <1>5, FS_Surjection
<1>7. ASSUME NEW u \in Obsolete(p, b)
      PROVE  Message(TopicIn(x, u), None) \in Msg /\ Message(TopicIn(x, u), None).payload = None
  <2>1. u[3] \in EntityId
    BY <1>2, UidParts
  <2>2. Message(DiscoveryTopic(x, u[3]), None) \in Msg
    BY <1>1, <2>1, WithdrawalMessage
  <2> QED
    BY <2>2 DEF TopicIn, Message
<1>8. m0 \in Msg /\ m0.payload = None
  BY <1>1, <1>3, MetadataMessage DEF Message
<1>9. Erasers(p, b) = A \cup {m0}
  BY DEF Erasers
<1>10. \A m \in A : m \in Msg /\ m.payload = None
  BY <1>7
<1> HIDE DEF A, m0, x
<1>11. IsFiniteSet(A \cup {m0})
  BY <1>6, FS_Singleton, FS_Union
<1>12. \A m \in A \cup {m0} : m \in Msg /\ m.payload = None
  BY <1>8, <1>10
<1>13. \A m, n \in A \cup {m0} : m.topic = n.topic => m = n
  <2>1. \A m \in A \cup {m0} : m = Message(m.topic, None)
    BY <1>12, Messages
  <2> QED
    BY <2>1, Zenon
<1> QED
  BY <1>9, <1>11, <1>12, <1>13, NoneIsNoReading, FS_EmptySet DEF Shared, Announces

\* What an instance has is left alone by a step, but for its inbox.
Stays(q) ==
  /\ entry'[q] = entry[q] /\ (q \in up' <=> q \in up) /\ (q \in missed' <=> q \in missed)
  /\ known'[q] = known[q] /\ topicUid'[q] = topicUid[q] /\ diag'[q] = diag[q]
  /\ registry'[q] = registry[q]
  /\ entry[q] # None /\ sending[q] \subseteq entry[q].entities
       => sending'[q] \subseteq entry[q].entities
  /\ q \notin up /\ sending[q] = {} => sending'[q] = {}

\* It hears what is published.
Spread(q, S, C) ==
  /\ q \notin up => inbox'[q] = inbox[q]
  /\ q \in up => Extended(inbox'[q], inbox[q], Heard(q, S \cup C))

\* It starts from what is retained, or stops.
Renewed(q) ==
  /\ entry'[q] \in Acceptable(q) \cup {None}
  /\ known'[q] = Nothing /\ topicUid'[q] = Nothing /\ diag'[q] = {} /\ sending'[q] = {}
  /\ registry'[q] \in {registry[q], {}}
  /\ q \in up' => entry'[q] # None /\ inbox'[q] = Redelivered(entry'[q].prefix, retained')
  /\ q \notin up' => inbox'[q] = <<>>

\* A step as instance q sees it.
Step(q) ==
  \E S, C \in SUBSET Msg :
    /\ Shared(S, C) /\ retained' = Store(S)
    /\ \/ Stays(q) /\ Spread(q, S, C)
       \/ Renewed(q) \/ Reconnect(q) \/ Receive(q)
       \/ \E u \in registry[q] : Depublish(q, u[1])

LEMMA ForwardSpreads ==
  ASSUME NEW q \in Instance, inbox[q] \in Seq(Msg), NEW S, NEW C, Shared(S, C),
         inbox'[q] = Forward(S, C)[q] \/ inbox'[q] = Forward(C, S)[q]
  PROVE  Spread(q, S, C)
<1>1. S \subseteq Msg /\ C \subseteq Msg /\ IsFiniteSet(S) /\ IsFiniteSet(C)
  BY DEF Shared
<1>2. C \cup S = S \cup C
  OBVIOUS
<1>3. CASE inbox'[q] = Forward(S, C)[q]
  BY <1>1, <1>3, ForwardExtends, Zenon DEF Spread
<1>4. CASE inbox'[q] = Forward(C, S)[q]
  <2>1. /\ q \notin up => Forward(C, S)[q] = inbox[q]
        /\ q \in up => Extended(Forward(C, S)[q], inbox[q], Heard(q, C \cup S))
    BY <1>1, ForwardExtends, Zenon
  <2> QED
    BY <1>2, <1>4, <2>1, Zenon DEF Spread
<1> QED
  BY <1>3, <1>4

LEMMA QuietSpreads ==
  ASSUME NEW q \in Instance, inbox[q] \in Seq(Msg), inbox'[q] = inbox[q]
  PROVE  Spread(q, {}, {})
<1>1. Heard(q, {} \cup {}) = {}
  BY DEF Heard
<1>2. Len(inbox[q]) \in Nat
  BY LenProperties
<1>3. Extended(inbox[q], inbox[q], {})
  BY <1>2 DEF Extended
<1> QED
  BY <1>1, <1>3 DEF Spread

\* A step that publishes nothing and leaves q alone.
LEMMA QuietStep ==
  ASSUME NEW q \in Instance, inbox[q] \in Seq(Msg), inbox'[q] = inbox[q],
         retained' = retained,
         \/ Stays(q) \/ Renewed(q) \/ Reconnect(q) \/ Receive(q)
  PROVE  Step(q)
<1>1. Shared({}, {}) /\ retained' = Store({}) /\ Spread(q, {}, {})
  BY NothingShared, StoredNothing, QuietSpreads
<1>2. {} \in SUBSET Msg
  OBVIOUS
<1> QED
  BY <1>1, <1>2, Zenon DEF Step

\* A step by p that only changes p's inbox and p's own things.
LEMMA OwnStep ==
  ASSUME NEW q \in Instance, retained' = retained,
         Renewed(q) \/ Reconnect(q) \/ Receive(q)
  PROVE  Step(q)
<1>1. Shared({}, {}) /\ retained' = Store({})
  BY NothingShared, StoredNothing
<1>2. {} \in SUBSET Msg
  OBVIOUS
<1> QED
  BY <1>1, <1>2, Zenon DEF Step

\* A step that publishes, and leaves q alone otherwise.
LEMMA PublishingStep ==
  ASSUME NEW q \in Instance, inbox[q] \in Seq(Msg), NEW S, NEW C, Shared(S, C),
         retained' = Store(S),
         \/ Stays(q) /\ (inbox'[q] = Forward(S, C)[q] \/ inbox'[q] = Forward(C, S)[q])
         \/ Renewed(q)
         \/ \E u \in registry[q] : Depublish(q, u[1])
  PROVE  Step(q)
<1>1. S \in SUBSET Msg /\ C \in SUBSET Msg
  BY DEF Shared
<1>2. CASE Stays(q) /\ (inbox'[q] = Forward(S, C)[q] \/ inbox'[q] = Forward(C, S)[q])
  <2>1. Spread(q, S, C)
    BY <1>2, ForwardSpreads
  <2> QED
    BY <1>1, <1>2, <2>1, Zenon DEF Step
<1>3. CASE Renewed(q) \/ \E u \in registry[q] : Depublish(q, u[1])
  BY <1>1, <1>3, Zenon DEF Step
<1> QED
  BY <1>2, <1>3

\* Another instance's reload or stop.
LEMMA OtherForgets ==
  ASSUME Shape, NEW p \in Instance, Forget(p), NEW q \in Instance, q # p,
         entry'[q] = entry[q], q \in up' <=> q \in up, registry'[q] = registry[q]
  PROVE  Stays(q)
<1>1. /\ known'[q] = known[q] /\ topicUid'[q] = topicUid[q] /\ diag'[q] = diag[q]
      /\ sending'[q] = sending[q] /\ (q \in missed' <=> q \in missed)
  BY DEF Forget, Shape
<1> QED
  BY <1>1 DEF Stays

LEMMA SelfForgets ==
  ASSUME Shape, NEW p \in Instance, Forget(p)
  PROVE  known'[p] = Nothing /\ topicUid'[p] = Nothing /\ diag'[p] = {} /\ sending'[p] = {}
BY DEF Forget, Shape

LEMMA OneShared ==
  ASSUME NEW m \in Msg, m.payload \notin Reading, Announces(m) => Produced(m.payload)
  PROVE  Shared({m}, {})
BY FS_EmptySet, FS_Singleton DEF Shared

LEMMA WithdrawnShared ==
  ASSUME NEW x \in SharedPrefix, NEW D \in SUBSET EntityId, IsFiniteSet(D),
         NEW E \in SUBSET EntityId, IsFiniteSet(E)
  PROVE  Shared(Withdrawal(x, D), Clearing(E)) /\ Shared({}, Clearing(E))
<1>1. /\ Withdrawal(x, D) \subseteq Msg /\ IsFiniteSet(Withdrawal(x, D))
      /\ \A m \in Withdrawal(x, D) : m.payload = None
  BY WithdrawalMessages
<1>2. \A m \in Withdrawal(x, D) : m = Message(m.topic, None)
  BY <1>1, Messages
<1>3. \A m, n \in Withdrawal(x, D) : m.topic = n.topic => m = n
  BY <1>2, Zenon
<1>4. /\ Clearing(E) \subseteq Msg /\ IsFiniteSet(Clearing(E))
      /\ \A m \in Clearing(E) : m.payload \in Reading
  BY ClearingMessages
<1> QED
  BY <1>1, <1>3, <1>4, NoneIsNoReading, FS_EmptySet DEF Shared, Announces

LEMMA ForwardDomain == \A S, C : DOMAIN Forward(S, C) = Instance
BY DEF Forward

\* An instance under its entry, and what the entry allows.
LEMMA EntryOf ==
  ASSUME NEW p \in Instance, InstanceTyped(p), entry[p] # None
  PROVE  /\ entry[p] \in Acceptable(p) /\ entry[p].prefix \in SharedPrefix
         /\ entry[p].entities \subseteq EntityId /\ IsFiniteSet(entry[p].entities)
         /\ entry[p].entities \subseteq Entity[p]
         /\ Slug(p) \in Slugs(p) /\ Slug(p) \in Bridge
<1>1. entry[p] \in Acceptable(p)
  BY DEF InstanceTyped
<1>2. slugify_bridge_name(entry[p].name) \in Slugs(p)
  BY <1>1, Entries
<1> QED
  BY <1>1, <1>2, Entries, BridgeOfInstance DEF Slug

LEMMA StartSteps ==
  ASSUME Typed, NEW p \in Instance, Start(p), NEW q \in Instance
  PROVE  Step(q)
<1> DEFINE C == Clearing(entry[p].entities)
<1>1. InstanceTyped(p) /\ InstanceTyped(q) /\ inbox[q] \in Seq(Msg) /\ Shape
  BY DEF Typed, InstanceTyped
<1>2. entry[p] # None /\ p \notin up /\ Forget(p) /\ retained' = retained /\ up' = up \cup {p}
  BY Zenon DEF Start
<1>3. inbox' = [Forward(C, {}) EXCEPT ![p] = Redelivered(entry[p].prefix, retained)]
  BY DEF Start
<1>4. entry' = entry /\ registry' = registry
  BY DEF Start
<1>5. CASE q = p
  <2>1. inbox'[p] = Redelivered(entry'[p].prefix, retained')
    BY <1>2, <1>3, <1>4, ForwardDomain
  <2>2. p \in up' /\ entry'[p] \in Acceptable(p) /\ entry'[p] # None
    BY <1>1, <1>2, <1>4, EntryOf
  <2>3. known'[p] = Nothing /\ topicUid'[p] = Nothing /\ diag'[p] = {} /\ sending'[p] = {}
    BY <1>1, <1>2, SelfForgets
  <2>4. Renewed(p)
    BY <1>4, <2>1, <2>2, <2>3 DEF Renewed
  <2> QED
    BY <1>2, <1>5, <2>4, OwnStep
<1>6. CASE q # p
  <2>1. Stays(q)
    BY <1>1, <1>2, <1>4, <1>6, OtherForgets
  <2>2. inbox'[q] = Forward(C, {})[q]
    BY <1>3, <1>6, ForwardDomain
  <2>3. Shared({}, C)
    BY <1>1, <1>2, EntryOf, WithdrawnShared
  <2>4. retained' = Store({})
    BY <1>2, StoredNothing
  <2> HIDE DEF C
  <2> QED
    BY <1>1, <2>1, <2>2, <2>3, <2>4, PublishingStep
<1> QED
  BY <1>5, <1>6

LEMMA StopSteps ==
  ASSUME Typed, NEW p \in Instance, Stop(p), NEW q \in Instance
  PROVE  Step(q)
<1>1. InstanceTyped(p) /\ InstanceTyped(q) /\ inbox[q] \in Seq(Msg) /\ Shape
  BY DEF Typed, InstanceTyped
<1>2. Forget(p) /\ retained' = retained /\ entry' = entry /\ registry' = registry
  BY DEF Stop
<1>3. up' = up \ {p} /\ inbox' = [inbox EXCEPT ![p] = <<>>]
  BY DEF Stop
<1>4. CASE q = p
  <2>1. known'[p] = Nothing /\ topicUid'[p] = Nothing /\ diag'[p] = {} /\ sending'[p] = {}
    BY <1>1, <1>2, SelfForgets
  <2>2. entry'[p] \in Acceptable(p) \cup {None} /\ p \notin up' /\ inbox'[p] = <<>>
    BY <1>1, <1>2, <1>3 DEF InstanceTyped, Shape
  <2>3. Renewed(p)
    BY <1>2, <2>1, <2>2 DEF Renewed
  <2> QED
    BY <1>2, <1>4, <2>3, OwnStep
<1>5. CASE q # p
  <2>1. Stays(q)
    BY <1>1, <1>2, <1>3, <1>5, OtherForgets
  <2>2. inbox'[q] = inbox[q]
    BY <1>1, <1>3, <1>5 DEF Shape
  <2> QED
    BY <1>1, <1>2, <2>1, <2>2, QuietStep
<1> QED
  BY <1>4, <1>5

LEMMA AddEntrySteps ==
  ASSUME Typed, NEW p \in Instance, NEW e \in Acceptable(p), AddEntry(p, e), NEW q \in Instance
  PROVE  Step(q)
<1>1. InstanceTyped(p) /\ InstanceTyped(q) /\ inbox[q] \in Seq(Msg) /\ Shape
  BY DEF Typed, InstanceTyped
<1>2. /\ entry[p] = None /\ entry' = [entry EXCEPT ![p] = e]
      /\ up' = up /\ sending' = sending /\ inbox' = inbox /\ registry' = registry
      /\ known' = known /\ topicUid' = topicUid /\ diag' = diag /\ retained' = retained
      /\ missed' = missed
  BY DEF AddEntry, memory
<1>3. CASE q = p
  <2>1. p \notin up
    BY <1>1, <1>2 DEF InstanceTyped
  <2>2. Renewed(p)
    BY <1>1, <1>2, <2>1 DEF Renewed, InstanceTyped, Shape
  <2> QED
    BY <1>2, <1>3, <2>2, OwnStep
<1>4. CASE q # p
  <2>1. Stays(q)
    BY <1>1, <1>2, <1>4 DEF Stays, Shape
  <2> QED
    BY <1>1, <1>2, <2>1, QuietStep
<1> QED
  BY <1>3, <1>4

LEMMA ReconfigureSteps ==
  ASSUME Typed, NEW p \in Instance, NEW e \in Acceptable(p), Reconfigure(p, e), NEW q \in Instance
  PROVE  Step(q)
<1> DEFINE S == Withdrawal(entry[p].prefix, Dropped(p, e))
           C == Clearing(Dropped(p, e) \cup e.entities)
<1>1. InstanceTyped(p) /\ InstanceTyped(q) /\ inbox[q] \in Seq(Msg) /\ Shape
  BY DEF Typed, InstanceTyped
<1>2. /\ entry[p] # None /\ entry' = [entry EXCEPT ![p] = e] /\ Forget(p)
      /\ up' = up /\ registry' = registry
  BY DEF Reconfigure
<1>3. /\ known'[p] = Nothing /\ topicUid'[p] = Nothing /\ diag'[p] = {} /\ sending'[p] = {}
      /\ entry'[p] = e /\ e # None /\ e \in Acceptable(p)
  BY <1>1, <1>2, SelfForgets, Entries DEF Shape
<1>4. ASSUME q # p PROVE Stays(q)
  BY <1>1, <1>2, <1>4, OtherForgets DEF Shape
<1>5. CASE p \notin up /\ inbox' = inbox /\ retained' = retained
  <2>1. CASE q = p
    <3>1. inbox'[p] = <<>> /\ p \notin up'
      BY <1>1, <1>2, <1>5 DEF InstanceTyped
    <3>2. Renewed(p)
      BY <1>2, <1>3, <3>1 DEF Renewed
    <3> QED
      BY <1>5, <2>1, <3>2, OwnStep
  <2>2. CASE q # p
    BY <1>1, <1>4, <1>5, <2>2, QuietStep
  <2> QED
    BY <2>1, <2>2
<1>6. CASE /\ p \in up /\ retained' = Store(S)
           /\ inbox' = [Forward(S, C) EXCEPT ![p] = Redelivered(e.prefix, Store(S))]
  <2>1. Shared(S, C)
    <3>1. Dropped(p, e) \subseteq entry[p].entities
      BY DEF Dropped
    <3>2. Dropped(p, e) \subseteq EntityId /\ IsFiniteSet(Dropped(p, e))
      BY <1>1, <1>2, <3>1, EntryOf, FS_Subset
    <3>3. e.entities \subseteq EntityId /\ IsFiniteSet(e.entities)
      BY Entries
    <3>4. IsFiniteSet(Dropped(p, e) \cup e.entities)
      BY <3>2, <3>3, FS_Union
    <3>5. entry[p].prefix \in SharedPrefix
      BY <1>1, <1>2, EntryOf
    <3> DEFINE D == Dropped(p, e)
               E == D \cup e.entities
    <3>6. D \in SUBSET EntityId /\ IsFiniteSet(D) /\ E \in SUBSET EntityId /\ IsFiniteSet(E)
      BY <3>2, <3>3, <3>4
    <3> HIDE DEF D, E
    <3> QED
      BY <3>5, <3>6, WithdrawnShared DEF D, E
  <2> HIDE DEF S, C
  <2>2. CASE q = p
    <3>1. inbox'[p] = Redelivered(entry'[p].prefix, retained') /\ p \in up'
      BY <1>2, <1>3, <1>6, ForwardDomain
    <3>2. Renewed(p)
      BY <1>2, <1>3, <3>1 DEF Renewed
    <3> QED
      BY <1>1, <1>6, <2>1, <2>2, <3>2, PublishingStep
  <2>3. CASE q # p
    <3>1. inbox'[q] = Forward(S, C)[q]
      BY <1>6, <2>3, ForwardDomain
    <3> QED
      BY <1>1, <1>4, <1>6, <2>1, <2>3, <3>1, PublishingStep
  <2> QED
    BY <2>2, <2>3
<1> QED
  BY <1>5, <1>6, Zenon DEF Reconfigure

LEMMA RemoveEntrySteps ==
  ASSUME Typed, NEW p \in Instance, RemoveEntry(p), NEW q \in Instance
  PROVE  Step(q)
<1> DEFINE S == Withdrawal(entry[p].prefix, entry[p].entities)
           C == Clearing(entry[p].entities)
<1>1. InstanceTyped(p) /\ InstanceTyped(q) /\ inbox[q] \in Seq(Msg) /\ Shape
  BY DEF Typed, InstanceTyped
<1>2. /\ entry[p] # None /\ entry' = [entry EXCEPT ![p] = None] /\ Forget(p)
      /\ up' = up \ {p} /\ registry' = [registry EXCEPT ![p] = {}]
  BY DEF RemoveEntry
<1>3. /\ known'[p] = Nothing /\ topicUid'[p] = Nothing /\ diag'[p] = {} /\ sending'[p] = {}
      /\ entry'[p] = None /\ p \notin up' /\ registry'[p] = {}
  BY <1>1, <1>2, SelfForgets DEF Shape
<1>4. ASSUME q # p PROVE Stays(q)
  BY <1>1, <1>2, <1>4, OtherForgets DEF Shape
<1>5. CASE p \notin up /\ inbox' = inbox /\ retained' = retained
  <2>1. CASE q = p
    <3>1. inbox'[p] = <<>>
      BY <1>1, <1>5 DEF InstanceTyped
    <3>2. Renewed(p)
      BY <1>3, <3>1 DEF Renewed
    <3> QED
      BY <1>5, <2>1, <3>2, OwnStep
  <2>2. CASE q # p
    BY <1>1, <1>4, <1>5, <2>2, QuietStep
  <2> QED
    BY <2>1, <2>2
<1>6. CASE /\ p \in up /\ retained' = Store(S)
           /\ inbox' = [Forward(S, C) EXCEPT ![p] = <<>>]
  <2>1. Shared(S, C)
    BY <1>1, <1>2, EntryOf, WithdrawnShared
  <2> HIDE DEF S, C
  <2>2. CASE q = p
    <3>1. inbox'[p] = <<>>
      BY <1>6, ForwardDomain
    <3>2. Renewed(p)
      BY <1>3, <3>1 DEF Renewed
    <3> QED
      BY <1>1, <1>6, <2>1, <2>2, <3>2, PublishingStep
  <2>3. CASE q # p
    <3>1. inbox'[q] = Forward(S, C)[q]
      BY <1>6, <2>3, ForwardDomain
    <3> QED
      BY <1>1, <1>4, <1>6, <2>1, <2>3, <3>1, PublishingStep
  <2> QED
    BY <2>2, <2>3
<1> QED
  BY <1>5, <1>6, Zenon DEF RemoveEntry

\* The message PublishDiscovery sends.
Announcing(p, e) ==
  Message(DiscoveryTopic(entry[p].prefix, e),
          build_discovery_payload(e, ClassOf[e], Slug(p), ValuePrefix))

LEMMA AnnouncingMessage ==
  ASSUME NEW p \in Instance, InstanceTyped(p), entry[p] # None, NEW e \in Entity[p]
  PROVE  LET m == Announcing(p, e) IN
         /\ m \in Msg /\ m.payload \in Announcement /\ m.payload \notin Reading
         /\ m.topic = DiscoveryTopic(entry[p].prefix, e)
         /\ m.payload = build_discovery_payload(e, ClassOf[e], Slug(p), ValuePrefix)
         /\ UidOf(m) = <<Slug(p), "::", e>> /\ Announces(m) /\ Produced(m.payload)
<1> DEFINE d == build_discovery_payload(e, ClassOf[e], Slug(p), ValuePrefix)
           m == Message(DiscoveryTopic(entry[p].prefix, e), d)
<1>1. entry[p] \in Acceptable(p)
  BY EntryOf
<1>2. m \in Msg /\ d \in Announcement /\ d.unique_id = <<Slug(p), "::", e>>
  BY <1>1, AnnouncementMessage
<1>3. m.payload = d /\ m.topic = DiscoveryTopic(entry[p].prefix, e)
  BY DEF Message
<1>4. d # None /\ "unique_id" \in DOMAIN d /\ d \notin Reading
  BY <1>2, Payloads
<1>5. Produced(d)
  BY EntryOf, Zenon DEF Produced
<1> HIDE DEF d
<1>6. Announcing(p, e) = m
  BY DEF Announcing, d
<1> HIDE DEF m
<1> QED
  BY <1>2, <1>3, <1>4, <1>5, <1>6 DEF UidOf, Announces, d

LEMMA PublishSteps ==
  ASSUME Typed, NEW p \in Instance, NEW q \in Instance,
         \/ \E e \in Entity[p] : PublishDiscovery(p, e)
         \/ \E e \in Entity[p] : \E v \in ValuesOf[e] : PublishState(p, e, v)
         \/ PublishMetadata(p)
  PROVE  Step(q)
<1>1. InstanceTyped(p) /\ InstanceTyped(q) /\ inbox[q] \in Seq(Msg) /\ Shape
  BY DEF Typed, InstanceTyped
<1>2. ASSUME p \in up PROVE entry[p] # None
  BY <1>1, <1>2 DEF InstanceTyped
<1>3. ASSUME NEW e \in Entity[p], PublishDiscovery(p, e) PROVE Step(q)
  <2> DEFINE m == Announcing(p, e)
  <2>1. p \in up /\ e \in entry[p].entities /\ retained' = Store({m}) /\ inbox' = Forward({m}, {})
    BY <1>3, Zenon DEF PublishDiscovery, Announcing
  <2>2. Shared({m}, {})
    <3>1. m \in Msg /\ m.payload \notin Reading /\ Produced(m.payload)
      BY <1>1, <1>2, <2>1, AnnouncingMessage
    <3> HIDE DEF m
    <3> QED
      BY <3>1, OneShared
  <2>3. /\ sending' = [sending EXCEPT ![p] = @ \cup {e}]
        /\ entry' = entry /\ up' = up /\ known' = known /\ topicUid' = topicUid /\ diag' = diag
        /\ registry' = registry /\ missed' = missed
    BY <1>3 DEF PublishDiscovery, memory
  <2>4. Stays(q)
    BY <1>1, <2>1, <2>3 DEF Stays, Shape
  <2> HIDE DEF m
  <2> QED
    BY <1>1, <2>1, <2>2, <2>4, PublishingStep
<1>4. ASSUME NEW e \in Entity[p], NEW v \in ValuesOf[e], PublishState(p, e, v) PROVE Step(q)
  <2> DEFINE m == Message(StateTopic(ValuePrefix, e), [state |-> v])
  <2>1. /\ p \in up /\ retained' = retained /\ inbox' = Forward({m}, {})
        /\ sending' = [sending EXCEPT ![p] = @ \ {e}]
        /\ entry' = entry /\ up' = up /\ known' = known /\ topicUid' = topicUid /\ diag' = diag
        /\ registry' = registry /\ missed' = missed
    BY <1>4 DEF PublishState, memory
  <2>2. Shared({}, {m})
    <3>1. e \in EntityId
      BY Given
    <3>2. m \in Msg /\ m.payload \in Reading
      BY <3>1, StateMessage, Values DEF Message
    <3> HIDE DEF m
    <3> QED
      BY <3>2, FS_EmptySet, FS_Singleton DEF Shared
  <2>3. Stays(q)
    BY <1>1, <2>1 DEF Stays, Shape
  <2>4. retained' = Store({})
    BY <2>1, StoredNothing
  <2> HIDE DEF m
  <2> QED
    BY <1>1, <2>1, <2>2, <2>3, <2>4, PublishingStep
<1>5. ASSUME PublishMetadata(p) PROVE Step(q)
  <2> DEFINE n == Cardinality(entry[p].entities)
             d == build_metadata_payload(Slug(p), n)
             m == Message(MetadataTopic(entry[p].prefix, Slug(p)), d)
  <2>1. /\ p \in up /\ retained' = Store({m}) /\ inbox' = Forward({m}, {})
        /\ entry' = entry /\ up' = up /\ known' = known /\ topicUid' = topicUid /\ diag' = diag
        /\ registry' = registry /\ missed' = missed /\ sending' = sending
    BY <1>5 DEF PublishMetadata, memory
  <2>2. Shared({m}, {})
    <3>1. n \in Nat /\ Slug(p) \in Bridge /\ entry[p].prefix \in SharedPrefix
      BY <1>1, <1>2, <2>1, EntryOf, FS_CardinalityType
    <3> HIDE DEF n
    <3>2. d \in BridgeInfo
      BY <3>1 DEF build_metadata_payload, BridgeInfo
    <3>3. "state" \notin DOMAIN d
      BY DEF build_metadata_payload
    <3>4. d \notin Reading
      BY <3>3 DEF Reading
    <3> HIDE DEF d
    <3>5. m \in Msg /\ m.payload \notin Reading /\ ~Announces(m)
      BY <3>1, <3>2, <3>4, MetadataMessage, Payloads DEF Message, Announces
    <3> HIDE DEF m
    <3> QED
      BY <3>5, OneShared
  <2>3. Stays(q)
    BY <1>1, <2>1 DEF Stays, Shape
  <2> HIDE DEF m
  <2> QED
    BY <1>1, <2>1, <2>2, <2>3, PublishingStep
<1> QED
  BY <1>3, <1>4, <1>5

\* Handling a message changes nothing but the handler's own.
LEMMA ReceiveOwn ==
  ASSUME NEW p \in Instance, Receive(p)
  PROVE  /\ p \in up /\ inbox[p] # <<>> /\ inbox' = [inbox EXCEPT ![p] = Tail(@)]
         /\ UNCHANGED <<entry, up, sending, retained, missed, buried>>
<1>1. PICK t : Receives(p, t)
  BY Zenon DEF Receive, ReceiveRemoval, ReceiveDiscovery, ReceiveMetadata, ReceiveState, Ignore
<1> QED
  BY <1>1 DEF Receives

LEMMA ReceiveSteps ==
  ASSUME Typed, NEW p \in Instance, Receive(p), NEW q \in Instance
  PROVE  Step(q)
<1>1. InstanceTyped(q) /\ inbox[q] \in Seq(Msg) /\ Shape
  BY DEF Typed, InstanceTyped
<1>2. /\ inbox' = [inbox EXCEPT ![p] = Tail(@)] /\ retained' = retained
      /\ entry' = entry /\ up' = up /\ sending' = sending /\ missed' = missed
  BY ReceiveOwn
<1>3. CASE q = p
  BY <1>2, <1>3, OwnStep
<1>4. CASE q # p
  <2> DEFINE t == Head(inbox[p]).topic
  <2>1. /\ known'[q] = known[q] /\ topicUid'[q] = topicUid[q] /\ diag'[q] = diag[q]
        /\ registry'[q] = registry[q]
    <3>1. CASE ReceiveRemoval(p, t)
      BY <1>1, <1>4, <3>1 DEF ReceiveRemoval, Removal, Shape
    <3>2. CASE ReceiveDiscovery(p, t)
      BY <1>1, <1>4, <3>2 DEF ReceiveDiscovery, Shape
    <3>3. CASE ReceiveMetadata(p, t)
      BY <1>1, <1>4, <3>3 DEF ReceiveMetadata, Shape
    <3>4. CASE ReceiveState(p, t)
      BY <1>1, <1>4, <3>4 DEF ReceiveState, Shape
    <3>5. CASE Ignore(p, t)
      BY <1>1, <1>4, <3>5 DEF Ignore, memory
    <3> QED
      BY <3>1, <3>2, <3>3, <3>4, <3>5, Zenon DEF Receive
  <2>2. Stays(q)
    BY <1>2, <2>1 DEF Stays
  <2>3. inbox'[q] = inbox[q]
    BY <1>1, <1>2, <1>4 DEF Shape
  <2> QED
    BY <1>1, <1>2, <2>2, <2>3, QuietStep
<1> QED
  BY <1>3, <1>4

LEMMA ReconnectSteps ==
  ASSUME Typed, NEW p \in Instance, Reconnect(p), NEW q \in Instance
  PROVE  Step(q)
<1>1. InstanceTyped(q) /\ inbox[q] \in Seq(Msg) /\ Shape
  BY DEF Typed, InstanceTyped
<1>2. /\ inbox' = [inbox EXCEPT ![p] = Redelivered(entry[p].prefix, retained)]
      /\ retained' = retained /\ missed' \in {missed, missed \cup {p}}
      /\ entry' = entry /\ up' = up /\ sending' = sending
      /\ known' = known /\ topicUid' = topicUid /\ diag' = diag /\ registry' = registry
  BY DEF Reconnect, memory
<1>3. CASE q = p
  BY <1>2, <1>3, OwnStep
<1>4. CASE q # p
  <2>1. Stays(q)
    BY <1>2, <1>4 DEF Stays
  <2>2. inbox'[q] = inbox[q]
    BY <1>1, <1>2, <1>4 DEF Shape
  <2> QED
    BY <1>1, <1>2, <2>1, <2>2, QuietStep
<1> QED
  BY <1>3, <1>4

LEMMA DepublishSteps ==
  ASSUME Typed, NEW p \in Instance, NEW u \in registry[p], Depublish(p, u[1]), NEW q \in Instance
  PROVE  Step(q)
<1> DEFINE S == Erasers(p, u[1])
           gone == LastSeen(p, Live(p, u[1]))
<1>1. InstanceTyped(p) /\ InstanceTyped(q) /\ inbox[q] \in Seq(Msg) /\ Shape
  BY DEF Typed, InstanceTyped
<1>2. /\ entry[p] \in Acceptable(p) /\ Obsolete(p, u[1]) # {}
      /\ retained' = Store(S) /\ inbox' = Forward(S, {})
  BY <1>1, DepublishEffect
<1>3. /\ topicUid' = [topicUid EXCEPT ![p] = Drop(@, Live(p, u[1]))]
      /\ known' = [known EXCEPT ![p] = Drop(@, gone)]
      /\ diag' = [diag EXCEPT ![p] = (@ \cap BridgesOf(DOMAIN known[p] \ gone, p)) \ {u[1]}]
      /\ registry' = [registry EXCEPT ![p] = @ \ (Obsolete(p, u[1]) \cup gone)]
      /\ UNCHANGED <<entry, up, sending, missed>>
  BY <1>1, DepublishEffect
<1>4. Shared(S, {})
  BY <1>1, <1>2, ErasersShared
<1> HIDE DEF S, gone
<1>5. CASE q = p
  BY <1>1, <1>2, <1>4, <1>5, PublishingStep
<1>6. CASE q # p
  <2>1. Stays(q)
    BY <1>1, <1>3, <1>6 DEF Stays, Shape
  <2> QED
    BY <1>1, <1>2, <1>4, <2>1, PublishingStep
<1> QED
  BY <1>5, <1>6

\* Every step is one of these for every instance.
LEMMA Steps ==
  ASSUME Typed, [Next]_vars, NEW q \in Instance
  PROVE  Step(q)
<1>1. CASE UNCHANGED vars
  <2>1. inbox[q] \in Seq(Msg)
    BY DEF Typed, InstanceTyped
  <2>2. /\ inbox' = inbox /\ retained' = retained /\ entry' = entry /\ up' = up
        /\ sending' = sending /\ missed' = missed
        /\ known' = known /\ topicUid' = topicUid /\ diag' = diag /\ registry' = registry
    BY <1>1 DEF vars, memory
  <2>3. Stays(q)
    BY <2>2 DEF Stays
  <2> QED
    BY <2>1, <2>2, <2>3, QuietStep
<1>2. CASE Next
  <2> SUFFICES ASSUME NEW p \in Instance,
        \/ \E e \in Acceptable(p) : AddEntry(p, e) \/ Reconfigure(p, e)
        \/ Start(p) \/ Stop(p) \/ Reconnect(p) \/ RemoveEntry(p)
        \/ \E e \in Entity[p] : PublishDiscovery(p, e)
        \/ \E e \in Entity[p] : \E v \in ValuesOf[e] : PublishState(p, e, v)
        \/ PublishMetadata(p)
        \/ Receive(p)
        \/ \E u \in registry[p] : Depublish(p, u[1])
      PROVE Step(q)
    BY <1>2, Zenon DEF Next
  <2>1. ASSUME NEW e \in Acceptable(p), AddEntry(p, e) \/ Reconfigure(p, e) PROVE Step(q)
    BY <2>1, AddEntrySteps, ReconfigureSteps
  <2>2. ASSUME NEW u \in registry[p], Depublish(p, u[1]) PROVE Step(q)
    BY <2>2, DepublishSteps
  <2>3. CASE Start(p)
    BY <2>3, StartSteps
  <2>4. CASE Stop(p)
    BY <2>4, StopSteps
  <2>5. CASE Reconnect(p)
    BY <2>5, ReconnectSteps
  <2>6. CASE RemoveEntry(p)
    BY <2>6, RemoveEntrySteps
  <2>7. CASE Receive(p)
    BY <2>7, ReceiveSteps
  <2>8. CASE \/ \E e \in Entity[p] : PublishDiscovery(p, e)
             \/ \E e \in Entity[p] : \E v \in ValuesOf[e] : PublishState(p, e, v)
             \/ PublishMetadata(p)
    BY <2>8, PublishSteps
  <2> QED
    BY <2>1, <2>2, <2>3, <2>4, <2>5, <2>6, <2>7, <2>8, Zenon
<1> QED
  BY <1>1, <1>2

LEMMA PutDrop ==
  /\ \A f, k, v : /\ DOMAIN Put(f, k, v) = DOMAIN f \cup {k} /\ Put(f, k, v)[k] = v
                  /\ \A x \in DOMAIN f : x # k => Put(f, k, v)[x] = f[x]
  /\ \A f, K : /\ DOMAIN Drop(f, K) = DOMAIN f \ K
               /\ \A x \in DOMAIN f : x \notin K => Drop(f, K)[x] = f[x]
BY DEF Put, Drop

LEMMA NothingKnown == DOMAIN Nothing = {}
BY DEF Nothing

\* The first message and the rest.
LEMMA FirstMessage ==
  ASSUME NEW s \in Seq(Msg), s # <<>>
  PROVE  /\ Head(s) \in Msg /\ Head(s) = s[1] /\ 1 \in 1..Len(s)
         /\ Tail(s) \in Seq(Msg) /\ Len(Tail(s)) = Len(s) - 1
         /\ \A i \in 1..Len(Tail(s)) : Tail(s)[i] = s[i + 1]
<1>1. /\ Head(s) \in Msg /\ Tail(s) \in Seq(Msg) /\ Len(Tail(s)) = Len(s) - 1
      /\ \A i \in 1..Len(Tail(s)) : Tail(s)[i] = s[i + 1]
  BY HeadTailProperties
<1>2. Head(s) = s[1]
  OBVIOUS
<1>3. Len(s) \in Nat /\ Len(s) # 0
  BY EmptySeq, LenProperties
<1> QED
  BY <1>1, <1>2, <1>3

\* async_handle_removal.
LEMMA RemovalEffect ==
  ASSUME Shape, NEW q \in Instance, NEW t, ReceiveRemoval(q, t)
  PROVE  LET gone == LastSeen(q, {t}) \cap DOMAIN known[q] IN
         /\ t = Head(inbox[q]).topic /\ Head(inbox[q]).payload = None
         /\ topics_to_subscribe(t, entry[q].prefix) /\ BridgeOfTopic(q, t) = None
         /\ topicUid'[q] = Drop(topicUid[q], {t})
         /\ known'[q] = Drop(known[q], gone)
         /\ diag'[q] = diag[q] \cap BridgesOf(DOMAIN known[q] \ gone, q)
         /\ registry'[q] = registry[q] \ gone
<1> DEFINE gone == LastSeen(q, {t}) \cap DOMAIN known[q]
<1>1. /\ t = Head(inbox[q]).topic /\ Head(inbox[q]).payload = None
      /\ topics_to_subscribe(t, entry[q].prefix) /\ BridgeOfTopic(q, t) = None
  BY DEF ReceiveRemoval, Receives
<1>2. /\ topicUid' = [topicUid EXCEPT ![q] = Drop(@, {t})]
      /\ known' = [known EXCEPT ![q] = Drop(@, gone)]
      /\ diag' = [diag EXCEPT ![q] = @ \cap BridgesOf(DOMAIN known[q] \ gone, q)]
      /\ registry' = [registry EXCEPT ![q] = @ \ gone]
  BY Zenon DEF ReceiveRemoval, Removal, LastSeen
<1> HIDE DEF gone
<1>3. /\ topicUid'[q] = Drop(topicUid[q], {t})
      /\ known'[q] = Drop(known[q], gone)
      /\ diag'[q] = diag[q] \cap BridgesOf(DOMAIN known[q] \ gone, q)
      /\ registry'[q] = registry[q] \ gone
  BY <1>2 DEF Shape
<1> QED
  BY <1>1, <1>3 DEF gone

\* async_handle_discovery: the topic of what is announced is that of its
\* entity under the prefix in use.
LEMMA DiscoveryEffect ==
  ASSUME Shape, NEW q \in Instance, InstanceTyped(q), NEW t, ReceiveDiscovery(q, t)
  PROVE  LET m == Head(inbox[q])
             u == UidOf(m)
             k == known'[q][u]
         IN
         /\ q \in up /\ entry[q].prefix \in SharedPrefix
         /\ m \in Msg /\ m.payload \in Announcement /\ Announces(m) /\ t = m.topic
         /\ u \in Uid /\ t = TopicIn(entry[q].prefix, u) /\ u[1] # Slug(q)
         /\ topics_to_subscribe(t, entry[q].prefix)
         /\ topicUid'[q] = Put(topicUid[q], t, u)
         /\ known'[q] = Put(known[q], u, k)
         /\ DOMAIN k = {"device_class", "state_topic", "device", "value"}
         /\ k.device = u[1] /\ k.state_topic = StateTopic(ValuePrefix, u[3])
         /\ k.device_class =
              IF domain_from_unique_id(u) = "sensor" THEN m.payload.device_class ELSE None
         /\ k.value = IF u \in DOMAIN known[q] THEN known[q][u].value
                        ELSE set_native_value("unknown")
         /\ diag'[q] = diag[q] /\ registry'[q] = registry[q] \cup {u}
<1> DEFINE m == Head(inbox[q])
           d == m.payload
           u == d.unique_id
           new == Materialized(d)
           k == IF u \in DOMAIN known[q] THEN Refreshed(known[q][u], new) ELSE new
           x == entry[q].prefix
<1>1. /\ q \in up /\ inbox[q] # <<>> /\ t = m.topic /\ topics_to_subscribe(t, x)
      /\ Foreign(q, d)
  BY DEF ReceiveDiscovery, Receives
<1>2. /\ known' = [known EXCEPT ![q] = Put(@, u, IF u \in DOMAIN @ THEN Refreshed(@[u], new) ELSE new)]
      /\ topicUid' = [topicUid EXCEPT ![q] = Put(@, t, u)]
      /\ registry' = [registry EXCEPT ![q] = @ \cup {u}]
      /\ diag' = diag
  BY DEF ReceiveDiscovery
<1>3. /\ known'[q] = Put(known[q], u, k) /\ topicUid'[q] = Put(topicUid[q], t, u)
      /\ registry'[q] = registry[q] \cup {u} /\ diag'[q] = diag[q]
  BY <1>2 DEF Shape
<1>4. m \in Msg
  BY <1>1, FirstMessage DEF InstanceTyped
<1>5. d # None /\ "unique_id" \in DOMAIN d /\ ~is_own_message(d, Slug(q))
  BY <1>1 DEF Foreign
<1>6. x \in SharedPrefix /\ entry[q] # None
  BY <1>1, EntryOf DEF InstanceTyped
<1> HIDE DEF m, x
<1>7. d \in Announcement /\ \E y \in SharedPrefix : m.topic = DiscoveryTopic(y, u[3])
  BY <1>4, <1>5, Messages
<1>8. u \in Uid /\ d.device = u[1] /\ d.state_topic = StateTopic(ValuePrefix, u[3])
  BY <1>7, Payloads
<1>9. u[2] \in {"::", "."} /\ u[3] \in EntityId
  BY <1>8, UidParts
<1>10. t = DiscoveryTopic(x, u[3])
  <2>1. PICK y \in SharedPrefix : t = DiscoveryTopic(y, u[3])
    BY <1>1, <1>7
  <2>2. y = x
    BY <1>1, <1>6, <1>9, <2>1, DiscoveryRoute
  <2> QED
    BY <2>1, <2>2
<1>11. u[1] # Slug(q)
  BY <1>5, <1>9, Zenon DEF is_own_message
<1>12. /\ DOMAIN new = {"device_class", "state_topic", "device", "value"}
       /\ new.device = u[1] /\ new.state_topic = StateTopic(ValuePrefix, u[3])
       /\ new.device_class = IF domain_from_unique_id(u) = "sensor" THEN d.device_class ELSE None
       /\ new.value = set_native_value("unknown")
  BY <1>8 DEF Materialized
<1> HIDE DEF new
<1>13. /\ DOMAIN k = {"device_class", "state_topic", "device", "value"}
       /\ k.device = u[1] /\ k.state_topic = StateTopic(ValuePrefix, u[3])
       /\ k.device_class = IF domain_from_unique_id(u) = "sensor" THEN d.device_class ELSE None
       /\ k.value = IF u \in DOMAIN known[q] THEN known[q][u].value ELSE set_native_value("unknown")
  <2>1. CASE u \in DOMAIN known[q]
    <3> DEFINE old == known[q][u]
    <3>1. old.state_topic = StateTopic(ValuePrefix, u[3])
      BY <2>1 DEF InstanceTyped, KnownTyped
    <3>2. k = [new EXCEPT !.state_topic = old.state_topic, !.value = old.value]
      BY <2>1 DEF Refreshed
    <3> HIDE DEF old, k
    <3>3. /\ DOMAIN k = DOMAIN new /\ k.state_topic = old.state_topic /\ k.value = old.value
          /\ k.device = new.device /\ k.device_class = new.device_class
      BY <1>12, <3>2
    <3> QED
      BY <1>12, <2>1, <3>1, <3>3 DEF old
  <2>2. CASE u \notin DOMAIN known[q]
    <3>1. k = new
      BY <2>2
    <3> HIDE DEF k
    <3> QED
      BY <1>12, <2>2, <3>1
  <2> QED
    BY <2>1, <2>2
<1> HIDE DEF k
<1>14. known'[q][u] = k
  BY <1>3, PutDrop
<1>15. UidOf(m) = u /\ Announces(m)
  BY <1>5 DEF UidOf, Announces
<1> QED
  BY <1>1, <1>3, <1>4, <1>6, <1>7, <1>8, <1>10, <1>11, <1>13, <1>14, <1>15, Zenon
     DEF TopicIn, m, x

\* The state handlers.
LEMMA StateEffect ==
  ASSUME Shape, NEW q \in Instance, NEW t, ReceiveState(q, t)
  PROVE  /\ t = Head(inbox[q]).topic /\ ~topics_to_subscribe(t, entry[q].prefix)
         /\ DOMAIN known'[q] = DOMAIN known[q]
         /\ \A u \in DOMAIN known[q] :
              known'[q][u] =
                IF known[q][u].state_topic # t THEN known[q][u]
                ELSE [known[q][u] EXCEPT !.value = set_native_value(Head(inbox[q]).payload.state)]
         /\ topicUid'[q] = topicUid[q] /\ diag'[q] = diag[q] /\ registry'[q] = registry[q]
<1>1. /\ t = Head(inbox[q]).topic /\ ~topics_to_subscribe(t, entry[q].prefix)
      /\ topicUid' = topicUid /\ diag' = diag /\ registry' = registry
  BY DEF ReceiveState, Receives
<1>2. known'[q] = [u \in DOMAIN known[q] |->
         IF known[q][u].state_topic # t THEN known[q][u]
         ELSE [known[q][u] EXCEPT !.value = set_native_value(Head(inbox[q]).payload.state)]]
  BY DEF ReceiveState, Shape
<1> QED
  BY <1>1, <1>2

LEMMA ShapeStep ==
  ASSUME Shape, [Next]_vars
  PROVE  Shape'
<1>1. CASE UNCHANGED vars
  BY <1>1 DEF vars, memory, Shape
<1>2. ASSUME NEW p \in Instance, NEW e, AddEntry(p, e) PROVE Shape'
  BY <1>2 DEF AddEntry, memory, Shape
<1>3. ASSUME NEW p \in Instance, NEW e, Reconfigure(p, e) PROVE Shape'
  BY <1>3, ForwardDomain DEF Reconfigure, Forget, Shape
<1>4. ASSUME NEW p \in Instance, Start(p) PROVE Shape'
  BY <1>4, ForwardDomain DEF Start, Forget, Shape
<1>5. ASSUME NEW p \in Instance, Stop(p) PROVE Shape'
  BY <1>5 DEF Stop, Forget, Shape
<1>6. ASSUME NEW p \in Instance, Reconnect(p) PROVE Shape'
  BY <1>6 DEF Reconnect, memory, Shape
<1>7. ASSUME NEW p \in Instance, RemoveEntry(p) PROVE Shape'
  BY <1>7, ForwardDomain DEF RemoveEntry, Forget, Shape
<1>8. ASSUME NEW p \in Instance, NEW e, PublishDiscovery(p, e) PROVE Shape'
  BY <1>8, ForwardDomain DEF PublishDiscovery, memory, Shape
<1>9. ASSUME NEW p \in Instance, NEW e, NEW v, PublishState(p, e, v) PROVE Shape'
  BY <1>9, ForwardDomain DEF PublishState, memory, Shape
<1>10. ASSUME NEW p \in Instance, PublishMetadata(p) PROVE Shape'
  BY <1>10, ForwardDomain DEF PublishMetadata, memory, Shape
<1>11. ASSUME NEW p \in Instance, Receive(p) PROVE Shape'
  <2> DEFINE t == Head(inbox[p]).topic
  <2>1. CASE ReceiveRemoval(p, t)
    BY <2>1 DEF ReceiveRemoval, Receives, Removal, Shape
  <2>2. CASE ReceiveDiscovery(p, t)
    BY <2>2 DEF ReceiveDiscovery, Receives, Shape
  <2>3. CASE ReceiveMetadata(p, t)
    BY <2>3 DEF ReceiveMetadata, Receives, Shape
  <2>4. CASE ReceiveState(p, t)
    BY <2>4 DEF ReceiveState, Receives, Shape
  <2>5. CASE Ignore(p, t)
    BY <2>5 DEF Ignore, Receives, memory, Shape
  <2> QED
    BY <1>11, <2>1, <2>2, <2>3, <2>4, <2>5, Zenon DEF Receive
<1>12. ASSUME NEW p \in Instance, NEW b, Depublish(p, b) PROVE Shape'
  BY <1>12, ForwardDomain DEF Depublish, Shape
<1> QED
  BY <1>1, <1>2, <1>3, <1>4, <1>5, <1>6, <1>7, <1>8, <1>9, <1>10, <1>11, <1>12, Zenon DEF Next

LEMMA InboxStep ==
  ASSUME Typed, NEW q \in Instance, Step(q), StoreTyped'
  PROVE  inbox'[q] \in Seq(Msg)
<1>1. InstanceTyped(q) /\ inbox[q] \in Seq(Msg) /\ Shape
  BY DEF Typed, InstanceTyped
<1>2. PICK S \in SUBSET Msg, C \in SUBSET Msg :
        /\ Shared(S, C) /\ retained' = Store(S)
        /\ \/ Stays(q) /\ Spread(q, S, C)
           \/ Renewed(q) \/ Reconnect(q) \/ Receive(q)
           \/ \E u \in registry[q] : Depublish(q, u[1])
  BY DEF Step
<1>3. \A x : Redelivered(x, retained') \in Seq(Msg)
  <2> TAKE x
  <2>1. IsFiniteSet(retained') /\ retained' \subseteq Msg
    BY DEF StoreTyped
  <2>2. Redelivered(x, retained') \in Seq(retained')
    BY <2>1, RedeliveredMessages
  <2> QED
    BY <2>1, <2>2, SeqMonotonic
<1>4. CASE Spread(q, S, C)
  BY <1>1, <1>4 DEF Spread, Extended
<1>5. CASE Renewed(q)
  <2>1. <<>> \in Seq(Msg)
    OBVIOUS
  <2> QED
    BY <1>3, <1>5, <2>1 DEF Renewed
<1>6. CASE Reconnect(q)
  <2>1. inbox'[q] = Redelivered(entry[q].prefix, retained')
    BY <1>1, <1>6 DEF Reconnect, Shape
  <2> QED
    BY <1>3, <2>1
<1>7. CASE Receive(q)
  <2>1. inbox[q] # <<>> /\ inbox'[q] = Tail(inbox[q])
    BY <1>1, <1>7, ReceiveOwn DEF Shape
  <2> QED
    BY <1>1, <2>1, FirstMessage
<1>8. ASSUME NEW u \in registry[q], Depublish(q, u[1]) PROVE inbox'[q] \in Seq(Msg)
  <2> DEFINE E == Erasers(q, u[1])
  <2>1. /\ inbox' = Forward(E, {}) /\ entry[q] \in Acceptable(q) /\ Obsolete(q, u[1]) # {}
    BY <1>1, <1>8, DepublishEffect
  <2>2. Shared(E, {})
    BY <1>1, <2>1, ErasersShared
  <2> HIDE DEF E
  <2>3. E \subseteq Msg /\ IsFiniteSet(E) /\ {} \subseteq Msg /\ IsFiniteSet({})
    BY <2>2 DEF Shared
  <2>4. Forward(E, {})[q] \in Seq(Msg)
    BY <1>1, <2>3, ForwardExtends, Zenon
  <2> QED
    BY <2>1, <2>4
<1> QED
  BY <1>2, <1>4, <1>5, <1>6, <1>7, <1>8

LEMMA StoreStep ==
  ASSUME Typed, NEW q \in Instance, Step(q)
  PROVE  StoreTyped'
<1>1. PICK S \in SUBSET Msg, C \in SUBSET Msg : Shared(S, C) /\ retained' = Store(S)
  BY DEF Step
<1>2. StoreTyped
  BY DEF Typed
<1>3. /\ Store(S) \subseteq Msg /\ IsFiniteSet(Store(S))
      /\ \A r \in Store(S) : r.payload # None /\ r.payload \notin Reading
      /\ \A r, s \in Store(S) : r.topic = s.topic => r = s
  BY <1>1, <1>2, Stored
<1> QED
  BY <1>1, <1>3 DEF StoreTyped

\* What InstanceTyped says of the materialized entities is kept by dropping
\* some of them.
LEMMA DroppedTyped ==
  ASSUME NEW q, KnownTyped(q), NEW K, known'[q] = Drop(known[q], K)
  PROVE  /\ KnownTyped(q)'
         /\ BridgesOf(DOMAIN known[q] \ K, q) = BridgesOf(DOMAIN known[q], q)'
<1>1. /\ DOMAIN known'[q] = DOMAIN known[q] \ K
      /\ \A u \in DOMAIN known'[q] : known'[q][u] = known[q][u]
  BY DEF Drop
<1>2. KnownTyped(q)'
  BY <1>1 DEF KnownTyped
<1>3. BridgesOf(DOMAIN known[q], q)' = {known'[q][u].device : u \in DOMAIN known'[q]}
  BY DEF BridgesOf
<1> QED
  BY <1>1, <1>2, <1>3 DEF BridgesOf

\* The bridges shown are the first parts of the unique ids.
LEMMA Bridges ==
  ASSUME NEW q, KnownTyped(q), NEW U \in SUBSET DOMAIN known[q]
  PROVE  BridgesOf(U, q) = {u[1] : u \in U}
BY DEF BridgesOf, KnownTyped

LEMMA ReceiveTyped ==
  ASSUME Shape, NEW q \in Instance, InstanceTyped(q), Receive(q)
  PROVE  /\ registry'[q] \subseteq Uid /\ IsFiniteSet(registry'[q])
         /\ KnownTyped(q)' /\ diag'[q] \subseteq BridgesOf(DOMAIN known[q], q)'
<1> DEFINE t == Head(inbox[q]).topic
<1>1. /\ registry[q] \subseteq Uid /\ IsFiniteSet(registry[q]) /\ KnownTyped(q)
      /\ diag[q] \subseteq BridgesOf(DOMAIN known[q], q)
  BY DEF InstanceTyped
<1>2. CASE ReceiveRemoval(q, t)
  <2> DEFINE gone == LastSeen(q, {t}) \cap DOMAIN known[q]
  <2>1. /\ known'[q] = Drop(known[q], gone)
        /\ diag'[q] = diag[q] \cap BridgesOf(DOMAIN known[q] \ gone, q)
        /\ registry'[q] = registry[q] \ gone
    BY <1>2, RemovalEffect
  <2> HIDE DEF gone
  <2>2. registry'[q] \subseteq Uid /\ IsFiniteSet(registry'[q])
    BY <1>1, <2>1, FS_Subset
  <2> QED
    BY <1>1, <2>1, <2>2, DroppedTyped
<1>3. CASE ReceiveDiscovery(q, t)
  <2> DEFINE u == UidOf(Head(inbox[q]))
             k == known'[q][u]
  <2>1. /\ u \in Uid /\ known'[q] = Put(known[q], u, k)
        /\ DOMAIN k = {"device_class", "state_topic", "device", "value"}
        /\ k.device = u[1] /\ k.state_topic = StateTopic(ValuePrefix, u[3])
        /\ diag'[q] = diag[q] /\ registry'[q] = registry[q] \cup {u}
    BY <1>3, DiscoveryEffect
  <2> HIDE DEF u, k
  <2>2. /\ DOMAIN known'[q] = DOMAIN known[q] \cup {u} /\ known'[q][u] = k
        /\ \A w \in DOMAIN known[q] : w # u => known'[q][w] = known[q][w]
    BY <2>1 DEF Put
  <2>3. registry'[q] \subseteq Uid /\ IsFiniteSet(registry'[q])
    BY <1>1, <2>1, FS_AddElement
  <2>4. KnownTyped(q)'
    BY <1>1, <2>1, <2>2 DEF KnownTyped
  <2>5. BridgesOf(DOMAIN known[q], q)' = {w[1] : w \in DOMAIN known'[q]}
    BY <2>4 DEF BridgesOf, KnownTyped
  <2>6. BridgesOf(DOMAIN known[q], q) = {w[1] : w \in DOMAIN known[q]}
    BY <1>1, Bridges
  <2> QED
    <3>1. DOMAIN known[q] \subseteq DOMAIN known'[q]
      BY <2>2
    <3>2. diag'[q] \subseteq BridgesOf(DOMAIN known[q], q)'
      BY <1>1, <2>1, <2>5, <2>6, <3>1
    <3> QED
      BY <2>3, <2>4, <3>2
<1>4. CASE ReceiveMetadata(q, t)
  <2>1. /\ BridgeOfTopic(q, t) \in BridgesOf(DOMAIN known[q], q)
        /\ diag'[q] = diag[q] \cup {BridgeOfTopic(q, t)}
        /\ known' = known /\ registry' = registry
    BY <1>4 DEF ReceiveMetadata, Shape
  <2>2. diag'[q] \subseteq BridgesOf(DOMAIN known[q], q)
    BY <1>1, <2>1
  <2> QED
    BY <1>1, <2>1, <2>2 DEF KnownTyped, BridgesOf
<1>5. CASE ReceiveState(q, t)
  <2> DEFINE v == set_native_value(Head(inbox[q]).payload.state)
  <2>1. /\ DOMAIN known'[q] = DOMAIN known[q]
        /\ \A u \in DOMAIN known[q] :
              known'[q][u] = IF known[q][u].state_topic # t THEN known[q][u]
                               ELSE [known[q][u] EXCEPT !.value = v]
        /\ diag'[q] = diag[q] /\ registry'[q] = registry[q]
    BY <1>5, StateEffect
  <2> HIDE DEF v
  <2>2. \A u \in DOMAIN known[q] : DOMAIN known[q][u] = {"device_class", "state_topic", "device", "value"}
    BY <1>1 DEF KnownTyped
  <2>3. ASSUME NEW u \in DOMAIN known[q]
        PROVE  /\ DOMAIN known'[q][u] = DOMAIN known[q][u]
               /\ known'[q][u].device = known[q][u].device
               /\ known'[q][u].state_topic = known[q][u].state_topic
    <3> DEFINE k == known[q][u]
               n == known'[q][u]
    <3>1. DOMAIN k = {"device_class", "state_topic", "device", "value"}
      BY <2>2
    <3>2. n = k \/ n = [k EXCEPT !.value = v]
      BY <2>1
    <3> HIDE DEF k, n
    <3>3. DOMAIN n = DOMAIN k /\ n.device = k.device /\ n.state_topic = k.state_topic
      BY <3>1, <3>2
    <3> QED
      BY <3>3 DEF k, n
  <2>4. KnownTyped(q)'
    BY <1>1, <2>1, <2>3 DEF KnownTyped
  <2>5. BridgesOf(DOMAIN known[q], q)' = {w[1] : w \in DOMAIN known'[q]}
    BY <2>4 DEF BridgesOf, KnownTyped
  <2>6. BridgesOf(DOMAIN known[q], q) = {w[1] : w \in DOMAIN known[q]}
    BY <1>1, Bridges
  <2> QED
    BY <1>1, <2>1, <2>4, <2>5, <2>6
<1>6. CASE Ignore(q, t)
  <2>1. known' = known /\ diag' = diag /\ registry' = registry
    BY <1>6 DEF Ignore, memory
  <2> QED
    BY <1>1, <2>1 DEF KnownTyped, BridgesOf
<1> QED
  BY <1>2, <1>3, <1>4, <1>5, <1>6, Zenon DEF Receive

LEMMA TypedStep ==
  ASSUME Typed, [Next]_vars
  PROVE  Typed'
<1>1. Shape /\ Shape' /\ StoreTyped
  BY ShapeStep DEF Typed
<1>2. StoreTyped'
  <2>1. CASE UNCHANGED vars
    BY <1>1, <2>1 DEF vars, StoreTyped
  <2>2. CASE Next
    <3>1. PICK p \in Instance : TRUE
      BY <2>2, Zenon DEF Next
    <3> QED
      BY <3>1, Steps, StoreStep
  <2> QED
    BY <2>1, <2>2
<1>3. ASSUME NEW q \in Instance PROVE InstanceTyped(q)'
  <2>1. Step(q) /\ InstanceTyped(q)
    BY Steps DEF Typed
  <2>2. inbox'[q] \in Seq(Msg)
    BY <1>2, <2>1, InboxStep
  <2>3. PICK S \in SUBSET Msg, C \in SUBSET Msg :
          /\ Shared(S, C) /\ retained' = Store(S)
          /\ \/ Stays(q) /\ Spread(q, S, C)
             \/ Renewed(q) \/ Reconnect(q) \/ Receive(q)
             \/ \E u \in registry[q] : Depublish(q, u[1])
    BY <2>1 DEF Step
  <2>4. CASE Stays(q) /\ Spread(q, S, C)
    BY <2>1, <2>2, <2>4 DEF Stays, Spread, InstanceTyped, KnownTyped, BridgesOf
  <2>5. CASE Renewed(q)
    BY <2>1, <2>2, <2>5, FS_EmptySet, NothingKnown DEF Renewed, InstanceTyped, KnownTyped
  <2>6. CASE Reconnect(q)
    <3>1. /\ q \in up /\ entry' = entry /\ up' = up /\ sending' = sending
          /\ known' = known /\ topicUid' = topicUid /\ diag' = diag /\ registry' = registry
      BY <2>6 DEF Reconnect, memory
    <3> QED
      BY <2>1, <2>2, <3>1 DEF InstanceTyped, KnownTyped, BridgesOf
  <2>7. CASE Receive(q)
    <3>1. q \in up /\ entry' = entry /\ up' = up /\ sending' = sending
      BY <2>7, ReceiveOwn
    <3>2. /\ registry'[q] \subseteq Uid /\ IsFiniteSet(registry'[q])
          /\ KnownTyped(q)' /\ diag'[q] \subseteq BridgesOf(DOMAIN known[q], q)'
      BY <1>1, <2>1, <2>7, ReceiveTyped
    <3> QED
      BY <2>1, <2>2, <3>1, <3>2 DEF InstanceTyped
  <2>8. ASSUME NEW u \in registry[q], Depublish(q, u[1]) PROVE InstanceTyped(q)'
    <3> DEFINE gone == LastSeen(q, Live(q, u[1]))
               old == Obsolete(q, u[1])
    <3>1. /\ q \in up /\ UNCHANGED <<entry, up, sending, missed>>
          /\ known' = [known EXCEPT ![q] = Drop(@, gone)]
          /\ diag' = [diag EXCEPT ![q] = (@ \cap BridgesOf(DOMAIN known[q] \ gone, q)) \ {u[1]}]
          /\ registry' = [registry EXCEPT ![q] = @ \ (old \cup gone)]
      BY <2>1, <2>8, DepublishEffect
    <3> HIDE DEF gone, old
    <3>2. /\ known'[q] = Drop(known[q], gone)
          /\ diag'[q] \subseteq BridgesOf(DOMAIN known[q] \ gone, q)
          /\ registry'[q] \subseteq registry[q]
      BY <1>1, <3>1 DEF Shape
    <3>3. KnownTyped(q)' /\ diag'[q] \subseteq BridgesOf(DOMAIN known[q], q)'
      BY <2>1, <3>2, DroppedTyped DEF InstanceTyped
    <3>4. registry'[q] \subseteq Uid /\ IsFiniteSet(registry'[q])
      BY <2>1, <3>2, FS_Subset DEF InstanceTyped
    <3> QED
      BY <2>1, <2>2, <3>1, <3>3, <3>4 DEF InstanceTyped
  <2> QED
    BY <2>3, <2>4, <2>5, <2>6, <2>7, <2>8
<1> QED
  BY <1>1, <1>2, <1>3 DEF Typed

LEMMA TypedInit == Init => Typed
<1> SUFFICES ASSUME Init PROVE Typed
  OBVIOUS
<1>1. Shape
  BY Beginning DEF Init, Shape
<1>2. StoreTyped
  BY Beginning DEF Init, StoreTyped
<1>3. ASSUME NEW q \in Instance PROVE InstanceTyped(q)
  <2>1. /\ entry[q] \in Acceptable(q) \cup {None} /\ inbox[q] = <<>> /\ q \notin up
        /\ registry[q] = {} /\ known[q] = Nothing /\ topicUid[q] = Nothing /\ diag[q] = {}
        /\ sending[q] = {}
    BY <1>3, Beginning DEF Init
  <2>2. <<>> \in Seq(Msg)
    OBVIOUS
  <2> QED
    BY <2>1, <2>2, FS_EmptySet, NothingKnown DEF InstanceTyped, KnownTyped
<1> QED
  BY <1>1, <1>2, <1>3 DEF Typed

\* Entries stay acceptable, every message is well-formed, and everything an
\* instance remembers is about the entities announced to it.
THEOREM TypedHolds == Spec => []Typed
<1>1. Typed /\ [Next]_vars => Typed'
  BY TypedStep
<1> QED
  BY <1>1, TypedInit, PTL DEF Spec

(***************************************************************************)
(* Nobody shows its own                                                    *)
(***************************************************************************)
\* What an instance shows carries another slug than its own; is_own_message
\* sees to it by the unique id alone.
Foreigners(q) == q \in up => \A u \in DOMAIN known[q] : u[1] # Slug(q)

\* What a step can add to the entities of a running instance.
LEMMA KnownStep ==
  ASSUME Typed, NEW q \in Instance, Step(q), q \in up'
  PROVE  \/ /\ known'[q] = Nothing /\ topicUid'[q] = Nothing
            /\ inbox'[q] = Redelivered(entry'[q].prefix, retained')
         \/ /\ q \in up /\ entry'[q] = entry[q]
            /\ \/ DOMAIN known'[q] \subseteq DOMAIN known[q]
               \/ /\ ReceiveDiscovery(q, Head(inbox[q]).topic)
                  /\ DOMAIN known'[q] = DOMAIN known[q] \cup {UidOf(Head(inbox[q]))}
<1>1. InstanceTyped(q) /\ Shape
  BY DEF Typed
<1>2. PICK S \in SUBSET Msg, C \in SUBSET Msg :
        \/ Stays(q) /\ Spread(q, S, C)
        \/ Renewed(q) \/ Reconnect(q) \/ Receive(q)
        \/ \E u \in registry[q] : Depublish(q, u[1])
  BY Zenon DEF Step
<1>3. CASE Stays(q)
  BY <1>3 DEF Stays
<1>4. CASE Renewed(q)
  BY <1>4 DEF Renewed
<1>5. CASE Reconnect(q)
  BY <1>5 DEF Reconnect, memory
<1>6. CASE Receive(q)
  <2> DEFINE t == Head(inbox[q]).topic
  <2>1. q \in up /\ entry'[q] = entry[q]
    BY <1>6, ReceiveOwn
  <2>2. CASE ReceiveRemoval(q, t)
    <3> DEFINE gone == LastSeen(q, {t}) \cap DOMAIN known[q]
    <3>1. known'[q] = Drop(known[q], gone)
      BY <1>1, <2>2, RemovalEffect
    <3> HIDE DEF gone
    <3>2. DOMAIN known'[q] \subseteq DOMAIN known[q]
      BY <3>1 DEF Drop
    <3> QED
      BY <2>1, <3>2
  <2>3. CASE ReceiveDiscovery(q, t)
    <3> DEFINE u == UidOf(Head(inbox[q]))
    <3>1. known'[q] = Put(known[q], u, known'[q][u])
      BY <1>1, <2>3, DiscoveryEffect
    <3> HIDE DEF u
    <3>2. DOMAIN known'[q] = DOMAIN known[q] \cup {u}
      BY <3>1 DEF Put
    <3> QED
      BY <2>1, <2>3, <3>2 DEF u
  <2>4. CASE ReceiveMetadata(q, t)
    BY <2>1, <2>4 DEF ReceiveMetadata
  <2>5. CASE ReceiveState(q, t)
    BY <1>1, <2>1, <2>5, StateEffect
  <2>6. CASE Ignore(q, t)
    BY <2>1, <2>6 DEF Ignore, memory
  <2> QED
    BY <1>6, <2>2, <2>3, <2>4, <2>5, <2>6, Zenon DEF Receive
<1>7. ASSUME NEW u \in registry[q], Depublish(q, u[1])
      PROVE  q \in up /\ entry'[q] = entry[q] /\ DOMAIN known'[q] \subseteq DOMAIN known[q]
  <2> DEFINE gone == LastSeen(q, Live(q, u[1]))
  <2>1. /\ q \in up /\ entry' = entry /\ known' = [known EXCEPT ![q] = Drop(@, gone)]
    BY <1>1, <1>7, DepublishEffect
  <2> HIDE DEF gone
  <2> QED
    BY <1>1, <2>1 DEF Shape, Drop
<1> QED
  BY <1>2, <1>3, <1>4, <1>5, <1>6, <1>7

LEMMA ForeignersStep ==
  ASSUME Typed, NEW q \in Instance, Step(q), Foreigners(q)
  PROVE  Foreigners(q)'
<1> SUFFICES ASSUME q \in up', NEW u \in DOMAIN known'[q] PROVE u[1] # Slug(q)'
  BY DEF Foreigners
<1>1. CASE known'[q] = Nothing
  BY <1>1, NothingKnown
<1>2. CASE /\ q \in up /\ entry'[q] = entry[q]
           /\ DOMAIN known'[q] \subseteq DOMAIN known[q]
  BY <1>2 DEF Foreigners, Slug
<1>3. CASE /\ q \in up /\ entry'[q] = entry[q]
           /\ ReceiveDiscovery(q, Head(inbox[q]).topic)
           /\ DOMAIN known'[q] = DOMAIN known[q] \cup {UidOf(Head(inbox[q]))}
  <2>1. UidOf(Head(inbox[q]))[1] # Slug(q)
    BY <1>3, DiscoveryEffect DEF Typed
  <2> QED
    BY <1>3, <2>1 DEF Foreigners, Slug
<1> QED
  BY <1>1, <1>2, <1>3, KnownStep

ShowsForeigners == Typed /\ \A q \in Instance : Foreigners(q)

LEMMA ShowsForeignersStep == ShowsForeigners /\ [Next]_vars => ShowsForeigners'
<1> SUFFICES ASSUME ShowsForeigners, [Next]_vars PROVE ShowsForeigners'
  OBVIOUS
<1>1. Typed /\ Typed'
  BY TypedStep DEF ShowsForeigners
<1>2. ASSUME NEW q \in Instance PROVE Foreigners(q)'
  BY <1>1, Steps, ForeignersStep DEF ShowsForeigners
<1> QED
  BY <1>1, <1>2 DEF ShowsForeigners

LEMMA ShowsForeignersInit == Init => ShowsForeigners
<1>1. Init => up = {}
  BY DEF Init
<1> QED
  BY <1>1, TypedInit DEF ShowsForeigners, Foreigners

\* As long as a bridge keeps its slug no instance materializes its own entities
\* from echoes or from what an earlier version left, nor its own diagnostics.
THEOREM NoSelfHolds ==
  ASSUME KeepsName
  PROVE  Spec => []NoSelf
<1>1. ShowsForeigners => NoSelf
  <2> SUFFICES ASSUME ShowsForeigners, NEW p \in up
      PROVE /\ \A u \in DOMAIN known[p] : ~Of(p, u)
            /\ Slug(p) \notin diag[p]
    BY DEF NoSelf
  <2>1. p \in Instance /\ InstanceTyped(p) /\ Foreigners(p)
    BY DEF ShowsForeigners, Typed, Shape
  <2>2. Slug(p) \in Slugs(p)
    BY <2>1, EntryOf DEF InstanceTyped
  <2>3. \A u \in DOMAIN known[p] : ~Of(p, u)
    BY <2>1, <2>2 DEF KeepsName, Foreigners, Of
  <2>4. diag[p] \subseteq {u[1] : u \in DOMAIN known[p]}
    BY <2>1, Bridges DEF InstanceTyped
  <2>5. Slug(p) \notin diag[p]
    BY <2>1, <2>4 DEF Foreigners
  <2> QED
    BY <2>3, <2>5
<1> QED
  BY <1>1, ShowsForeignersInit, ShowsForeignersStep, PTL DEF Spec
=============================================================================
