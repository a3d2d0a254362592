--------------------------- MODULE PipelineProofs ---------------------------
(***************************************************************************)
(* Proofs about Pipeline, for any families, labels and settings.           *)
(***************************************************************************)
EXTENDS Pipeline, SequenceTheorems, FiniteSetTheorems, WellFoundedInduction, TLAPS

-----------------------------------------------------------------------------
(* Induction and recursion over the natural numbers.                       *)

\* A set of natural numbers has a least one, so what holds of 0 and goes on from each
\* number to the next holds of all.
LEMMA LeastNatural ==
  ASSUME NEW T \in SUBSET Nat, T # {}
  PROVE  \E x \in T : \A y \in T : x <= y
<1>. DEFINE R == OpToRel(<, Nat)
<1>1. IsWellFoundedOn(R, Nat)
  BY NatLessThanWellFounded
<1>2. \A x, y \in Nat : <<y, x>> \in R <=> y < x
  BY DEF OpToRel
<1>. HIDE DEF R
<1>3. PICK x \in T : \A y \in T : ~ (<<y, x>> \in R)
  BY <1>1, WFMin
<1>4. ASSUME NEW y \in T PROVE x <= y
  <2>1. x \in Nat /\ y \in Nat
    OBVIOUS
  <2>2. ~ (y < x)
    BY <1>2, <1>3, <2>1
  <2>. QED  BY <2>1, <2>2
<1>. QED  BY <1>4

LEMMA Induction ==
  ASSUME NEW T \in SUBSET Nat, 0 \in T, \A m \in T : m + 1 \in T
  PROVE  T = Nat
<1>. SUFFICES ASSUME Nat \ T # {} PROVE FALSE
  OBVIOUS
<1>1. PICK x \in Nat \ T : \A y \in Nat \ T : x <= y
  BY LeastNatural
<1>2. x - 1 \in Nat /\ x - 1 \in T
  BY <1>1
<1>. QED  BY <1>1, <1>2

\* A function can be defined by what it does at 0 and how it goes on.
IsDefined(S, a, n, step) ==
  \E g \in [0..n -> S] : g[0] = a /\ \A m \in 1..n : g[m] = step[m][g[m - 1]]

LEMMA Recursion ==
  ASSUME NEW S, NEW a \in S, NEW n \in Nat, NEW step \in [1..n -> [S -> S]]
  PROVE  IsDefined(S, a, n, step)
<1>. DEFINE Goes(g, m) == g[0] = a /\ \A l \in 1..m : g[l] = step[l][g[l - 1]]
            T == {m \in Nat : m <= n => \E g \in [0..m -> S] : Goes(g, m)}
<1>1. 0 \in T
  <2>. DEFINE g == [l \in 0..0 |-> a]
  <2>1. g \in [0..0 -> S] /\ Goes(g, 0)
    OBVIOUS
  <2>. HIDE DEF g
  <2>. QED  BY <2>1
<1>2. ASSUME NEW m \in T PROVE m + 1 \in T
  <2>. SUFFICES ASSUME m + 1 <= n PROVE \E h \in [0..(m + 1) -> S] : Goes(h, m + 1)
    <3>. HIDE DEF Goes
    <3>. QED  OBVIOUS
  <2>1. PICK g \in [0..m -> S] : Goes(g, m)
    BY <1>2
  <2>2. m \in Nat /\ m + 1 \in 1..n /\ g[m] \in S
    BY <2>1
  <2>. DEFINE h == [l \in 0..(m + 1) |-> IF l = m + 1 THEN step[m + 1][g[m]] ELSE g[l]]
  <2>3. h \in [0..(m + 1) -> S]
    BY <2>1, <2>2
  <2>4. h[m + 1] = step[m + 1][g[m]] /\ \A l \in 0..m : h[l] = g[l]
    BY <2>2
  <2>. HIDE DEF h
  <2>5. ASSUME NEW l \in 1..(m + 1) PROVE h[l] = step[l][h[l - 1]]
    <3>1. CASE l = m + 1
      BY <2>2, <2>4, <3>1
    <3>2. CASE l # m + 1
      <4>1. l \in 1..m /\ l \in 0..m /\ l - 1 \in 0..m
        BY <2>2, <3>2
      <4>. QED  BY <2>1, <2>4, <4>1
    <3>. QED  BY <3>1, <3>2
  <2>6. Goes(h, m + 1)
    BY <2>1, <2>2, <2>4, <2>5
  <2>. QED  BY <2>3, <2>6
<1>. HIDE DEF Goes
<1>3. n \in T
  <2>1. T \in SUBSET Nat
    OBVIOUS
  <2>. HIDE DEF T
  <2>. QED  BY <1>1, <1>2, <2>1, Induction
<1>. QED  BY <1>3 DEF Goes, IsDefined

USE PipelineAssumption

-----------------------------------------------------------------------------
(* The inductive invariant: what the transformers that were applied to a   *)
(* family have made of it.                                                 *)

TimeSeries ==
  [family : Nat, id : Nat, name : STRING, labels : [LabelNames -> Nat], time : Nat \cup {NoTime}]

TypeOK ==
  /\ \/ stages = Stages /\ input \in Inputs
     \/ stages = LibraryStages /\ input \in LibraryInputs
  /\ families \in Seq(MetricFamily \cup {Nil})
  /\ at \in Nat \ {0}
  /\ stage \in 1..Len(stages)
  /\ latest \in Nat
  /\ hashes \in [AllPairs -> Nat]
  /\ series \in Seq(TimeSeries)
  /\ pc \in {"filter", "pack", "convert", "done", "failed", "unsupported"}

\* How many transformers were applied to the family at position f.
Applied(f) ==
  IF pc \notin {"filter", "failed"} \/ f < at THEN Len(stages)
  ELSE IF f = at THEN stage - 1 ELSE 0

\* The metrics of a family f have ids of their own, those of samples that were
\* retrieved, and label pairs of their own or of f, with different names.
OwnLabels(f, shape) ==
  /\ \A k, l \in DOMAIN f.metric :
       f.metric[k] # Nil /\ f.metric[l] # Nil /\ f.metric[k].id = f.metric[l].id => k = l
  /\ \A m \in Metrics(f) :
       /\ m.id \in DOMAIN shape.samples
       /\ \A p \in m.labels : p.family = f.index /\ p.metric \in {0, m.id}
       /\ \A p, q \in m.labels : p.name = q.name => p = q

\* The names of the labels of a sample after the first n transformers.
LabelsAfter(labels, n) ==
  ((labels \cup (IF n >= 1 THEN Added ELSE {})) \ (IF n >= 3 THEN Elided ELSE {}))
    \ (IF n >= 4 THEN TooLong ELSE {})

\* After n transformers of the collector a family f has exactly the samples that
\* are to be left, and these are as they are to be.
CollectorFamily(f, shape, n) ==
  /\ f.type = shape.type
  /\ f.name = IF n >= 2 THEN Rename(shape).name ELSE shape.name
  /\ \A m \in Metrics(f) :
       /\ m.time = shape.samples[m.id].time /\ m.typed = shape.samples[m.id].typed
       /\ Names(m) = LabelsAfter(shape.samples[m.id].labels, n)
  /\ {m.id : m \in Metrics(f)} = {k \in DOMAIN shape.samples : n >= 4 => SampleValid(shape.samples[k])}
  /\ n # 4 => Nil \notin ToSet(f.metric)
  /\ n >= 4 => FamilyValid(f)
  /\ n >= 5 => f.metric # <<>>
  /\ n >= 6 => \A k, l \in DOMAIN f.metric : k < l => ~Earlier(f.metric[l], f.metric[k])

\* Of the other transformers, those before "pack" may leave nil metrics.
LibraryFamily(f, n) == n = 0 \/ n >= 6 => Nil \notin ToSet(f.metric)

FamiliesInv ==
  \A f \in DOMAIN families : families[f] # Nil =>
    LET shape == input[families[f].index] IN
    /\ families[f].index \in DOMAIN input
    /\ OwnLabels(families[f], shape)
    /\ stages = Stages => CollectorFamily(families[f], shape, Applied(f))
    /\ stages = LibraryStages => LibraryFamily(families[f], Applied(f))

\* A family that is to be left: it is valid and has a valid sample.
ToBeLeft(shape) ==
  FamilyValid(Rename(shape)) /\ \E k \in DOMAIN shape.samples : SampleValid(shape.samples[k])

\* Families keep their places until Pack, which keeps those that are left.
PlacesInv ==
  /\ pc \in {"filter", "pack"} =>
       /\ Len(families) = Len(input) /\ at <= Len(families) + 1
       /\ \A f \in DOMAIN families : families[f] # Nil => families[f].index = f
  /\ pc = "filter" => \A f \in DOMAIN families : f >= at => families[f] # Nil
  /\ pc = "pack" => at = Len(families) + 1
  /\ pc \in {"convert", "done", "unsupported"} => Nil \notin ToSet(families)
  /\ \A f, g \in DOMAIN families :
       families[f] # Nil /\ families[g] # Nil /\ families[f].index = families[g].index => f = g
  /\ stages = Stages => \A g \in DOMAIN input : ToBeLeft(input[g]) =>
       \E f \in DOMAIN families : families[f] # Nil /\ families[f].index = g

\* A value is hashed after everything else was done to its family.
HashesInv ==
  /\ \A p \in AllPairs :
       \/ p.name \notin Anonymized \ Blank
       \/ stages = LibraryStages
       \/ pc \in {"filter", "failed"} /\ p.family >= at
       => hashes[p] = 0
  /\ stages = Stages => \A f \in DOMAIN families :
       families[f] # Nil /\ Applied(f) = Len(stages) =>
         \A m \in Metrics(families[f]) : \A p \in m.labels : p.name \in Anonymized \ Blank =>
           hashes[p] >= 1 /\ (p.metric # 0 => hashes[p] = 1)

\* The conversion has made one series for each metric of the families before at.
SeriesInv ==
  /\ pc \in {"filter", "pack", "failed"} => series = <<>>
  /\ pc \in {"convert", "done", "unsupported"} =>
       /\ at <= Len(families) + 1
       /\ \A f \in DOMAIN families : f < at => families[f].type = "simple"
       /\ ToSet(series) = UNION {{Series(families[f], m) : m \in Metrics(families[f])} : f \in 1..(at - 1)}
       /\ \A n, l \in DOMAIN series : series[n] = series[l] => n = l
  /\ pc = "done" => at > Len(families)
  /\ pc = "unsupported" => at <= Len(families) /\ families[at].type # "simple"

IndInv == TypeOK /\ FamiliesInv /\ PlacesInv /\ HashesInv /\ SeriesInv

-----------------------------------------------------------------------------
(* Sequences, families and their metrics.                                  *)

LEMMA FunctionIsSeq ==
  ASSUME NEW S, NEW n \in Nat, NEW f \in [1..n -> S]
  PROVE  f \in Seq(S) /\ Len(f) = n /\ DOMAIN f = 1..n
  OBVIOUS

\* A concatenation has the elements of both, once if they are different.
LEMMA ConcatElements ==
  ASSUME NEW S, NEW a \in Seq(S), NEW b \in Seq(S)
  PROVE  /\ a \o b \in Seq(S) /\ ToSet(a \o b) = ToSet(a) \cup ToSet(b)
         /\ /\ \A k, l \in DOMAIN a : a[k] = a[l] => k = l
            /\ \A k, l \in DOMAIN b : b[k] = b[l] => k = l
            /\ \A k \in DOMAIN a : \A l \in DOMAIN b : a[k] # b[l]
            => \A k, l \in DOMAIN (a \o b) : (a \o b)[k] = (a \o b)[l] => k = l
<1>. DEFINE c == a \o b
<1>1. /\ c \in Seq(S) /\ Len(c) = Len(a) + Len(b)
      /\ \A k \in 1..(Len(a) + Len(b)) : c[k] = IF k <= Len(a) THEN a[k] ELSE b[k - Len(a)]
      /\ Len(a) \in Nat /\ Len(b) \in Nat
      /\ DOMAIN a = 1..Len(a) /\ DOMAIN b = 1..Len(b) /\ DOMAIN c = 1..(Len(a) + Len(b))
  BY ConcatProperties, LenProperties
<1>. HIDE DEF c
<1>2. \A k \in DOMAIN a : k \in DOMAIN c /\ c[k] = a[k]
  BY <1>1
<1>3. ASSUME NEW k \in DOMAIN b PROVE k + Len(a) \in DOMAIN c /\ c[k + Len(a)] = b[k]
  <2>1. k + Len(a) \in 1..(Len(a) + Len(b)) /\ ~(k + Len(a) <= Len(a)) /\ (k + Len(a)) - Len(a) = k
    BY <1>1
  <2>. QED  BY <1>1, <2>1
<1>4. ASSUME NEW k \in DOMAIN c
      PROVE  \/ k \in DOMAIN a /\ c[k] = a[k]
             \/ k - Len(a) \in DOMAIN b /\ k \notin DOMAIN a /\ c[k] = b[k - Len(a)]
  BY <1>1
<1>5. ToSet(c) = ToSet(a) \cup ToSet(b)
  BY <1>2, <1>3, <1>4 DEF ToSet
<1>6. ASSUME \A k, l \in DOMAIN a : a[k] = a[l] => k = l,
             \A k, l \in DOMAIN b : b[k] = b[l] => k = l,
             \A k \in DOMAIN a : \A l \in DOMAIN b : a[k] # b[l],
             NEW k \in DOMAIN c, NEW l \in DOMAIN c, c[k] = c[l]
      PROVE  k = l
  <2>0. k \in Nat /\ l \in Nat
    BY <1>1
  <2>1. CASE k \in DOMAIN a /\ l \in DOMAIN a
    BY <1>2, <1>6, <2>1
  <2>2. CASE k \in DOMAIN a /\ l \notin DOMAIN a
    BY <1>2, <1>4, <1>6, <2>2
  <2>3. CASE k \notin DOMAIN a /\ l \in DOMAIN a
    BY <1>2, <1>4, <1>6, <2>3
  <2>4. CASE k \notin DOMAIN a /\ l \notin DOMAIN a
    <3>1. k - Len(a) = l - Len(a)
      BY <1>4, <1>6, <2>4
    <3>. QED  BY <1>1, <2>0, <3>1
  <2>. QED  BY <2>1, <2>2, <2>3, <2>4
<1>. QED  BY <1>1, <1>5, <1>6 DEF c

\* An enumeration of a finite set has all its elements, once.
LEMMA Enumeration ==
  ASSUME NEW S, IsFiniteSet(S), NEW h \in SetToSeqs(S)
  PROVE  /\ h \in Seq(S)
         /\ \A k, l \in DOMAIN h : h[k] = h[l] => k = l
         /\ \A e \in S : \E k \in DOMAIN h : h[k] = e
<1>. DEFINE D == 1..Cardinality(S)
<1>1. Cardinality(S) \in Nat
  BY FS_CardinalityType
<1>2. h \in [D -> S] /\ \A k, l \in D : k # l => h[k] # h[l]
  BY DEF SetToSeqs
<1>3. IsFiniteSet(D) /\ Cardinality(D) = Cardinality(S)
  <2>1. 1 \in Int /\ Cardinality(S) \in Int
    BY <1>1
  <2>2. /\ IsFiniteSet(D)
        /\ Cardinality(D) = IF 1 > Cardinality(S) THEN 0 ELSE Cardinality(S) - 1 + 1
    BY <2>1, FS_Interval
  <2>. HIDE DEF D
  <2>. QED  BY <1>1, <2>2
<1>4. h \in Injection(D, S)
  BY <1>2 DEF Injection, IsInjective
<1>5. h \in Surjection(D, S)
  BY <1>3, <1>4, FS_Injection
<1>6. h \in Seq(S) /\ DOMAIN h = D
  BY <1>1, <1>2, FunctionIsSeq
<1>. QED  BY <1>2, <1>5, <1>6 DEF Surjection

\* t has the elements of s at the positions P, which h enumerates, in their order.
Picks(t, s, P, h) ==
  /\ DOMAIN t = DOMAIN h
  /\ \A k \in DOMAIN h : h[k] \in P /\ t[k] = s[h[k]]
  /\ \A k, l \in DOMAIN h : k < l => h[k] < h[l]
  /\ \A k, l \in DOMAIN h : h[k] = h[l] => k = l
  /\ \A e \in P : \E k \in DOMAIN h : h[k] = e

LEMMA PackedElements ==
  ASSUME NEW S, NEW s \in Seq(S), NEW P \in SUBSET DOMAIN s, NEW t \in Packed(s, P)
  PROVE  t \in Seq(S) /\ \E h : Picks(t, s, P, h)
<1>1. IsFiniteSet(P)
  <2>1. DOMAIN s = 1..Len(s) /\ 1 \in Int /\ Len(s) \in Int
    BY LenProperties
  <2>. QED  BY <2>1, FS_Interval, FS_Subset
<1>2. PICK h \in SetToSeqs(P) :
        t = [k \in DOMAIN h |-> s[h[k]]] /\ \A k, l \in DOMAIN h : k < l => h[k] < h[l]
  BY DEF Packed
<1>3. /\ h \in Seq(P)
      /\ \A k, l \in DOMAIN h : h[k] = h[l] => k = l
      /\ \A e \in P : \E k \in DOMAIN h : h[k] = e
  BY <1>1, Enumeration
<1>4. \A k \in DOMAIN h : h[k] \in P /\ s[h[k]] \in S
  BY <1>3, ElementOfSeq, LenProperties
<1>5. DOMAIN h = 1..Len(h) /\ Len(h) \in Nat
  BY <1>3, LenProperties
<1>6. t \in [1..Len(h) -> S]
  BY <1>2, <1>4, <1>5
<1>7. t \in Seq(S) /\ DOMAIN t = DOMAIN h
  BY <1>5, <1>6, FunctionIsSeq
<1>8. Picks(t, s, P, h)
  BY <1>2, <1>3, <1>4, <1>7 DEF Picks
<1>. QED  BY <1>7, <1>8

LEMMA MetricsOfFamily ==
  ASSUME NEW f \in MetricFamily
  PROVE  /\ f.metric \in Seq(Metric \cup {Nil})
         /\ DOMAIN f.metric = 1..Len(f.metric) /\ Len(f.metric) \in Nat
         /\ \A k \in DOMAIN f.metric : f.metric[k] \in Metric \cup {Nil}
         /\ \A m : m \in Metrics(f) <=> m # Nil /\ \E k \in DOMAIN f.metric : f.metric[k] = m
         /\ Metrics(f) \subseteq Metric
         /\ Nil \in ToSet(f.metric) <=> \E k \in DOMAIN f.metric : f.metric[k] = Nil
<1>1. f.metric \in Seq(Metric \cup {Nil})
  BY DEF MetricFamily
<1>2. DOMAIN f.metric = 1..Len(f.metric) /\ Len(f.metric) \in Nat
  BY <1>1, LenProperties
<1>3. \A k \in DOMAIN f.metric : f.metric[k] \in Metric \cup {Nil}
  BY <1>1, <1>2, ElementOfSeq
<1>4. \A m : m \in Metrics(f) <=> m # Nil /\ \E k \in DOMAIN f.metric : f.metric[k] = m
  BY DEF Metrics, ToSet
<1>5. Nil \in ToSet(f.metric) <=> \E k \in DOMAIN f.metric : f.metric[k] = Nil
  BY DEF ToSet
<1>6. Metrics(f) \subseteq Metric
  BY <1>3, <1>4
<1>. QED  BY <1>1, <1>2, <1>3, <1>4, <1>5, <1>6

LEMMA FiniteMetrics ==
  ASSUME NEW f \in MetricFamily
  PROVE  IsFiniteSet(ToSet(f.metric)) /\ IsFiniteSet(Metrics(f))
<1>. DEFINE F == [k \in DOMAIN f.metric |-> f.metric[k]]
<1>1. IsFiniteSet(DOMAIN f.metric)
  <2>1. DOMAIN f.metric = 1..Len(f.metric) /\ 1 \in Int /\ Len(f.metric) \in Int
    BY MetricsOfFamily
  <2>. QED  BY <2>1, FS_Interval
<1>2. F \in Surjection(DOMAIN f.metric, ToSet(f.metric))
  BY DEF Surjection, ToSet
<1>3. IsFiniteSet(ToSet(f.metric))
  BY <1>1, <1>2, FS_Surjection
<1>. QED  BY <1>3, FS_Subset DEF Metrics

\* What a family and a metric are after an assignment to one field.
LEMMA WithMetrics ==
  ASSUME NEW f \in MetricFamily, NEW s \in Seq(Metric \cup {Nil})
  PROVE  /\ [f EXCEPT !.metric = s] \in MetricFamily
         /\ [f EXCEPT !.metric = s].metric = s
         /\ [f EXCEPT !.metric = s].index = f.index
         /\ [f EXCEPT !.metric = s].name = f.name
         /\ [f EXCEPT !.metric = s].type = f.type
  BY DEF MetricFamily

LEMMA WithLabels ==
  ASSUME NEW m \in Metric, NEW labels \in SUBSET LabelPair
  PROVE  /\ [m EXCEPT !.labels = labels] \in Metric
         /\ [m EXCEPT !.labels = labels].labels = labels
         /\ [m EXCEPT !.labels = labels].id = m.id
         /\ [m EXCEPT !.labels = labels].time = m.time
         /\ [m EXCEPT !.labels = labels].typed = m.typed
  BY DEF Metric

LEMMA WithTime ==
  ASSUME NEW m \in Metric, NEW time \in Nat \cup {NoTime}
  PROVE  /\ [m EXCEPT !.time = time] \in Metric
         /\ [m EXCEPT !.time = time].labels = m.labels
         /\ [m EXCEPT !.time = time].id = m.id
  BY DEF Metric

-----------------------------------------------------------------------------
(* Label pairs of a metric: its own or its family's, with different names. *)

OwnPairs(id, labels, index) ==
  /\ \A p \in labels : p.family = index /\ p.metric \in {0, id}
  /\ \A p, q \in labels : p.name = q.name => p = q

\* The names of the pairs that appendLabels leaves.
LEMMA Appended ==
  ASSUME NEW labels \in SUBSET LabelPair, NEW id, OwnPairs(id, labels, at), at \in Nat
  PROVE  /\ AppendLabels(labels) \in SUBSET LabelPair
         /\ OwnPairs(id, AppendLabels(labels), at)
         /\ {p.name : p \in AppendLabels(labels)} = {p.name : p \in labels} \cup Added
<1>1. \A name \in Added : Pair(at, 0, name) \in LabelPair /\ Pair(at, 0, name) \in AddedPairs
                        /\ Pair(at, 0, name).name = name
  BY DEF Pair, LabelPair, AddedPairs
<1>2. \A p \in AddedPairs : p \in LabelPair /\ p.family = at /\ p.metric = 0 /\ p.name \in Added
                        /\ p = Pair(at, 0, p.name)
  BY DEF Pair, LabelPair, AddedPairs
<1>3. AppendLabels(labels) \in SUBSET LabelPair
  BY <1>2 DEF AppendLabels
<1>4. OwnPairs(id, AppendLabels(labels), at)
  <2>1. \A p \in AppendLabels(labels) : p.family = at /\ p.metric \in {0, id}
    BY <1>2 DEF AppendLabels, OwnPairs
  <2>2. ASSUME NEW p \in AppendLabels(labels), NEW q \in AppendLabels(labels), p.name = q.name
        PROVE  p = q
    <3>1. CASE p \in AddedPairs
      <4>1. q \in AddedPairs
        BY <1>2, <2>2, <3>1 DEF AppendLabels
      <4>. QED  BY <1>2, <2>2, <3>1, <4>1
    <3>2. CASE p \notin AddedPairs
      <4>1. p \in labels /\ p.name \notin Added
        BY <2>2, <3>2 DEF AppendLabels
      <4>2. q \in labels
        BY <1>2, <2>2, <4>1 DEF AppendLabels
      <4>. QED  BY <2>2, <4>1, <4>2 DEF OwnPairs
    <3>. QED  BY <3>1, <3>2
  <2>. QED  BY <2>1, <2>2 DEF OwnPairs
<1>5. {p.name : p \in AppendLabels(labels)} = {p.name : p \in labels} \cup Added
  <2>1. ASSUME NEW p \in AppendLabels(labels) PROVE p.name \in {q.name : q \in labels} \cup Added
    BY <1>2, <2>1 DEF AppendLabels
  <2>2. ASSUME NEW p \in labels PROVE p.name \in {q.name : q \in AppendLabels(labels)}
    <3>1. CASE p.name \in Added
      BY <1>1, <3>1 DEF AppendLabels
    <3>2. CASE p.name \notin Added
      BY <3>2 DEF AppendLabels
    <3>. QED  BY <3>1, <3>2
  <2>3. ASSUME NEW name \in Added PROVE name \in {q.name : q \in AppendLabels(labels)}
    BY <1>1 DEF AppendLabels
  <2>. QED  BY <2>1, <2>2, <2>3
<1>. QED  BY <1>3, <1>4, <1>5

\* The names of the pairs that are left when some names are dropped.
LEMMA Left ==
  ASSUME NEW labels \in SUBSET LabelPair, NEW id, NEW index, OwnPairs(id, labels, index), NEW X
  PROVE  /\ {p \in labels : p.name \notin X} \in SUBSET LabelPair
         /\ OwnPairs(id, {p \in labels : p.name \notin X}, index)
         /\ {p.name : p \in {p \in labels : p.name \notin X}} = {p.name : p \in labels} \ X
  BY DEF OwnPairs

LEMMA Dropped ==
  ASSUME NEW m \in Metric, NEW index, NEW X, OwnPairs(m.id, m.labels, index),
         NEW n, n = [m EXCEPT !.labels = {p \in m.labels : p.name \notin X}]
  PROVE  /\ n \in Metric /\ n.id = m.id /\ n.time = m.time /\ n.typed = m.typed
         /\ OwnPairs(n.id, n.labels, index) /\ Names(n) = Names(m) \ X
<1>. DEFINE labels == {p \in m.labels : p.name \notin X}
<1>1. /\ labels \in SUBSET LabelPair /\ OwnPairs(m.id, labels, index)
      /\ {p.name : p \in labels} = {p.name : p \in m.labels} \ X
  BY Left DEF Metric
<1>2. n = [m EXCEPT !.labels = labels]
  OBVIOUS
<1>. HIDE DEF labels
<1>3. /\ n \in Metric /\ n.labels = labels /\ n.id = m.id /\ n.time = m.time /\ n.typed = m.typed
  <2>. DEFINE e == [m EXCEPT !.labels = labels]
  <2>1. e \in Metric /\ e.labels = labels /\ e.id = m.id /\ e.time = m.time /\ e.typed = m.typed
    BY <1>1, WithLabels
  <2>. QED  BY <1>2, <2>1
<1>. QED  BY <1>1, <1>3 DEF Names

-----------------------------------------------------------------------------
(* The transformers of the collector.  A metric of f is, or becomes nil, or *)
(* keeps its id: what holds of each holds of the family.                    *)

\* The metric at k of f is replaced by the one at k of g.
Replaces(f, g, k) ==
  g.metric[k] # Nil =>
    /\ f.metric[k] # Nil /\ g.metric[k].id = f.metric[k].id
    /\ OwnPairs(g.metric[k].id, g.metric[k].labels, f.index)

LEMMA ReplacedOwnLabels ==
  ASSUME NEW f \in MetricFamily, NEW g \in MetricFamily, NEW shape, OwnLabels(f, shape),
         g.index = f.index, DOMAIN g.metric = DOMAIN f.metric,
         \A k \in DOMAIN f.metric : Replaces(f, g, k)
  PROVE  OwnLabels(g, shape)
<1>1. \A k, l \in DOMAIN g.metric :
        g.metric[k] # Nil /\ g.metric[l] # Nil /\ g.metric[k].id = g.metric[l].id => k = l
  BY DEF Replaces, OwnLabels
<1>2. ASSUME NEW m \in Metrics(g)
      PROVE  m.id \in DOMAIN shape.samples /\ OwnPairs(m.id, m.labels, g.index)
  <2>1. PICK k \in DOMAIN g.metric : g.metric[k] = m /\ m # Nil
    BY MetricsOfFamily
  <2>2. f.metric[k] \in Metrics(f) /\ m.id = f.metric[k].id /\ OwnPairs(m.id, m.labels, g.index)
    BY <2>1, MetricsOfFamily DEF Replaces
  <2>. QED  BY <2>2 DEF OwnLabels
<1>. QED  BY <1>1, <1>2 DEF OwnLabels, OwnPairs

\* What CollectorFamily says of one metric.
MetricAfter(m, shape, n) ==
  /\ m.time = shape.samples[m.id].time /\ m.typed = shape.samples[m.id].typed
  /\ Names(m) = LabelsAfter(shape.samples[m.id].labels, n)

\* Every metric is kept, and rewritten, by the n-th transformer.
LEMMA Rewritten ==
  ASSUME NEW f \in MetricFamily, NEW g \in MetricFamily, NEW shape, NEW n \in 1..3,
         OwnLabels(f, shape), CollectorFamily(f, shape, n - 1),
         g.index = f.index, g.type = f.type, DOMAIN g.metric = DOMAIN f.metric,
         g.name = (IF n >= 2 THEN Rename(shape).name ELSE shape.name),
         \A k \in DOMAIN f.metric :
           g.metric[k] # Nil /\ Replaces(f, g, k) /\ MetricAfter(g.metric[k], shape, n)
  PROVE  OwnLabels(g, shape) /\ CollectorFamily(g, shape, n)
<1>1. OwnLabels(g, shape)
  BY ReplacedOwnLabels
<1>2. Nil \notin ToSet(f.metric) /\ Nil \notin ToSet(g.metric)
  BY MetricsOfFamily DEF CollectorFamily
<1>3. \A m \in Metrics(g) : MetricAfter(m, shape, n)
  BY MetricsOfFamily
<1>4. {m.id : m \in Metrics(g)} = {m.id : m \in Metrics(f)}
  <2>1. ASSUME NEW m \in Metrics(g) PROVE \E l \in Metrics(f) : l.id = m.id
    <3>1. PICK k \in DOMAIN g.metric : g.metric[k] = m
      BY MetricsOfFamily
    <3>. QED  BY <3>1, MetricsOfFamily DEF Replaces
  <2>2. ASSUME NEW m \in Metrics(f) PROVE \E l \in Metrics(g) : l.id = m.id
    <3>1. PICK k \in DOMAIN f.metric : f.metric[k] = m
      BY MetricsOfFamily
    <3>. QED  BY <3>1, MetricsOfFamily DEF Replaces
  <2>. QED  BY <2>1, <2>2
<1>5. {m.id : m \in Metrics(g)} = {k \in DOMAIN shape.samples : n >= 4 => SampleValid(shape.samples[k])}
  <2>1. ~(n >= 4) /\ ~(n - 1 >= 4)
    OBVIOUS
  <2>2. {m.id : m \in Metrics(f)} = {k \in DOMAIN shape.samples : n - 1 >= 4 => SampleValid(shape.samples[k])}
    BY Zenon DEF CollectorFamily
  <2>. QED  BY <1>4, <2>1, <2>2
<1>6. g.type = shape.type
  BY DEF CollectorFamily
<1>. QED  BY <1>1, <1>2, <1>3, <1>5, <1>6 DEF CollectorFamily, MetricAfter

LEMMA Labelled ==
  ASSUME NEW f \in MetricFamily, NEW shape, f.index = at,
         OwnLabels(f, shape), CollectorFamily(f, shape, 0)
  PROVE  /\ Label(f) \in MetricFamily /\ Label(f).index = at
         /\ OwnLabels(Label(f), shape) /\ CollectorFamily(Label(f), shape, 1)
<1>. DEFINE Op(m) == [m EXCEPT !.labels = AppendLabels(@)]
            s == [k \in DOMAIN f.metric |-> Op(f.metric[k])]
<1>1. \A k \in DOMAIN f.metric : f.metric[k] \in Metric /\ f.metric[k] \in Metrics(f)
  BY MetricsOfFamily DEF CollectorFamily
<1>2. ASSUME NEW k \in DOMAIN f.metric
      PROVE  /\ Op(f.metric[k]) \in Metric /\ Op(f.metric[k]).id = f.metric[k].id
             /\ OwnPairs(f.metric[k].id, Op(f.metric[k]).labels, at)
             /\ MetricAfter(Op(f.metric[k]), shape, 1)
  <2>. DEFINE m == f.metric[k]
              labels == AppendLabels(m.labels)
  <2>1. m \in Metric /\ m.labels \in SUBSET LabelPair /\ OwnPairs(m.id, m.labels, at) /\ at \in Nat
    BY <1>1 DEF OwnLabels, OwnPairs, Metric, MetricFamily
  <2>2. MetricAfter(m, shape, 0)
    BY <1>1 DEF CollectorFamily, MetricAfter
  <2>. HIDE DEF m
  <2>3. /\ labels \in SUBSET LabelPair /\ OwnPairs(m.id, labels, at)
        /\ {p.name : p \in labels} = {p.name : p \in m.labels} \cup Added
    BY <2>1, Appended
  <2>. HIDE DEF labels
  <2>4. Op(m) = [m EXCEPT !.labels = labels]
    BY DEF labels
  <2>. HIDE DEF Op
  <2>5. /\ Op(m) \in Metric /\ Op(m).labels = labels /\ Op(m).id = m.id
        /\ Op(m).time = m.time /\ Op(m).typed = m.typed
    <3>1. m \in Metric /\ labels \in SUBSET LabelPair
      BY <2>1, <2>3
    <3>2. /\ [m EXCEPT !.labels = labels] \in Metric
          /\ [m EXCEPT !.labels = labels].labels = labels
          /\ [m EXCEPT !.labels = labels].id = m.id
          /\ [m EXCEPT !.labels = labels].time = m.time
          /\ [m EXCEPT !.labels = labels].typed = m.typed
      BY ONLY <3>1, WithLabels
    <3>. QED  BY ONLY <2>4, <3>2
  <2>6. Names(Op(m)) = Names(m) \cup Added
    BY <2>3, <2>5 DEF Names
  <2>7. MetricAfter(Op(m), shape, 1)
    BY <2>2, <2>5, <2>6 DEF MetricAfter, LabelsAfter
  <2>. QED  BY <2>3, <2>5, <2>7 DEF m
<1>. HIDE DEF Op
<1>3. s \in Seq(Metric \cup {Nil}) /\ DOMAIN s = DOMAIN f.metric
  <2>1. s \in [1..Len(f.metric) -> Metric \cup {Nil}]
    BY <1>2, MetricsOfFamily
  <2>. QED  BY <2>1, MetricsOfFamily, FunctionIsSeq
<1>4. Label(f) = [f EXCEPT !.metric = s]
  BY DEF Label, EachMetric, Op
<1>. HIDE DEF s
<1>5. /\ Label(f) \in MetricFamily /\ Label(f).metric = s /\ Label(f).index = f.index
      /\ Label(f).name = f.name /\ Label(f).type = f.type
  <2>. DEFINE g == [f EXCEPT !.metric = s]
  <2>1. /\ g \in MetricFamily /\ g.metric = s /\ g.index = f.index
        /\ g.name = f.name /\ g.type = f.type
    BY <1>3, WithMetrics
  <2>. QED  BY <1>4, <2>1
<1>6. \A k \in DOMAIN f.metric : Label(f).metric[k] = Op(f.metric[k]) /\ Op(f.metric[k]) # Nil /\ f.metric[k] # Nil
  BY <1>1, <1>2, <1>5 DEF s
<1>7. f.name = shape.name
  BY DEF CollectorFamily
<1>8. \A k \in DOMAIN f.metric :
        Label(f).metric[k] # Nil /\ Replaces(f, Label(f), k) /\ MetricAfter(Label(f).metric[k], shape, 1)
  BY <1>2, <1>6 DEF Replaces
<1>9. OwnLabels(Label(f), shape) /\ CollectorFamily(Label(f), shape, 1)
  <2>1. CollectorFamily(f, shape, 1 - 1) /\ 1 \in 1..3
    OBVIOUS
  <2>2. Label(f).name = IF 1 >= 2 THEN Rename(shape).name ELSE shape.name
    BY <1>5, <1>7
  <2>. QED  BY <1>3, <1>5, <1>8, <2>1, <2>2, Rewritten
<1>. QED  BY <1>5, <1>9

LEMMA Renamed ==
  ASSUME NEW f \in MetricFamily, NEW shape \in Shape,
         OwnLabels(f, shape), CollectorFamily(f, shape, 1)
  PROVE  /\ Rename(f) \in MetricFamily /\ Rename(f).index = f.index
         /\ OwnLabels(Rename(f), shape) /\ CollectorFamily(Rename(f), shape, 2)
<1>1. /\ Rename(f) \in MetricFamily /\ Rename(f).metric = f.metric /\ Rename(f).index = f.index
      /\ Rename(f).type = f.type
      /\ Rename(f).name = IF f.name \in DOMAIN Renames THEN Renames[f.name] ELSE f.name
  BY DEF Rename, MetricFamily
<1>2. Rename(shape).name = IF shape.name \in DOMAIN Renames THEN Renames[shape.name] ELSE shape.name
  BY DEF Rename, Shape
<1>3. f.name = shape.name
  BY DEF CollectorFamily
<1>4. \A k \in DOMAIN f.metric : f.metric[k] # Nil /\ f.metric[k] \in Metrics(f)
  BY MetricsOfFamily DEF CollectorFamily
<1>5. \A k \in DOMAIN f.metric : Replaces(f, Rename(f), k)
  BY <1>1, <1>4 DEF Replaces, OwnLabels, OwnPairs
<1>6. \A k \in DOMAIN f.metric : MetricAfter(f.metric[k], shape, 1)
  BY <1>4 DEF CollectorFamily, MetricAfter
<1>7. \A k \in DOMAIN f.metric : MetricAfter(Rename(f).metric[k], shape, 2)
  BY <1>1, <1>6 DEF MetricAfter, LabelsAfter
<1>. QED
  <2>1. CollectorFamily(f, shape, 2 - 1) /\ 2 \in 1..3
    OBVIOUS
  <2>2. Rename(f).name = IF 2 >= 2 THEN Rename(shape).name ELSE shape.name
    BY <1>1, <1>2, <1>3
  <2>3. OwnLabels(Rename(f), shape) /\ CollectorFamily(Rename(f), shape, 2)
    BY <1>1, <1>4, <1>5, <1>7, <2>1, <2>2, Rewritten
  <2>. QED  BY <1>1, <2>3

LEMMA ElidedFamily ==
  ASSUME NEW f \in MetricFamily, NEW shape,
         OwnLabels(f, shape), CollectorFamily(f, shape, 2)
  PROVE  /\ Elide(f) \in MetricFamily /\ Elide(f).index = f.index
         /\ OwnLabels(Elide(f), shape) /\ CollectorFamily(Elide(f), shape, 3)
<1>. DEFINE Op(m) == [m EXCEPT !.labels = {p \in @ : p.name \notin Elided}]
            s == [k \in DOMAIN f.metric |-> Op(f.metric[k])]
<1>1. \A k \in DOMAIN f.metric : f.metric[k] \in Metric /\ f.metric[k] \in Metrics(f)
  BY MetricsOfFamily DEF CollectorFamily
<1>2. ASSUME NEW k \in DOMAIN f.metric
      PROVE  /\ Op(f.metric[k]) \in Metric /\ Op(f.metric[k]).id = f.metric[k].id
             /\ OwnPairs(f.metric[k].id, Op(f.metric[k]).labels, f.index)
             /\ MetricAfter(Op(f.metric[k]), shape, 3)
  <2>. DEFINE m == f.metric[k]
  <2>1. m \in Metric /\ OwnPairs(m.id, m.labels, f.index)
    BY <1>1 DEF OwnLabels, OwnPairs
  <2>2. MetricAfter(m, shape, 2)
    BY <1>1 DEF CollectorFamily, MetricAfter
  <2>. HIDE DEF m
  <2>3. Op(m) = [m EXCEPT !.labels = {p \in m.labels : p.name \notin Elided}]
    OBVIOUS
  <2>. HIDE DEF Op
  <2>4. /\ Op(m) \in Metric /\ Op(m).id = m.id /\ Op(m).time = m.time /\ Op(m).typed = m.typed
        /\ OwnPairs(Op(m).id, Op(m).labels, f.index) /\ Names(Op(m)) = Names(m) \ Elided
    BY <2>1, <2>3, Dropped
  <2>5. MetricAfter(Op(m), shape, 3)
    BY <2>2, <2>4 DEF MetricAfter, LabelsAfter
  <2>. QED  BY <2>4, <2>5 DEF m
<1>. HIDE DEF Op
<1>3. s \in Seq(Metric \cup {Nil}) /\ DOMAIN s = DOMAIN f.metric
  <2>1. s \in [1..Len(f.metric) -> Metric \cup {Nil}]
    BY <1>2, MetricsOfFamily
  <2>. QED  BY <2>1, MetricsOfFamily, FunctionIsSeq
<1>4. Elide(f) = [f EXCEPT !.metric = s]
  BY DEF Elide, EachMetric, Op
<1>. HIDE DEF s
<1>5. /\ Elide(f) \in MetricFamily /\ Elide(f).metric = s /\ Elide(f).index = f.index
      /\ Elide(f).name = f.name /\ Elide(f).type = f.type
  <2>. DEFINE g == [f EXCEPT !.metric = s]
  <2>1. /\ g \in MetricFamily /\ g.metric = s /\ g.index = f.index
        /\ g.name = f.name /\ g.type = f.type
    BY <1>3, WithMetrics
  <2>. QED  BY <1>4, <2>1
<1>6. \A k \in DOMAIN f.metric : Elide(f).metric[k] = Op(f.metric[k]) /\ Op(f.metric[k]) # Nil /\ f.metric[k] # Nil
  BY <1>1, <1>2, <1>5 DEF s
<1>7. f.name = Rename(shape).name
  BY DEF CollectorFamily
<1>8. \A k \in DOMAIN f.metric :
        Elide(f).metric[k] # Nil /\ Replaces(f, Elide(f), k) /\ MetricAfter(Elide(f).metric[k], shape, 3)
  BY <1>2, <1>6 DEF Replaces
<1>. QED
  <2>1. CollectorFamily(f, shape, 3 - 1) /\ 3 \in 1..3
    OBVIOUS
  <2>2. Elide(f).name = IF 3 >= 2 THEN Rename(shape).name ELSE shape.name
    BY <1>5, <1>7
  <2>3. OwnLabels(Elide(f), shape) /\ CollectorFamily(Elide(f), shape, 3)
    BY <1>3, <1>5, <1>8, <2>1, <2>2, Rewritten
  <2>. QED  BY <1>5, <2>3

\* Invalid samples become nil, and only these.
LEMMA InvalidDropped ==
  ASSUME NEW f \in MetricFamily, NEW shape, FamilyValid(f),
         OwnLabels(f, shape), CollectorFamily(f, shape, 3)
  PROVE  /\ DropInvalid(f) \in MetricFamily /\ DropInvalid(f).index = f.index
         /\ OwnLabels(DropInvalid(f), shape) /\ CollectorFamily(DropInvalid(f), shape, 4)
<1>. DEFINE Op(m) == IF m = Nil \/ ~SampleValid(m) THEN Nil
                     ELSE [m EXCEPT !.labels = {p \in @ : p.name \notin TooLong}]
            s == [k \in DOMAIN f.metric |-> Op(f.metric[k])]
            g == DropInvalid(f)
<1>1. \A k \in DOMAIN f.metric : f.metric[k] \in Metric /\ f.metric[k] \in Metrics(f) /\ f.metric[k] # Nil
  BY MetricsOfFamily DEF CollectorFamily
<1>2. ASSUME NEW k \in DOMAIN f.metric, SampleValid(f.metric[k])
      PROVE  /\ Op(f.metric[k]) \in Metric /\ Op(f.metric[k]).id = f.metric[k].id
             /\ OwnPairs(f.metric[k].id, Op(f.metric[k]).labels, f.index)
             /\ MetricAfter(Op(f.metric[k]), shape, 4)
  <2>. DEFINE m == f.metric[k]
  <2>1. m \in Metric /\ OwnPairs(m.id, m.labels, f.index) /\ m # Nil /\ SampleValid(m)
    BY <1>1, <1>2 DEF OwnLabels, OwnPairs
  <2>2. MetricAfter(m, shape, 3)
    BY <1>1 DEF CollectorFamily, MetricAfter
  <2>. HIDE DEF m
  <2>3. Op(m) = [m EXCEPT !.labels = {p \in m.labels : p.name \notin TooLong}]
    BY <2>1
  <2>. HIDE DEF Op
  <2>4. /\ Op(m) \in Metric /\ Op(m).id = m.id /\ Op(m).time = m.time /\ Op(m).typed = m.typed
        /\ OwnPairs(Op(m).id, Op(m).labels, f.index) /\ Names(Op(m)) = Names(m) \ TooLong
    BY <2>1, <2>3, Dropped
  <2>5. MetricAfter(Op(m), shape, 4)
    BY <2>2, <2>4 DEF MetricAfter, LabelsAfter
  <2>. QED  BY <2>4, <2>5 DEF m
<1>3. \A k \in DOMAIN f.metric : ~SampleValid(f.metric[k]) => Op(f.metric[k]) = Nil
  OBVIOUS
<1>4. \A k \in DOMAIN f.metric : SampleValid(f.metric[k]) => Op(f.metric[k]) # Nil
  BY <1>2
<1>. HIDE DEF Op
<1>5. s \in Seq(Metric \cup {Nil}) /\ DOMAIN s = DOMAIN f.metric
  <2>1. s \in [1..Len(f.metric) -> Metric \cup {Nil}]
    BY <1>2, <1>3, MetricsOfFamily
  <2>. QED  BY <2>1, MetricsOfFamily, FunctionIsSeq
<1>6. g = [f EXCEPT !.metric = s]
  BY DEF DropInvalid, EachMetric, Op
<1>. HIDE DEF s, g
<1>7. /\ g \in MetricFamily /\ g.metric = s /\ g.index = f.index
      /\ g.name = f.name /\ g.type = f.type
  <2>. DEFINE h == [f EXCEPT !.metric = s]
  <2>1. /\ h \in MetricFamily /\ h.metric = s /\ h.index = f.index
        /\ h.name = f.name /\ h.type = f.type
    BY <1>5, WithMetrics
  <2>. QED  BY <1>6, <2>1
<1>8. \A k \in DOMAIN f.metric : g.metric[k] = Op(f.metric[k])
  BY <1>7 DEF s
<1>9. OwnLabels(g, shape)
  <2>1. \A k \in DOMAIN f.metric : Replaces(f, g, k)
    BY <1>1, <1>2, <1>3, <1>8 DEF Replaces
  <2>. QED  BY <1>5, <1>7, <2>1, ReplacedOwnLabels
<1>10. CollectorFamily(g, shape, 4)
  <2>1. g.type = shape.type /\ g.name = Rename(shape).name /\ FamilyValid(g)
    <3>1. f.type = shape.type /\ f.name = Rename(shape).name
      BY DEF CollectorFamily
    <3>. QED  BY <1>7, <3>1 DEF FamilyValid
  <2>2. ASSUME NEW m \in Metrics(g)
        PROVE  MetricAfter(m, shape, 4) /\ \E k \in DOMAIN f.metric :
                 SampleValid(f.metric[k]) /\ m = Op(f.metric[k]) /\ m.id = f.metric[k].id
    <3>1. PICK k \in DOMAIN f.metric : m = Op(f.metric[k]) /\ m # Nil
      BY <1>5, <1>7, <1>8, MetricsOfFamily
    <3>. QED  BY <1>2, <1>3, <3>1
  <2>3. \A k \in DOMAIN f.metric : SampleValid(f.metric[k]) <=> SampleValid(shape.samples[f.metric[k].id])
    BY <1>1 DEF CollectorFamily, SampleValid
  <2>4. {m.id : m \in Metrics(g)} = {k \in DOMAIN shape.samples : SampleValid(shape.samples[k])}
    <3>1. ASSUME NEW m \in Metrics(g)
          PROVE  m.id \in DOMAIN shape.samples /\ SampleValid(shape.samples[m.id])
      BY <2>2, <2>3, <1>9 DEF OwnLabels
    <3>2. ASSUME NEW id \in DOMAIN shape.samples, SampleValid(shape.samples[id])
          PROVE  \E m \in Metrics(g) : m.id = id
      <4>1. id \in {m.id : m \in Metrics(f)}
        <5>1. {m.id : m \in Metrics(f)} = {k \in DOMAIN shape.samples : 3 >= 4 => SampleValid(shape.samples[k])}
          BY Zenon DEF CollectorFamily
        <5>. QED  BY <5>1
      <4>2. PICK k \in DOMAIN f.metric : f.metric[k].id = id
        BY <4>1, MetricsOfFamily
      <4>3. SampleValid(f.metric[k])
        BY <2>3, <3>2, <4>2
      <4>4. g.metric[k] # Nil /\ g.metric[k].id = id /\ k \in DOMAIN g.metric
        BY <1>2, <1>4, <1>5, <1>7, <1>8, <4>2, <4>3
      <4>. QED  BY <4>4, <1>7, MetricsOfFamily
    <3>. QED  BY <3>1, <3>2
  <2>. QED  BY <2>1, <2>2, <2>4 DEF CollectorFamily, MetricAfter
<1>. QED  BY <1>7, <1>9, <1>10 DEF g

\* A slice of some of the metrics, each once, in any order.
Rearranges(t, s) ==
  /\ \A k \in DOMAIN t : \E l \in DOMAIN s : t[k] = s[l]
  /\ \A k, l \in DOMAIN t : t[k] # Nil /\ t[k] = t[l] => k = l
  /\ \A l \in DOMAIN s : s[l] # Nil => \E k \in DOMAIN t : t[k] = s[l]

LEMMA RearrangedFamily ==
  ASSUME NEW f \in MetricFamily, NEW shape, OwnLabels(f, shape),
         NEW g \in MetricFamily, Rearranges(g.metric, f.metric), g.index = f.index
  PROVE  OwnLabels(g, shape) /\ Metrics(g) = Metrics(f)
<1>. DEFINE t == g.metric
<1>1. Metrics(g) = Metrics(f)
  <2>1. ASSUME NEW m \in Metrics(g) PROVE m \in Metrics(f)
    <3>1. PICK k \in DOMAIN t : t[k] = m /\ m # Nil
      BY MetricsOfFamily
    <3>2. \E l \in DOMAIN f.metric : f.metric[l] = m
      BY <3>1 DEF Rearranges
    <3>. QED  BY <3>1, <3>2, MetricsOfFamily
  <2>2. ASSUME NEW m \in Metrics(f) PROVE m \in Metrics(g)
    <3>1. PICK l \in DOMAIN f.metric : f.metric[l] = m /\ m # Nil
      BY MetricsOfFamily
    <3>2. \E k \in DOMAIN t : t[k] = m
      BY <3>1 DEF Rearranges
    <3>. QED  BY <3>1, <3>2, MetricsOfFamily
  <2>. QED  BY <2>1, <2>2
<1>3. ASSUME NEW k \in DOMAIN t, NEW l \in DOMAIN t, t[k] # Nil, t[l] # Nil, t[k].id = t[l].id
      PROVE  k = l
  <2>1. PICK x \in DOMAIN f.metric : t[k] = f.metric[x]
    BY DEF Rearranges
  <2>2. PICK y \in DOMAIN f.metric : t[l] = f.metric[y]
    BY DEF Rearranges
  <2>3. x = y
    BY <1>3, <2>1, <2>2 DEF OwnLabels
  <2>. QED  BY <1>3, <2>1, <2>2, <2>3 DEF Rearranges
<1>. QED  BY <1>1, <1>3 DEF OwnLabels

\* PackMetrics keeps the metrics, and no nil.
LEMMA PackedMetrics ==
  ASSUME NEW f \in MetricFamily, NEW shape, OwnLabels(f, shape), NEW g \in PackMetrics(f)
  PROVE  /\ g \in MetricFamily /\ Metrics(g) = Metrics(f)
         /\ g.index = f.index /\ g.name = f.name /\ g.type = f.type
         /\ OwnLabels(g, shape) /\ Nil \notin ToSet(g.metric)
         /\ Metrics(f) # {} => g.metric # <<>>
<1>. DEFINE P == {k \in DOMAIN f.metric : f.metric[k] # Nil}
<1>1. PICK t \in Packed(f.metric, P) : g = [f EXCEPT !.metric = t]
  BY DEF PackMetrics
<1>2. f.metric \in Seq(Metric \cup {Nil}) /\ P \in SUBSET DOMAIN f.metric
  BY MetricsOfFamily
<1>3. \A k : k \in P <=> k \in DOMAIN f.metric /\ f.metric[k] # Nil
  OBVIOUS
<1>. HIDE DEF P
<1>4. t \in Seq(Metric \cup {Nil}) /\ \E h : Picks(t, f.metric, P, h)
  BY <1>2, PackedElements
<1>5. PICK h : Picks(t, f.metric, P, h)
  BY <1>4
<1>6. \A k \in DOMAIN t : h[k] \in DOMAIN f.metric /\ t[k] = f.metric[h[k]] /\ t[k] # Nil
  BY <1>3, <1>5 DEF Picks
<1>7. Rearranges(t, f.metric)
  <2>1. \A k, l \in DOMAIN t : t[k] = t[l] => k = l
    <3>. SUFFICES ASSUME NEW k \in DOMAIN t, NEW l \in DOMAIN t, t[k] = t[l] PROVE k = l
      OBVIOUS
    <3>1. h[k] = h[l]
      BY <1>6 DEF OwnLabels
    <3>. QED  BY <1>5, <3>1 DEF Picks
  <2>2. \A l \in DOMAIN f.metric : f.metric[l] # Nil => \E k \in DOMAIN t : t[k] = f.metric[l]
    BY <1>3, <1>5, <1>6 DEF Picks
  <2>. QED  BY <1>6, <2>1, <2>2 DEF Rearranges
<1>8. /\ g \in MetricFamily /\ g.metric = t /\ Metrics(g) = Metrics(f)
      /\ g.index = f.index /\ g.name = f.name /\ g.type = f.type
      /\ OwnLabels(g, shape)
  <2>. DEFINE e == [f EXCEPT !.metric = t]
  <2>1. /\ e \in MetricFamily /\ e.metric = t /\ e.index = f.index
        /\ e.name = f.name /\ e.type = f.type
    BY <1>4, WithMetrics
  <2>2. /\ g \in MetricFamily /\ g.metric = t /\ g.index = f.index
        /\ g.name = f.name /\ g.type = f.type
    BY <1>1, <2>1
  <2>. QED  BY <1>7, <2>2, RearrangedFamily
<1>9. Nil \notin ToSet(g.metric)
  BY <1>6, <1>8 DEF ToSet
<1>10. Metrics(f) # {} => g.metric # <<>>
  <2>. SUFFICES ASSUME NEW m \in Metrics(f) PROVE g.metric # <<>>
    OBVIOUS
  <2>1. PICK k \in DOMAIN g.metric : g.metric[k] = m
    BY <1>8, MetricsOfFamily
  <2>2. k \in 1..Len(g.metric)
    BY <2>1, <1>8, MetricsOfFamily
  <2>. QED  BY <2>2, EmptySeq
<1>. QED  BY <1>8, <1>9, <1>10

LEMMA PackedFamily ==
  ASSUME NEW f \in MetricFamily, NEW shape, OwnLabels(f, shape), CollectorFamily(f, shape, 4),
         Metrics(f) # {}, NEW g \in PackMetrics(f)
  PROVE  CollectorFamily(g, shape, 5)
<1>1. /\ Metrics(g) = Metrics(f) /\ g.name = f.name /\ g.type = f.type
      /\ Nil \notin ToSet(g.metric) /\ g.metric # <<>>
  BY PackedMetrics
<1>2. \A m \in Metrics(g) : MetricAfter(m, shape, 5)
  BY <1>1 DEF CollectorFamily, MetricAfter, LabelsAfter
<1>3. {m.id : m \in Metrics(g)} = {k \in DOMAIN shape.samples : 5 >= 4 => SampleValid(shape.samples[k])}
  BY <1>1 DEF CollectorFamily
<1>4. g.type = shape.type /\ g.name = Rename(shape).name /\ FamilyValid(g)
  <2>1. f.type = shape.type /\ f.name = Rename(shape).name /\ FamilyValid(f)
    BY DEF CollectorFamily
  <2>. QED  BY <1>1, <2>1 DEF FamilyValid
<1>. QED  BY <1>1, <1>2, <1>3, <1>4 DEF CollectorFamily, MetricAfter

\* sort.Sort keeps them too, and puts them in order.
LEMMA SortedFamily ==
  ASSUME NEW f \in MetricFamily, NEW shape, OwnLabels(f, shape), CollectorFamily(f, shape, 5),
         NEW g \in Sorted(f)
  PROVE  /\ g \in MetricFamily /\ g.index = f.index
         /\ OwnLabels(g, shape) /\ CollectorFamily(g, shape, 6)
<1>1. PICK t \in SetToSeqs(ToSet(f.metric)) :
        g = [f EXCEPT !.metric = t] /\ \A k, l \in DOMAIN t : k < l => ~Earlier(t[l], t[k])
  BY DEF Sorted
<1>2. f.metric \in Seq(Metric \cup {Nil}) /\ ToSet(f.metric) \subseteq Metric /\ Nil \notin ToSet(f.metric)
  BY MetricsOfFamily DEF ToSet, CollectorFamily
<1>3. IsFiniteSet(ToSet(f.metric))
  BY FiniteMetrics
<1>4. /\ t \in Seq(ToSet(f.metric))
      /\ \A k, l \in DOMAIN t : t[k] = t[l] => k = l
      /\ \A e \in ToSet(f.metric) : \E k \in DOMAIN t : t[k] = e
  BY <1>3, Enumeration
<1>5. t \in Seq(Metric \cup {Nil}) /\ \A k \in DOMAIN t : t[k] \in ToSet(f.metric)
  BY <1>2, <1>4, SeqMonotonic, ElementOfSeq, LenProperties
<1>6. Rearranges(t, f.metric)
  <2>1. \A e : e \in ToSet(f.metric) <=> \E l \in DOMAIN f.metric : f.metric[l] = e
    BY DEF ToSet
  <2>. QED  BY <1>4, <1>5, <2>1 DEF Rearranges
<1>7. /\ g \in MetricFamily /\ g.metric = t /\ Metrics(g) = Metrics(f)
      /\ g.index = f.index /\ g.name = f.name /\ g.type = f.type
      /\ OwnLabels(g, shape)
  <2>. DEFINE e == [f EXCEPT !.metric = t]
  <2>1. /\ e \in MetricFamily /\ e.metric = t /\ e.index = f.index
        /\ e.name = f.name /\ e.type = f.type
    BY <1>5, WithMetrics
  <2>2. /\ g \in MetricFamily /\ g.metric = t /\ g.index = f.index
        /\ g.name = f.name /\ g.type = f.type
    BY <1>1, <2>1
  <2>. QED  BY <1>6, <2>2, RearrangedFamily
<1>8. Nil \notin ToSet(g.metric)
  BY <1>2, <1>5, <1>7 DEF ToSet
<1>9. g.metric # <<>>
  <2>1. Len(f.metric) \in Nat \ {0}
    BY <1>2, EmptySeq DEF CollectorFamily
  <2>2. f.metric[1] \in ToSet(f.metric)
    BY <2>1, MetricsOfFamily DEF ToSet
  <2>3. PICK k \in DOMAIN t : t[k] = f.metric[1]
    BY <1>4, <2>2
  <2>4. k \in 1..Len(t)
    BY <1>5, LenProperties
  <2>. QED  BY <1>7, <2>4, EmptySeq
<1>10. \A m \in Metrics(g) : MetricAfter(m, shape, 6)
  BY <1>7 DEF CollectorFamily, MetricAfter, LabelsAfter
<1>11. {m.id : m \in Metrics(g)} = {k \in DOMAIN shape.samples : 6 >= 4 => SampleValid(shape.samples[k])}
  BY <1>7 DEF CollectorFamily
<1>12. g.type = shape.type /\ g.name = Rename(shape).name /\ FamilyValid(g)
  <2>1. f.type = shape.type /\ f.name = Rename(shape).name /\ FamilyValid(f)
    BY DEF CollectorFamily
  <2>. QED  BY <1>7, <2>1 DEF FamilyValid
<1>. QED  BY <1>1, <1>7, <1>8, <1>9, <1>10, <1>11, <1>12 DEF CollectorFamily, MetricAfter

-----------------------------------------------------------------------------
(* The stages.                                                             *)

LEMMA CollectorStages ==
  ASSUME NEW n \in 1..Len(Stages)
  PROVE  /\ Len(Stages) = 7 /\ n \in 1..7
         /\ Stages[n] = "label" => n = 1
         /\ Stages[n] = "rename" => n = 2
         /\ Stages[n] = "elide" => n = 3
         /\ Stages[n] = "drop" => n = 4
         /\ Stages[n] = "pack" => n = 5
         /\ Stages[n] = "sort" => n = 6
         /\ Stages[n] = "anonymize" <=> n = 7
         /\ Stages[n] \notin {"whitelist", "require", "expired", "empty", "unsorted",
                            "errorUnsorted", "timeless", "overwrite"}
<1>1. Len(Stages) = 7 /\ n \in 1..7
  BY DEF Stages
<1>2. /\ Stages[1] = "label" /\ Stages[2] = "rename" /\ Stages[3] = "elide" /\ Stages[4] = "drop"
      /\ Stages[5] = "pack" /\ Stages[6] = "sort" /\ Stages[7] = "anonymize"
  BY DEF Stages
<1>3. n = 1 \/ n = 2 \/ n = 3 \/ n = 4 \/ n = 5 \/ n = 6 \/ n = 7
  BY <1>1
<1>. QED  BY <1>1, <1>2, <1>3

LEMMA OtherStages ==
  ASSUME NEW n \in 1..Len(LibraryStages)
  PROVE  /\ Len(LibraryStages) = 9 /\ n \in 1..9
         /\ LibraryStages[n] = "whitelist" => n = 1
         /\ LibraryStages[n] = "require" => n = 2
         /\ LibraryStages[n] = "expired" => n = 3
         /\ LibraryStages[n] = "empty" => n = 4
         /\ LibraryStages[n] = "unsorted" => n = 5
         /\ LibraryStages[n] = "pack" => n = 6
         /\ LibraryStages[n] = "errorUnsorted" => n = 7
         /\ LibraryStages[n] = "timeless" => n = 8
         /\ LibraryStages[n] = "overwrite" => n = 9
         /\ LibraryStages[n] \notin {"label", "rename", "elide", "drop", "sort", "anonymize"}
<1>1. Len(LibraryStages) = 9 /\ n \in 1..9
  BY DEF LibraryStages
<1>2. /\ LibraryStages[1] = "whitelist" /\ LibraryStages[2] = "require"
      /\ LibraryStages[3] = "expired" /\ LibraryStages[4] = "empty"
      /\ LibraryStages[5] = "unsorted" /\ LibraryStages[6] = "pack"
      /\ LibraryStages[7] = "errorUnsorted" /\ LibraryStages[8] = "timeless"
      /\ LibraryStages[9] = "overwrite"
  BY DEF LibraryStages
<1>3. n = 1 \/ n = 2 \/ n = 3 \/ n = 4 \/ n = 5 \/ n = 6 \/ n = 7 \/ n = 8 \/ n = 9
  BY <1>1
<1>. QED  BY <1>1, <1>2, <1>3

LEMMA TwoChains == Len(Stages) = 7 /\ Len(LibraryStages) = 9 /\ Stages # LibraryStages
<1>1. Len(Stages) = 7 /\ Len(LibraryStages) = 9
  BY DEF Stages, LibraryStages
<1>2. Stages[1] = "label" /\ LibraryStages[1] = "whitelist"
  BY DEF Stages, LibraryStages
<1>. QED  BY <1>1, <1>2

-----------------------------------------------------------------------------
(* What is retrieved.                                                      *)

LEMMA InputIsShapes ==
  ASSUME TypeOK
  PROVE  /\ input \in Seq(Shape) /\ DOMAIN input = 1..Len(input) /\ Len(input) \in Nat
         /\ \A f \in DOMAIN input : input[f] \in Shape
<1>1. input \in Seq(Shape)
  BY DEF TypeOK
<1>. QED  BY <1>1, LenProperties, ElementOfSeq

LEMMA RetrievedFamily ==
  ASSUME NEW f \in Nat \ {0}, NEW shape \in Shape
  PROVE  /\ Family(f, shape) \in MetricFamily /\ Family(f, shape).index = f
         /\ OwnLabels(Family(f, shape), shape)
         /\ CollectorFamily(Family(f, shape), shape, 0) /\ LibraryFamily(Family(f, shape), 0)
<1>. DEFINE Labels(m) == {Pair(f, m, name) : name \in shape.samples[m].labels}
            M(m) == [id |-> m, labels |-> Labels(m), time |-> shape.samples[m].time,
                     typed |-> shape.samples[m].typed]
            s == [m \in DOMAIN shape.samples |-> M(m)]
            g == Family(f, shape)
<1>1. /\ shape.samples \in Seq(Sample) /\ DOMAIN shape.samples = 1..Len(shape.samples)
      /\ Len(shape.samples) \in Nat /\ \A m \in DOMAIN shape.samples : shape.samples[m] \in Sample
      /\ shape.name \in STRING /\ shape.type \in STRING
  <2>1. shape.samples \in Seq(Sample) /\ shape.name \in STRING /\ shape.type \in STRING
    BY DEF Shape
  <2>. QED  BY <2>1, LenProperties, ElementOfSeq
<1>2. ASSUME NEW m \in DOMAIN shape.samples
      PROVE  /\ M(m) \in Metric /\ M(m).id = m /\ OwnPairs(m, M(m).labels, f)
             /\ MetricAfter(M(m), shape, 0)
  <2>1. shape.samples[m].labels \subseteq LabelNames /\ shape.samples[m].time \in Nat \cup {NoTime}
        /\ shape.samples[m].typed \in BOOLEAN /\ m \in Nat \ {0}
    BY <1>1 DEF Sample
  <2>2. \A name \in LabelNames : /\ Pair(f, m, name) \in LabelPair /\ Pair(f, m, name).name = name
                                /\ Pair(f, m, name).family = f /\ Pair(f, m, name).metric = m
    BY <2>1 DEF Pair, LabelPair
  <2>3. Labels(m) \subseteq LabelPair
    BY <2>1, <2>2
  <2>4. OwnPairs(m, Labels(m), f)
    BY <2>1, <2>2 DEF OwnPairs
  <2>5. {p.name : p \in Labels(m)} = shape.samples[m].labels
    BY <2>1, <2>2
  <2>6. M(m) \in Metric
    <3>. HIDE DEF Labels
    <3>. QED  BY <2>1, <2>3 DEF Metric
  <2>7. LabelsAfter(shape.samples[m].labels, 0) = shape.samples[m].labels
    BY DEF LabelsAfter
  <2>8. M(m).labels = Labels(m) /\ M(m).id = m /\ M(m).time = shape.samples[m].time /\ M(m).typed = shape.samples[m].typed
    OBVIOUS
  <2>. HIDE DEF M, Labels
  <2>9. MetricAfter(M(m), shape, 0)
    BY <2>5, <2>7, <2>8 DEF MetricAfter, Names
  <2>. QED  BY <2>4, <2>6, <2>8, <2>9
<1>3. s \in Seq(Metric \cup {Nil}) /\ DOMAIN s = DOMAIN shape.samples
  <2>. HIDE DEF M
  <2>1. s \in [1..Len(shape.samples) -> Metric \cup {Nil}]
    BY <1>1, <1>2
  <2>. QED  BY <1>1, <2>1, FunctionIsSeq
<1>4. g = [index |-> f, name |-> shape.name, type |-> shape.type, metric |-> s]
  BY DEF Family
<1>. HIDE DEF s, g, M
<1>5. g \in MetricFamily /\ g.index = f /\ g.name = shape.name /\ g.type = shape.type /\ g.metric = s
  BY <1>1, <1>3, <1>4 DEF MetricFamily
<1>6. \A m \in DOMAIN g.metric : g.metric[m] = M(m) /\ M(m) # Nil /\ M(m).id = m /\ m \in DOMAIN shape.samples
  BY <1>2, <1>3, <1>5 DEF s
<1>7. \A m \in Metrics(g) : /\ m.id \in DOMAIN shape.samples /\ m = M(m.id)
                           /\ OwnPairs(m.id, m.labels, f) /\ MetricAfter(m, shape, 0)
  BY <1>2, <1>5, <1>6, MetricsOfFamily
<1>8. OwnLabels(g, shape)
  BY <1>5, <1>6, <1>7 DEF OwnLabels, OwnPairs
<1>9. Nil \notin ToSet(g.metric)
  BY <1>5, <1>6, MetricsOfFamily
<1>10. {m.id : m \in Metrics(g)} = {k \in DOMAIN shape.samples : 0 >= 4 => SampleValid(shape.samples[k])}
  <2>1. \A k \in DOMAIN shape.samples : M(k) \in Metrics(g) /\ M(k).id = k
    BY <1>3, <1>5, <1>6, MetricsOfFamily
  <2>. QED  BY <1>7, <2>1
<1>11. CollectorFamily(g, shape, 0)
  BY <1>5, <1>7, <1>9, <1>10 DEF CollectorFamily, MetricAfter
<1>12. LibraryFamily(g, 0)
  BY <1>9 DEF LibraryFamily
<1>. QED  BY <1>5, <1>8, <1>11, <1>12 DEF g

LEMMA InitIndInv == Init => IndInv
<1>. SUFFICES ASSUME Init PROVE IndInv
  OBVIOUS
<1>1. /\ at = 1 /\ stage = 1 /\ latest = 0 /\ series = <<>> /\ pc = "filter"
      /\ (stages = Stages /\ input \in Inputs) \/ (stages = LibraryStages /\ input \in LibraryInputs)
  BY DEF Init
<1>0. Len(stages) = 7 \/ Len(stages) = 9
  <2>1. stages = Stages \/ stages = LibraryStages
    BY <1>1
  <2>. QED  BY <2>1, TwoChains
<1>2. /\ input \in Seq(Shape) /\ DOMAIN input = 1..Len(input) /\ Len(input) \in Nat
      /\ \A f \in DOMAIN input : input[f] \in Shape
  <2>1. input \in Seq(Shape)
    BY <1>1
  <2>. QED  BY <2>1, LenProperties, ElementOfSeq
<1>3. \A f \in DOMAIN input : f \in Nat \ {0} /\ Family(f, input[f]) \in MetricFamily
  BY <1>2, RetrievedFamily
<1>4. families \in Seq(MetricFamily \cup {Nil}) /\ DOMAIN families = DOMAIN input /\ Len(families) = Len(input)
  <2>1. families \in [1..Len(input) -> MetricFamily \cup {Nil}]
    BY <1>2, <1>3 DEF Init
  <2>. QED  BY <1>2, <2>1, FunctionIsSeq
<1>5. \A f \in DOMAIN families :
        /\ families[f] # Nil /\ families[f].index = f /\ f \in DOMAIN input
        /\ OwnLabels(families[f], input[f]) /\ CollectorFamily(families[f], input[f], 0)
        /\ LibraryFamily(families[f], 0)
  <2>1. \A f \in DOMAIN input : families[f] = Family(f, input[f])
    BY DEF Init
  <2>. QED  BY <1>2, <1>3, <1>4, <2>1, RetrievedFamily
<1>6. hashes \in [AllPairs -> Nat] /\ \A p \in AllPairs : hashes[p] = 0
  BY DEF Init
<1>7. TypeOK
  <2>1. stage \in 1..Len(stages)
    <3>1. stage = 1
      BY <1>1
    <3>. QED  BY ONLY <1>0, <3>1
  <2>2. series \in Seq(TimeSeries)
    BY <1>1, EmptySeq
  <2>. QED  BY <1>1, <1>4, <1>6, <2>1, <2>2 DEF TypeOK
<1>8. \A f \in DOMAIN families : Applied(f) = 0
  <2>1. \A f \in DOMAIN families : f \in Nat /\ ~(f < at)
    BY <1>1, <1>2, <1>4
  <2>. QED  BY <1>1, <2>1 DEF Applied
<1>9. FamiliesInv
  BY <1>5, <1>8 DEF FamiliesInv
<1>10. PlacesInv
  <2>1. at <= Len(families) + 1
    BY <1>1, <1>2, <1>4
  <2>. QED  BY <1>1, <1>4, <1>5, <2>1 DEF PlacesInv
<1>11. HashesInv
  <2>1. \A f \in DOMAIN families : Applied(f) # Len(stages)
    BY ONLY <1>0, <1>8
  <2>. QED  BY <1>6, <2>1 DEF HashesInv
<1>12. SeriesInv
  BY <1>1 DEF SeriesInv
<1>. QED  BY <1>7, <1>9, <1>10, <1>11, <1>12 DEF IndInv

-----------------------------------------------------------------------------
(* The loop of Filter.                                                     *)

LEMMA SevenOrNine == \A n : n = 7 \/ n = 9 => n \in Nat /\ n >= 7
  OBVIOUS

LEMMA Chain ==
  ASSUME TypeOK
  PROVE  /\ stages = Stages \/ stages = LibraryStages
         /\ stages = Stages => stages # LibraryStages /\ Len(stages) = 7
         /\ stages = LibraryStages => Len(stages) = 9
         /\ Len(stages) \in Nat /\ Len(stages) >= 7 /\ stage \in Nat /\ stage >= 1 /\ stage <= Len(stages)
<1>1. stages = Stages \/ stages = LibraryStages
  BY DEF TypeOK
<1>2. Len(stages) = 7 \/ Len(stages) = 9
  BY <1>1, TwoChains
<1>3. stage \in 1..Len(stages)
  BY DEF TypeOK
<1>4. Len(stages) \in Nat /\ Len(stages) >= 7 /\ stage \in Nat /\ stage >= 1 /\ stage <= Len(stages)
  <2>1. Len(stages) \in Nat /\ Len(stages) >= 7
    BY <1>2, SevenOrNine
  <2>. QED  BY ONLY <1>3, <2>1
<1>. QED  BY <1>1, <1>4, TwoChains

LEMMA FamilyList ==
  ASSUME TypeOK
  PROVE  /\ families \in Seq(MetricFamily \cup {Nil})
         /\ DOMAIN families = 1..Len(families) /\ Len(families) \in Nat
         /\ \A f \in DOMAIN families : families[f] # Nil => families[f] \in MetricFamily
<1>1. families \in Seq(MetricFamily \cup {Nil})
  BY DEF TypeOK
<1>. QED  BY <1>1, LenProperties, ElementOfSeq

\* The family that Filter has reached.
LEMMA Reached ==
  ASSUME IndInv, pc = "filter", at <= Len(families)
  PROVE  /\ at \in DOMAIN families /\ at \in DOMAIN input /\ at \in Nat /\ input[at] \in Shape
         /\ families[at] # Nil /\ families[at] \in MetricFamily /\ families[at].index = at
         /\ OwnLabels(families[at], input[at])
         /\ stages = Stages => CollectorFamily(families[at], input[at], stage - 1)
         /\ stages = LibraryStages => LibraryFamily(families[at], stage - 1)
<1>1. TypeOK /\ FamiliesInv /\ PlacesInv
  BY DEF IndInv
<1>2. at \in Nat /\ at >= 1
  BY <1>1 DEF TypeOK
<1>3. at \in DOMAIN families
  BY <1>1, <1>2, FamilyList
<1>4. Len(families) = Len(input)
  BY <1>1 DEF PlacesInv
<1>5. at \in DOMAIN input
  BY <1>1, <1>3, <1>4, FamilyList, InputIsShapes
<1>6. input[at] \in Shape
  BY <1>1, <1>5, InputIsShapes
<1>7. families[at] # Nil /\ families[at] \in MetricFamily
  <2>1. families[at] # Nil
    BY <1>1, <1>2, <1>3 DEF PlacesInv
  <2>. QED  BY <1>1, <1>3, <2>1, FamilyList
<1>8. families[at].index = at
  BY <1>1, <1>3, <1>7 DEF PlacesInv
<1>9. Applied(at) = stage - 1
  BY <1>2 DEF Applied
<1>. QED  BY <1>1, <1>2, <1>3, <1>5, <1>6, <1>7, <1>8, <1>9 DEF FamiliesInv

\* A transformer accepts: its family has had one more, the others what they had.
LEMMA Moves ==
  ASSUME IndInv, pc = "filter", at <= Len(families), NEW g, Accept(g)
  PROVE  /\ DOMAIN families' = DOMAIN families /\ families'[at] = g
         /\ \A f \in DOMAIN families : f = at => Applied(f)' = stage
         /\ \A f \in DOMAIN families : f # at => families'[f] = families[f] /\ Applied(f)' = Applied(f)
         /\ at' \in Nat /\ at' >= at /\ at' <= at + 1 /\ stage' \in 1..Len(stages)
         /\ input' = input /\ stages' = stages /\ series' = series /\ pc' = pc
<1>1. TypeOK
  BY DEF IndInv
<1>2. at \in DOMAIN families /\ at \in Nat
  BY Reached
<1>3. /\ families' = [families EXCEPT ![at] = g]
      /\ input' = input /\ stages' = stages /\ series' = series /\ pc' = pc
  BY DEF Accept
<1>4. /\ DOMAIN families' = DOMAIN families /\ families'[at] = g
      /\ \A f \in DOMAIN families : f # at => families'[f] = families[f]
  BY <1>2, <1>3
<1>5. /\ at' \in Nat /\ at' >= at /\ at' <= at + 1 /\ stage' \in 1..Len(stages)
      /\ at' = at => stage' = stage + 1
      /\ at' # at => at' = at + 1 /\ stage' = 1 /\ stage = Len(stages)
  <2>1. CASE stage < Len(stages)
    <3>1. stage' = stage + 1 /\ at' = at
      BY <2>1 DEF Accept
    <3>2. stage' \in 1..Len(stages)
      BY <1>1, <2>1, <3>1, Chain
    <3>. QED  BY <1>2, <3>1, <3>2
  <2>2. CASE ~(stage < Len(stages))
    <3>1. stage' = 1 /\ at' = at + 1
      BY <2>2 DEF Accept
    <3>2. stage' \in 1..Len(stages) /\ stage = Len(stages)
      BY <1>1, <2>2, <3>1, Chain
    <3>. QED  BY <1>2, <3>1, <3>2
  <2>. QED  BY <2>1, <2>2
<1>6. ASSUME NEW f \in DOMAIN families, f = at PROVE Applied(f)' = stage
  <2>1. CASE at' = at
    <3>1. f = at' /\ stage' - 1 = stage /\ ~(f < at') /\ pc' = "filter"
      BY <1>1, <1>2, <1>3, <1>5, <1>6, <2>1, Chain
    <3>. QED  BY <3>1 DEF Applied
  <2>2. CASE at' # at
    <3>1. f < at' /\ stages' = stages /\ Len(stages) = stage
      BY <1>2, <1>3, <1>5, <1>6, <2>2
    <3>. QED  BY <3>1 DEF Applied
  <2>. QED  BY <2>1, <2>2
<1>7. ASSUME NEW f \in DOMAIN families, f # at PROVE Applied(f)' = Applied(f)
  <2>1. f \in Nat
    BY <1>1, FamilyList
  <2>2. CASE f < at
    BY <1>2, <1>3, <1>5, <2>1, <2>2 DEF Applied
  <2>3. CASE f > at /\ f = at'
    <3>1. stage' = 1
      BY <1>2, <1>5, <2>3
    <3>. QED  BY <1>2, <1>3, <1>5, <2>1, <2>3, <3>1 DEF Applied
  <2>4. CASE f > at /\ f # at'
    BY <1>2, <1>3, <1>5, <2>1, <2>4 DEF Applied
  <2>. QED  BY <1>2, <1>7, <2>1, <2>2, <2>3, <2>4
<1>. QED  BY <1>3, <1>4, <1>5, <1>6, <1>7

\* Everything but what is counted in hashes, when a transformer accepts.
LEMMA Accepted ==
  ASSUME IndInv, pc = "filter", at <= Len(families), NEW g \in MetricFamily, Accept(g),
         latest' \in Nat, hashes' \in [AllPairs -> Nat],
         g.index = at, OwnLabels(g, input[at]),
         stages = Stages => CollectorFamily(g, input[at], stage),
         stages = LibraryStages => LibraryFamily(g, stage)
  PROVE  /\ TypeOK' /\ FamiliesInv' /\ PlacesInv' /\ SeriesInv'
         /\ DOMAIN families' = DOMAIN families /\ families'[at] = g
         /\ \A f \in DOMAIN families : f = at => Applied(f)' = stage
         /\ \A f \in DOMAIN families : f # at => families'[f] = families[f] /\ Applied(f)' = Applied(f)
         /\ at' \in Nat /\ at' >= at /\ input' = input /\ stages' = stages /\ pc' = pc
<1>1. TypeOK /\ FamiliesInv /\ PlacesInv /\ SeriesInv
  BY DEF IndInv
<1>2. /\ at \in DOMAIN families /\ at \in DOMAIN input /\ at \in Nat
      /\ families[at] # Nil
  BY Reached
<1>3. /\ families' = [families EXCEPT ![at] = g]
      /\ input' = input /\ stages' = stages /\ series' = series /\ pc' = pc
  BY DEF Accept
<1>4. /\ families' \in Seq(MetricFamily \cup {Nil}) /\ Len(families') = Len(families)
      /\ DOMAIN families' = DOMAIN families
      /\ families'[at] = g /\ \A f \in DOMAIN families : f # at => families'[f] = families[f]
  <2>1. families \in Seq(MetricFamily \cup {Nil}) /\ at \in 1..Len(families) /\ g \in MetricFamily \cup {Nil}
    BY <1>1, <1>2, FamilyList
  <2>2. families' \in Seq(MetricFamily \cup {Nil}) /\ Len(families') = Len(families)
    BY <1>3, <2>1, ExceptSeq
  <2>. QED  BY <1>2, <1>3, <2>2
<1>5. at' \in Nat /\ at' >= at /\ at' <= at + 1 /\ stage' \in 1..Len(stages)
  BY Moves
<1>6. \A f \in DOMAIN families : f = at => Applied(f)' = stage
  BY Moves
<1>7. \A f \in DOMAIN families : f # at => Applied(f)' = Applied(f)
  BY Moves
<1>8. TypeOK'
  <2>1. AllPairs' = AllPairs
    BY <1>3 DEF AllPairs
  <2>2. (stages = Stages /\ input \in Inputs) \/ (stages = LibraryStages /\ input \in LibraryInputs)
    BY <1>1 DEF TypeOK
  <2>3. series \in Seq(TimeSeries)
    BY <1>1 DEF TypeOK
  <2>4. at' \in Nat \ {0}
    BY <1>1, <1>2, <1>5 DEF TypeOK
  <2>. QED  BY <1>3, <1>4, <1>5, <2>1, <2>2, <2>3, <2>4 DEF TypeOK
<1>9. FamiliesInv'
  <2>. SUFFICES ASSUME NEW f \in DOMAIN families, families'[f] # Nil
       PROVE  /\ families'[f].index \in DOMAIN input
              /\ OwnLabels(families'[f], input[families'[f].index])
              /\ stages = Stages => CollectorFamily(families'[f], input[families'[f].index], Applied(f)')
              /\ stages = LibraryStages => LibraryFamily(families'[f], Applied(f)')
    BY <1>3, <1>4 DEF FamiliesInv
  <2>1. CASE f = at
    <3>1. families'[f] = g /\ g.index = at /\ Applied(f)' = stage /\ at \in DOMAIN input
      BY <1>2, <1>4, <1>6, <2>1
    <3>. QED  BY <3>1
  <2>2. CASE f # at
    BY <1>1, <1>4, <1>7, <2>2 DEF FamiliesInv
  <2>. QED  BY <2>1, <2>2
<1>10. PlacesInv'
  <2>1. Len(families') = Len(input) /\ at' <= Len(families') + 1
    <3>1. Len(families) = Len(input) /\ Len(families) \in Nat
      BY <1>1, FamilyList DEF PlacesInv
    <3>. QED  BY <1>2, <1>4, <1>5, <3>1
  <2>2. \A f \in DOMAIN families' : families'[f] # Nil => families'[f].index = f
    BY <1>1, <1>4 DEF PlacesInv
  <2>3. ASSUME NEW f \in DOMAIN families', f >= at' PROVE families'[f] # Nil
    <3>1. f \in Nat /\ f >= at
      BY <1>1, <1>2, <1>4, <1>5, <2>3, FamilyList
    <3>. QED  BY <1>1, <1>4, <3>1 DEF PlacesInv
  <2>4. ASSUME stages = Stages, NEW n \in DOMAIN input, ToBeLeft(input[n])
        PROVE  \E f \in DOMAIN families' : families'[f] # Nil /\ families'[f].index = n
    <3>1. PICK f \in DOMAIN families : families[f] # Nil /\ families[f].index = n
      BY <1>1, <2>4 DEF PlacesInv
    <3>2. f = n
      BY <1>1, <3>1 DEF PlacesInv
    <3>. QED  BY <1>4, <3>1, <3>2
  <2>5. pc' = "filter"
    BY <1>3
  <2>. QED  BY <1>3, <2>1, <2>2, <2>3, <2>4, <2>5 DEF PlacesInv, ToBeLeft
<1>11. SeriesInv'
  BY <1>1, <1>3 DEF SeriesInv
<1>. QED  BY <1>3, <1>4, <1>5, <1>6, <1>7, <1>8, <1>9, <1>10, <1>11

\* A transformer that hashes nothing accepts.
LEMMA AcceptedUnhashed ==
  ASSUME IndInv, pc = "filter", at <= Len(families), NEW g \in MetricFamily, Accept(g),
         latest' \in Nat, hashes' = hashes, stages[stage] # "anonymize",
         g.index = at, OwnLabels(g, input[at]),
         stages = Stages => CollectorFamily(g, input[at], stage),
         stages = LibraryStages => LibraryFamily(g, stage)
  PROVE  IndInv'
<1>1. TypeOK /\ HashesInv
  BY DEF IndInv
<1>2. hashes' \in [AllPairs -> Nat]
  BY <1>1 DEF TypeOK
<1>3. /\ TypeOK' /\ FamiliesInv' /\ PlacesInv' /\ SeriesInv'
      /\ DOMAIN families' = DOMAIN families /\ families'[at] = g
      /\ \A f \in DOMAIN families : f = at => Applied(f)' = stage
      /\ \A f \in DOMAIN families : f # at => families'[f] = families[f] /\ Applied(f)' = Applied(f)
      /\ at' \in Nat /\ at' >= at /\ input' = input /\ stages' = stages /\ pc' = pc
  BY <1>2, Accepted
<1>4. stages = Stages => stage # Len(stages)
  <2>. SUFFICES ASSUME stages = Stages PROVE stage # Len(stages)
    OBVIOUS
  <2>1. stage \in 1..Len(Stages)
    BY <1>1 DEF TypeOK
  <2>2. stage # 7 /\ Len(Stages) = 7
    BY <2>1, CollectorStages
  <2>. QED  BY <2>2
<1>5. AllPairs' = AllPairs /\ \A p \in AllPairs : p.family \in Nat
  <2>1. AllPairs' = AllPairs
    BY <1>3 DEF AllPairs
  <2>2. \A p \in AllPairs : p.family \in DOMAIN input
    BY DEF AllPairs, Pair
  <2>. QED  BY <1>1, <2>1, <2>2, InputIsShapes
<1>6. ASSUME NEW p \in AllPairs,
             \/ p.name \notin Anonymized \ Blank
             \/ stages = LibraryStages
             \/ pc \in {"filter", "failed"} /\ p.family >= at'
      PROVE  hashes[p] = 0
  <2>1. at \in Nat
    BY <1>1 DEF TypeOK
  <2>2. p.family >= at' => p.family >= at
    BY <1>3, <1>5, <2>1
  <2>. QED  BY <1>1, <1>6, <2>2 DEF HashesInv
<1>7. ASSUME stages = Stages, NEW f \in DOMAIN families, families'[f] # Nil, Applied(f)' = Len(stages),
             NEW m \in Metrics(families'[f]), NEW p \in m.labels, p.name \in Anonymized \ Blank
      PROVE  hashes[p] >= 1 /\ (p.metric # 0 => hashes[p] = 1)
  <2>1. f # at
    BY <1>3, <1>4, <1>7
  <2>2. families'[f] = families[f] /\ Applied(f) = Len(stages)
    BY <1>3, <1>7, <2>1
  <2>. QED  BY <1>1, <1>7, <2>2 DEF HashesInv
<1>8. HashesInv'
  BY <1>3, <1>5, <1>6, <1>7 DEF HashesInv, Metrics
<1>. QED  BY <1>3, <1>8 DEF IndInv

\* A transformer rejects the family: the others have had what they had.
LEMMA Skips ==
  ASSUME IndInv, pc = "filter", at <= Len(families), Reject
  PROVE  /\ DOMAIN families' = DOMAIN families
         /\ \A f \in DOMAIN families : f # at => families'[f] = families[f]
         /\ \A f \in DOMAIN families : families'[f] # Nil =>
              f # at /\ families'[f] = families[f] /\ Applied(f)' = Applied(f)
         /\ input' = input /\ stages' = stages /\ pc' = pc
<1>1. TypeOK
  BY DEF IndInv
<1>2. at \in DOMAIN families /\ at \in Nat
  BY Reached
<1>3. /\ families' = [families EXCEPT ![at] = Nil] /\ stage' = 1 /\ at' = at + 1
      /\ input' = input /\ stages' = stages /\ pc' = pc
  BY DEF Reject
<1>4. /\ DOMAIN families' = DOMAIN families /\ families'[at] = Nil
      /\ \A f \in DOMAIN families : f # at => families'[f] = families[f]
  BY <1>2, <1>3
<1>5. ASSUME NEW f \in DOMAIN families, families'[f] # Nil
      PROVE  f # at /\ families'[f] = families[f] /\ Applied(f)' = Applied(f)
  <2>1. f \in Nat /\ f # at /\ families'[f] = families[f]
    BY <1>1, <1>4, <1>5, FamilyList
  <2>2. CASE f < at
    <3>1. f < at' /\ stages' = stages
      BY <1>2, <1>3, <2>1, <2>2
    <3>. QED  BY <2>1, <2>2, <3>1 DEF Applied
  <2>3. CASE f > at /\ f = at'
    <3>1. ~(f < at) /\ ~(f < at') /\ stage' - 1 = 0 /\ f # at /\ pc = "filter" /\ pc' = "filter"
      BY <1>2, <1>3, <2>1, <2>3
    <3>. QED  BY <2>1, <2>3, <3>1 DEF Applied
  <2>4. CASE f > at /\ f # at'
    <3>1. ~(f < at) /\ ~(f < at') /\ f # at /\ pc = "filter" /\ pc' = "filter"
      BY <1>2, <1>3, <2>1, <2>4
    <3>. QED  BY <2>1, <2>4, <3>1 DEF Applied
  <2>. QED  BY <1>2, <2>1, <2>2, <2>3, <2>4
<1>. QED  BY <1>3, <1>4, <1>5

\* A transformer rejects the family.
LEMMA Rejected ==
  ASSUME IndInv, pc = "filter", at <= Len(families), Reject,
         latest' = latest, hashes' = hashes,
         stages = Stages => ~ToBeLeft(input[at])
  PROVE  IndInv'
<1>1. TypeOK /\ FamiliesInv /\ PlacesInv /\ HashesInv /\ SeriesInv
  BY DEF IndInv
<1>2. at \in DOMAIN families /\ at \in DOMAIN input /\ at \in Nat /\ at > 0
  BY <1>1, Reached DEF TypeOK
<1>3. /\ families' = [families EXCEPT ![at] = Nil] /\ stage' = 1 /\ at' = at + 1
      /\ input' = input /\ stages' = stages /\ series' = series /\ pc' = pc
  BY DEF Reject
<1>4. /\ families' \in Seq(MetricFamily \cup {Nil}) /\ Len(families') = Len(families)
      /\ DOMAIN families' = DOMAIN families
      /\ families'[at] = Nil /\ \A f \in DOMAIN families : f # at => families'[f] = families[f]
  <2>1. families \in Seq(MetricFamily \cup {Nil}) /\ at \in 1..Len(families) /\ Nil \in MetricFamily \cup {Nil}
    BY <1>1, <1>2, FamilyList
  <2>2. families' \in Seq(MetricFamily \cup {Nil}) /\ Len(families') = Len(families)
    BY <1>3, <2>1, ExceptSeq
  <2>. QED  BY <1>2, <1>3, <2>2
<1>5. \A f \in DOMAIN families : families'[f] # Nil =>
        f # at /\ families'[f] = families[f] /\ Applied(f)' = Applied(f)
  BY Skips
<1>6. AllPairs' = AllPairs
  BY <1>3 DEF AllPairs
<1>7. TypeOK'
  <2>2. (stages = Stages /\ input \in Inputs) \/ (stages = LibraryStages /\ input \in LibraryInputs)
    BY <1>1 DEF TypeOK
  <2>3. series \in Seq(TimeSeries)
    BY <1>1 DEF TypeOK
  <2>4. at' \in Nat \ {0}
    BY <1>2, <1>3
  <2>5. stage' \in 1..Len(stages)
    <3>1. Len(stages) \in Nat /\ Len(stages) >= 7
      BY <1>1, Chain
    <3>. QED  BY <1>3, <3>1
  <2>6. latest' \in Nat /\ hashes' \in [AllPairs -> Nat]
    BY <1>1 DEF TypeOK
  <2>. QED  BY <1>3, <1>4, <1>6, <2>2, <2>3, <2>4, <2>5, <2>6 DEF TypeOK
<1>8. FamiliesInv'
  <2>. SUFFICES ASSUME NEW f \in DOMAIN families, families'[f] # Nil
       PROVE  /\ families'[f].index \in DOMAIN input
              /\ OwnLabels(families'[f], input[families'[f].index])
              /\ stages = Stages => CollectorFamily(families'[f], input[families'[f].index], Applied(f)')
              /\ stages = LibraryStages => LibraryFamily(families'[f], Applied(f)')
    BY <1>3, <1>4 DEF FamiliesInv
  <2>1. families'[f] = families[f] /\ Applied(f)' = Applied(f)
    BY <1>5
  <2>. QED  BY <1>1, <2>1 DEF FamiliesInv
<1>9. PlacesInv'
  <2>1. Len(families') = Len(input) /\ at' <= Len(families') + 1
    <3>1. Len(families) = Len(input) /\ Len(families) \in Nat
      BY <1>1, FamilyList DEF PlacesInv
    <3>. QED  BY <1>2, <1>3, <1>4, <3>1
  <2>2. \A f \in DOMAIN families' : families'[f] # Nil => families'[f].index = f
    BY <1>1, <1>4, <1>5 DEF PlacesInv
  <2>3. ASSUME NEW f \in DOMAIN families', f >= at' PROVE families'[f] # Nil
    <3>1. f \in Nat /\ f >= at /\ f # at
      BY <1>1, <1>2, <1>3, <1>4, <2>3, FamilyList
    <3>. QED  BY <1>1, <1>4, <3>1 DEF PlacesInv
  <2>4. ASSUME stages = Stages, NEW n \in DOMAIN input, ToBeLeft(input[n])
        PROVE  \E f \in DOMAIN families' : families'[f] # Nil /\ families'[f].index = n
    <3>1. PICK f \in DOMAIN families : families[f] # Nil /\ families[f].index = n
      BY <1>1, <2>4 DEF PlacesInv
    <3>2. f = n /\ n # at
      BY <1>1, <2>4, <3>1 DEF PlacesInv
    <3>. QED  BY <1>4, <3>1, <3>2
  <2>5. pc' = "filter"
    BY <1>3
  <2>. QED  BY <1>3, <2>1, <2>2, <2>3, <2>4, <2>5 DEF PlacesInv, ToBeLeft
<1>10. HashesInv'
  <2>1. \A p \in AllPairs : p.family \in Nat
    <3>1. \A p \in AllPairs : p.family \in DOMAIN input
      BY DEF AllPairs, Pair
    <3>. QED  BY <1>1, <3>1, InputIsShapes
  <2>2. ASSUME NEW p \in AllPairs,
               \/ p.name \notin Anonymized \ Blank
               \/ stages = LibraryStages
               \/ pc \in {"filter", "failed"} /\ p.family >= at'
        PROVE  hashes[p] = 0
    <3>1. p.family >= at' => p.family >= at
      BY <1>2, <1>3, <2>1
    <3>. QED  BY <1>1, <2>2, <3>1 DEF HashesInv
  <2>3. ASSUME stages = Stages, NEW f \in DOMAIN families, families'[f] # Nil, Applied(f)' = Len(stages),
               NEW m \in Metrics(families'[f]), NEW p \in m.labels, p.name \in Anonymized \ Blank
        PROVE  hashes[p] >= 1 /\ (p.metric # 0 => hashes[p] = 1)
    <3>1. families'[f] = families[f] /\ Applied(f) = Len(stages)
      BY <1>5, <2>3
    <3>. QED  BY <1>1, <2>3, <3>1 DEF HashesInv
  <2>. QED  BY <1>3, <1>4, <1>6, <2>2, <2>3 DEF HashesInv, Metrics
<1>11. SeriesInv'
  BY <1>1, <1>3 DEF SeriesInv
<1>. QED  BY <1>7, <1>8, <1>9, <1>10, <1>11 DEF IndInv

\* A transformer returns an error.
LEMMA Failed ==
  ASSUME IndInv, pc = "filter", at <= Len(families), Fail, latest' = latest, hashes' = hashes
  PROVE  IndInv'
<1>1. TypeOK /\ FamiliesInv /\ PlacesInv /\ HashesInv /\ SeriesInv
  BY DEF IndInv
<1>2. /\ pc' = "failed" /\ input' = input /\ families' = families /\ stages' = stages
      /\ at' = at /\ stage' = stage /\ series' = series /\ AllPairs' = AllPairs
  BY DEF Fail, AllPairs
<1>3. \A f \in DOMAIN families : Applied(f)' = Applied(f)
  BY <1>2 DEF Applied
<1>4. TypeOK'
  BY <1>1, <1>2 DEF TypeOK
<1>5. FamiliesInv'
  BY <1>1, <1>2, <1>3 DEF FamiliesInv
<1>6. PlacesInv'
  BY <1>1, <1>2 DEF PlacesInv, ToBeLeft
<1>7. HashesInv'
  BY <1>1, <1>2, <1>3 DEF HashesInv, Metrics
<1>8. SeriesInv'
  BY <1>1, <1>2 DEF SeriesInv
<1>. QED  BY <1>4, <1>5, <1>6, <1>7, <1>8 DEF IndInv

-----------------------------------------------------------------------------
(* The other transformers: they drop metrics or change times.              *)

LEMMA TimesChanged ==
  ASSUME NEW f \in MetricFamily, NEW shape, OwnLabels(f, shape),
         NEW s \in Seq(Metric \cup {Nil}), DOMAIN s = DOMAIN f.metric,
         \A k \in DOMAIN s : s[k] # Nil =>
           f.metric[k] # Nil /\ s[k].id = f.metric[k].id /\ s[k].labels = f.metric[k].labels,
         NEW g, g = [f EXCEPT !.metric = s]
  PROVE  /\ g \in MetricFamily /\ g.index = f.index /\ OwnLabels(g, shape)
         /\ (\A k \in DOMAIN s : s[k] # Nil) => Nil \notin ToSet(g.metric)
<1>1. g \in MetricFamily /\ g.metric = s /\ g.index = f.index
  <2>. DEFINE h == [f EXCEPT !.metric = s]
  <2>1. h \in MetricFamily /\ h.metric = s /\ h.index = f.index
    BY WithMetrics
  <2>. QED  BY <2>1
<1>2. \A k \in DOMAIN f.metric : f.metric[k] # Nil => OwnPairs(f.metric[k].id, f.metric[k].labels, f.index)
  <2>1. \A m \in Metrics(f) : OwnPairs(m.id, m.labels, f.index)
    BY DEF OwnLabels, OwnPairs
  <2>. QED  BY <2>1, MetricsOfFamily
<1>3. \A k \in DOMAIN f.metric : Replaces(f, g, k)
  BY <1>1, <1>2 DEF Replaces
<1>4. OwnLabels(g, shape)
  BY <1>1, <1>3, ReplacedOwnLabels
<1>5. (\A k \in DOMAIN s : s[k] # Nil) => Nil \notin ToSet(g.metric)
  BY <1>1 DEF ToSet
<1>. QED  BY <1>1, <1>4, <1>5

LEMMA WhitelistedFamily ==
  ASSUME NEW f \in MetricFamily, NEW shape, OwnLabels(f, shape)
  PROVE  Whitelisted(f) \in MetricFamily /\ Whitelisted(f).index = f.index /\ OwnLabels(Whitelisted(f), shape)
<1>. DEFINE s == [k \in DOMAIN f.metric |->
                    IF f.metric[k] # Nil /\ Matches(f.name, Names(f.metric[k])) THEN f.metric[k] ELSE Nil]
<1>1. s \in Seq(Metric \cup {Nil}) /\ DOMAIN s = DOMAIN f.metric
  <2>1. s \in [1..Len(f.metric) -> Metric \cup {Nil}]
    BY MetricsOfFamily
  <2>. QED  BY <2>1, MetricsOfFamily, FunctionIsSeq
<1>2. \A k \in DOMAIN s : s[k] # Nil => f.metric[k] # Nil /\ s[k] = f.metric[k]
  OBVIOUS
<1>3. Whitelisted(f) = [f EXCEPT !.metric = s]
  BY DEF Whitelisted, EachMetric
<1>. HIDE DEF s
<1>. QED  BY <1>1, <1>2, <1>3, TimesChanged

LEMMA UnexpiredFamily ==
  ASSUME NEW f \in MetricFamily, NEW shape, OwnLabels(f, shape)
  PROVE  DropExpired(f) \in MetricFamily /\ DropExpired(f).index = f.index /\ OwnLabels(DropExpired(f), shape)
<1>. DEFINE s == [k \in DOMAIN f.metric |->
                    IF f.metric[k] = Nil \/ TimeOf(f.metric[k]) < MinTime THEN Nil ELSE f.metric[k]]
<1>1. s \in Seq(Metric \cup {Nil}) /\ DOMAIN s = DOMAIN f.metric
  <2>1. s \in [1..Len(f.metric) -> Metric \cup {Nil}]
    BY MetricsOfFamily
  <2>. QED  BY <2>1, MetricsOfFamily, FunctionIsSeq
<1>2. \A k \in DOMAIN s : s[k] # Nil => f.metric[k] # Nil /\ s[k] = f.metric[k]
  OBVIOUS
<1>3. DropExpired(f) = [f EXCEPT !.metric = s]
  BY DEF DropExpired, EachMetric
<1>. HIDE DEF s
<1>. QED  BY <1>1, <1>2, <1>3, TimesChanged

\* Whatever the times before are.
LEMMA SortedOutFamily ==
  ASSUME NEW f \in MetricFamily, NEW shape, OwnLabels(f, shape)
  PROVE  DropUnsorted(f) \in MetricFamily /\ DropUnsorted(f).index = f.index /\ OwnLabels(DropUnsorted(f), shape)
<1>. DEFINE s == [n \in DOMAIN f.metric |->
         IF f.metric[n] = Nil \/ TimeOf(f.metric[n]) < LastKept(f)[n - 1] THEN Nil ELSE f.metric[n]]
<1>2. s \in Seq(Metric \cup {Nil}) /\ DOMAIN s = DOMAIN f.metric
  <2>1. s \in [1..Len(f.metric) -> Metric \cup {Nil}]
    BY MetricsOfFamily
  <2>. QED  BY <2>1, MetricsOfFamily, FunctionIsSeq
<1>3. \A k \in DOMAIN s : s[k] # Nil => f.metric[k] # Nil /\ s[k] = f.metric[k]
  OBVIOUS
<1>4. DropUnsorted(f) = [f EXCEPT !.metric = s]
  BY DEF DropUnsorted
<1>. HIDE DEF s
<1>. QED  BY <1>2, <1>3, <1>4, TimesChanged

LEMMA TimelessFamily ==
  ASSUME NEW f \in MetricFamily, NEW shape, OwnLabels(f, shape), Nil \notin ToSet(f.metric)
  PROVE  /\ DropTimestamp(f) \in MetricFamily /\ DropTimestamp(f).index = f.index
         /\ OwnLabels(DropTimestamp(f), shape) /\ Nil \notin ToSet(DropTimestamp(f).metric)
<1>. DEFINE Op(m) == IF m = Nil THEN Nil ELSE [m EXCEPT !.time = NoTime]
            s == [k \in DOMAIN f.metric |-> Op(f.metric[k])]
<1>1. ASSUME NEW k \in DOMAIN f.metric
      PROVE  /\ Op(f.metric[k]) \in Metric /\ f.metric[k] # Nil /\ Op(f.metric[k]).id = f.metric[k].id
             /\ Op(f.metric[k]).labels = f.metric[k].labels
  <2>. DEFINE m == f.metric[k]
              e == [m EXCEPT !.time = NoTime]
  <2>1. m \in Metric /\ m # Nil
    BY MetricsOfFamily
  <2>. HIDE DEF m
  <2>2. e \in Metric /\ e.id = m.id /\ e.labels = m.labels
    BY <2>1, WithTime
  <2>3. Op(m) = e
    BY <2>1
  <2>. HIDE DEF e, Op
  <2>. QED  BY <2>1, <2>2, <2>3 DEF m
<1>. HIDE DEF Op
<1>2. s \in Seq(Metric \cup {Nil}) /\ DOMAIN s = DOMAIN f.metric
  <2>1. s \in [1..Len(f.metric) -> Metric \cup {Nil}]
    BY <1>1, MetricsOfFamily
  <2>. QED  BY <2>1, MetricsOfFamily, FunctionIsSeq
<1>3. \A k \in DOMAIN s : /\ s[k] # Nil /\ f.metric[k] # Nil
                        /\ s[k].id = f.metric[k].id /\ s[k].labels = f.metric[k].labels
  BY <1>1
<1>4. DropTimestamp(f) = [f EXCEPT !.metric = s]
  BY DEF DropTimestamp, EachMetric, Op
<1>. HIDE DEF s
<1>5. \A k \in DOMAIN s : s[k] # Nil =>
        f.metric[k] # Nil /\ s[k].id = f.metric[k].id /\ s[k].labels = f.metric[k].labels
  BY <1>3
<1>6. \A k \in DOMAIN s : s[k] # Nil
  BY <1>3
<1>. DEFINE g == DropTimestamp(f)
<1>7. /\ f \in MetricFamily /\ OwnLabels(f, shape) /\ s \in Seq(Metric \cup {Nil})
      /\ DOMAIN s = DOMAIN f.metric /\ g = [f EXCEPT !.metric = s]
  BY <1>2, <1>4
<1>. HIDE DEF g
<1>8. /\ g \in MetricFamily /\ g.index = f.index /\ OwnLabels(g, shape)
      /\ (\A k \in DOMAIN s : s[k] # Nil) => Nil \notin ToSet(g.metric)
  BY ONLY <1>5, <1>7, TimesChanged
<1>. QED  BY <1>6, <1>8 DEF g

LEMMA OverwrittenFamily ==
  ASSUME NEW f \in MetricFamily, NEW shape, OwnLabels(f, shape), Nil \notin ToSet(f.metric)
  PROVE  /\ OverwriteTimestamps(f) \in MetricFamily /\ OverwriteTimestamps(f).index = f.index
         /\ OwnLabels(OverwriteTimestamps(f), shape) /\ Nil \notin ToSet(OverwriteTimestamps(f).metric)
<1>. DEFINE Op(m) == [m EXCEPT !.time = Now]
            s == [k \in DOMAIN f.metric |-> Op(f.metric[k])]
<1>1. ASSUME NEW k \in DOMAIN f.metric
      PROVE  /\ Op(f.metric[k]) \in Metric /\ f.metric[k] # Nil /\ Op(f.metric[k]).id = f.metric[k].id
             /\ Op(f.metric[k]).labels = f.metric[k].labels
  <2>. DEFINE m == f.metric[k]
  <2>1. m \in Metric /\ m # Nil
    BY MetricsOfFamily
  <2>. HIDE DEF m
  <2>2. Op(m) \in Metric /\ Op(m).id = m.id /\ Op(m).labels = m.labels
    BY <2>1, WithTime
  <2>. HIDE DEF Op
  <2>. QED  BY <2>1, <2>2 DEF m
<1>. HIDE DEF Op
<1>2. s \in Seq(Metric \cup {Nil}) /\ DOMAIN s = DOMAIN f.metric
  <2>1. s \in [1..Len(f.metric) -> Metric \cup {Nil}]
    BY <1>1, MetricsOfFamily
  <2>. QED  BY <2>1, MetricsOfFamily, FunctionIsSeq
<1>3. \A k \in DOMAIN s : /\ s[k] # Nil /\ f.metric[k] # Nil
                        /\ s[k].id = f.metric[k].id /\ s[k].labels = f.metric[k].labels
  BY <1>1
<1>4. OverwriteTimestamps(f) = [f EXCEPT !.metric = s]
  BY DEF OverwriteTimestamps, EachMetric, Op
<1>. HIDE DEF s
<1>5. \A k \in DOMAIN s : s[k] # Nil =>
        f.metric[k] # Nil /\ s[k].id = f.metric[k].id /\ s[k].labels = f.metric[k].labels
  BY <1>3
<1>6. \A k \in DOMAIN s : s[k] # Nil
  BY <1>3
<1>. DEFINE g == OverwriteTimestamps(f)
<1>7. /\ f \in MetricFamily /\ OwnLabels(f, shape) /\ s \in Seq(Metric \cup {Nil})
      /\ DOMAIN s = DOMAIN f.metric /\ g = [f EXCEPT !.metric = s]
  BY <1>2, <1>4
<1>. HIDE DEF g
<1>8. /\ g \in MetricFamily /\ g.index = f.index /\ OwnLabels(g, shape)
      /\ (\A k \in DOMAIN s : s[k] # Nil) => Nil \notin ToSet(g.metric)
  BY ONLY <1>5, <1>7, TimesChanged
<1>. QED  BY <1>6, <1>8 DEF g

-----------------------------------------------------------------------------
(* The steps.                                                              *)

\* Which transformer is next.
LEMMA StageOf ==
  ASSUME IndInv, NEW s, stages[stage] = s
  PROVE  /\ stages = Stages => stage \in 1..7 /\ Stages[stage] = s
         /\ stages = LibraryStages => stage \in 1..9 /\ LibraryStages[stage] = s
         /\ stages = Stages \/ stages = LibraryStages
<1>1. TypeOK
  BY DEF IndInv
<1>. QED  BY <1>1, Chain, TwoChains DEF TypeOK

LEMMA RewriteStepKeeps == IndInv /\ RewriteStep => IndInv'
<1>. SUFFICES ASSUME IndInv, RewriteStep PROVE IndInv'
  OBVIOUS
<1>. DEFINE f == families[at]
            shape == input[at]
<1>1. pc = "filter" /\ at <= Len(families) /\ latest' = latest /\ hashes' = hashes
  BY DEF RewriteStep, InStage
<1>2. /\ f \in MetricFamily /\ shape \in Shape /\ f.index = at /\ OwnLabels(f, shape)
      /\ stages = Stages => CollectorFamily(f, shape, stage - 1)
      /\ stages = LibraryStages => LibraryFamily(f, stage - 1)
  BY <1>1, Reached
<1>3. latest' \in Nat
  BY <1>1 DEF IndInv, TypeOK
<1>. HIDE DEF f, shape
<1>4. ASSUME NEW g \in MetricFamily, Accept(g), stages[stage] # "anonymize",
             g.index = at, OwnLabels(g, shape),
             stages = Stages => CollectorFamily(g, shape, stage),
             stages = LibraryStages => LibraryFamily(g, stage)
      PROVE  IndInv'
  BY <1>1, <1>3, <1>4, AcceptedUnhashed DEF shape
<1>5. CASE InStage("label") /\ Accept(Label(f))
  <2>1. stages[stage] = "label" /\ stages[stage] # "anonymize"
    BY <1>5 DEF InStage
  <2>2. stages = Stages /\ stage = 1
    BY <2>1, StageOf, CollectorStages, OtherStages, TwoChains
  <2>3. CollectorFamily(f, shape, 0)
    BY <1>2, <2>2
  <2>4. /\ Label(f) \in MetricFamily /\ Label(f).index = at
        /\ OwnLabels(Label(f), shape) /\ CollectorFamily(Label(f), shape, 1)
    BY <1>2, <2>3, Labelled
  <2>. QED  BY <1>4, <1>5, <2>1, <2>2, <2>4, TwoChains
<1>6. CASE InStage("rename") /\ Accept(Rename(f))
  <2>1. stages[stage] = "rename" /\ stages[stage] # "anonymize"
    BY <1>6 DEF InStage
  <2>2. stages = Stages /\ stage = 2
    BY <2>1, StageOf, CollectorStages, OtherStages, TwoChains
  <2>3. CollectorFamily(f, shape, 1)
    BY <1>2, <2>2
  <2>4. /\ Rename(f) \in MetricFamily /\ Rename(f).index = at
        /\ OwnLabels(Rename(f), shape) /\ CollectorFamily(Rename(f), shape, 2)
    BY <1>2, <2>3, Renamed
  <2>. QED  BY <1>4, <1>6, <2>1, <2>2, <2>4, TwoChains
<1>7. CASE InStage("elide") /\ Accept(Elide(f))
  <2>1. stages[stage] = "elide" /\ stages[stage] # "anonymize"
    BY <1>7 DEF InStage
  <2>2. stages = Stages /\ stage = 3
    BY <2>1, StageOf, CollectorStages, OtherStages, TwoChains
  <2>3. CollectorFamily(f, shape, 2)
    BY <1>2, <2>2
  <2>4. /\ Elide(f) \in MetricFamily /\ Elide(f).index = at
        /\ OwnLabels(Elide(f), shape) /\ CollectorFamily(Elide(f), shape, 3)
    BY <1>2, <2>3, ElidedFamily
  <2>. QED  BY <1>4, <1>7, <2>1, <2>2, <2>4, TwoChains
<1>8. CASE InStage("sort") /\ \E g \in Sorted(f) : Accept(g)
  <2>1. stages[stage] = "sort" /\ stages[stage] # "anonymize"
    BY <1>8 DEF InStage
  <2>2. stages = Stages /\ stage = 6
    BY <2>1, StageOf, CollectorStages, OtherStages, TwoChains
  <2>3. CollectorFamily(f, shape, 5)
    BY <1>2, <2>2
  <2>4. PICK g \in Sorted(f) : Accept(g)
    BY <1>8
  <2>5. /\ g \in MetricFamily /\ g.index = at
        /\ OwnLabels(g, shape) /\ CollectorFamily(g, shape, 6)
    BY <1>2, <2>3, SortedFamily
  <2>. QED  BY <1>4, <2>1, <2>2, <2>4, <2>5, TwoChains
<1>9. CASE InStage("expired") /\ Accept(DropExpired(f))
  <2>1. stages[stage] = "expired" /\ stages[stage] # "anonymize"
    BY <1>9 DEF InStage
  <2>2. stages = LibraryStages /\ stage = 3
    BY <2>1, StageOf, CollectorStages, OtherStages, TwoChains
  <2>3. /\ DropExpired(f) \in MetricFamily /\ DropExpired(f).index = at
        /\ OwnLabels(DropExpired(f), shape)
    BY <1>2, UnexpiredFamily
  <2>4. LibraryFamily(DropExpired(f), 3)
    BY DEF LibraryFamily
  <2>. QED  BY <1>4, <1>9, <2>1, <2>2, <2>3, <2>4, TwoChains
<1>10. CASE InStage("timeless") /\ Accept(DropTimestamp(f))
  <2>1. stages[stage] = "timeless" /\ stages[stage] # "anonymize"
    BY <1>10 DEF InStage
  <2>2. stages = LibraryStages /\ stage = 8
    BY <2>1, StageOf, CollectorStages, OtherStages, TwoChains
  <2>3. Nil \notin ToSet(f.metric)
    BY <1>2, <2>2 DEF LibraryFamily
  <2>4. /\ DropTimestamp(f) \in MetricFamily /\ DropTimestamp(f).index = at
        /\ OwnLabels(DropTimestamp(f), shape) /\ LibraryFamily(DropTimestamp(f), 8)
    BY <1>2, <2>3, TimelessFamily DEF LibraryFamily
  <2>. QED  BY <1>4, <1>10, <2>1, <2>2, <2>4, TwoChains
<1>11. CASE InStage("overwrite") /\ Accept(OverwriteTimestamps(f))
  <2>1. stages[stage] = "overwrite" /\ stages[stage] # "anonymize"
    BY <1>11 DEF InStage
  <2>2. stages = LibraryStages /\ stage = 9
    BY <2>1, StageOf, CollectorStages, OtherStages, TwoChains
  <2>3. Nil \notin ToSet(f.metric)
    BY <1>2, <2>2 DEF LibraryFamily
  <2>4. /\ OverwriteTimestamps(f) \in MetricFamily /\ OverwriteTimestamps(f).index = at
        /\ OwnLabels(OverwriteTimestamps(f), shape) /\ LibraryFamily(OverwriteTimestamps(f), 9)
    BY <1>2, <2>3, OverwrittenFamily DEF LibraryFamily
  <2>. QED  BY <1>4, <1>11, <2>1, <2>2, <2>4, TwoChains
<1>. QED  BY <1>5, <1>6, <1>7, <1>8, <1>9, <1>10, <1>11 DEF RewriteStep, f

LEMMA DropStepKeeps == IndInv /\ DropStep => IndInv'
<1>. SUFFICES ASSUME IndInv, DropStep PROVE IndInv'
  OBVIOUS
<1>. DEFINE f == families[at]
            shape == input[at]
<1>1. /\ pc = "filter" /\ at <= Len(families) /\ latest' = latest /\ hashes' = hashes
      /\ stages[stage] = "drop"
  BY DEF DropStep, InStage
<1>2. stages = Stages /\ stage = 4
  BY <1>1, StageOf, CollectorStages, OtherStages, TwoChains
<1>3. /\ f \in MetricFamily /\ shape \in Shape /\ f.index = at /\ OwnLabels(f, shape)
      /\ CollectorFamily(f, shape, 3)
  BY <1>1, <1>2, Reached
<1>4. latest' \in Nat
  BY <1>1 DEF IndInv, TypeOK
<1>5. CASE FamilyValid(f)
  <2>1. Accept(DropInvalid(f))
    BY <1>5 DEF DropStep
  <2>. HIDE DEF f
  <2>2. /\ DropInvalid(f) \in MetricFamily /\ DropInvalid(f).index = at
        /\ OwnLabels(DropInvalid(f), shape) /\ CollectorFamily(DropInvalid(f), shape, 4)
    BY <1>3, <1>5, InvalidDropped
  <2>. QED  BY <1>1, <1>2, <1>4, <2>1, <2>2, AcceptedUnhashed, TwoChains
<1>6. CASE ~FamilyValid(f)
  <2>1. Reject
    BY <1>6 DEF DropStep
  <2>2. Rename(shape).type = shape.type
    BY <1>3 DEF Rename, Shape
  <2>3. f.type = shape.type /\ f.name = Rename(shape).name
    BY <1>3 DEF CollectorFamily
  <2>4. ~ToBeLeft(shape)
    BY <1>6, <2>2, <2>3 DEF ToBeLeft, FamilyValid
  <2>. QED  BY <1>1, <2>1, <2>4, Rejected
<1>. QED  BY <1>5, <1>6

LEMMA PackStepKeeps == IndInv /\ PackStep => IndInv'
<1>. SUFFICES ASSUME IndInv, PackStep PROVE IndInv'
  OBVIOUS
<1>. DEFINE f == families[at]
            shape == input[at]
<1>1. /\ pc = "filter" /\ at <= Len(families) /\ latest' = latest /\ hashes' = hashes
      /\ stages[stage] = "pack" /\ stages[stage] # "anonymize"
  BY DEF PackStep, InStage
<1>2. /\ stages = Stages => stage = 5
      /\ stages = LibraryStages => stage = 6
  <2>1. ASSUME stages = Stages PROVE stage = 5
    <3>1. stage \in 1..Len(Stages) /\ Stages[stage] = "pack"
      BY <1>1, <2>1 DEF IndInv, TypeOK
    <3>. QED  BY <3>1, CollectorStages
  <2>2. ASSUME stages = LibraryStages PROVE stage = 6
    <3>1. stage \in 1..Len(LibraryStages) /\ LibraryStages[stage] = "pack"
      BY <1>1, <2>2 DEF IndInv, TypeOK
    <3>. QED  BY <3>1, OtherStages
  <2>. QED  BY <2>1, <2>2
<1>3. /\ f \in MetricFamily /\ f.index = at /\ OwnLabels(f, shape)
      /\ stages = Stages => CollectorFamily(f, shape, 4)
  BY <1>1, <1>2, Reached
<1>4. latest' \in Nat
  BY <1>1 DEF IndInv, TypeOK
<1>5. CASE Metrics(f) # {}
  <2>1. PICK g \in PackMetrics(f) : Accept(g)
    BY <1>5 DEF PackStep
  <2>. HIDE DEF f, shape
  <2>2. /\ g \in MetricFamily /\ g.index = at /\ OwnLabels(g, shape) /\ Nil \notin ToSet(g.metric)
    BY <1>3, PackedMetrics
  <2>3. stages = Stages => CollectorFamily(g, shape, stage)
    BY <1>2, <1>3, <1>5, PackedFamily
  <2>4. stages = LibraryStages => LibraryFamily(g, stage)
    BY <2>2 DEF LibraryFamily
  <2>. QED  BY <1>1, <1>4, <2>1, <2>2, <2>3, <2>4, AcceptedUnhashed DEF shape
<1>6. CASE Metrics(f) = {}
  <2>1. Reject
    BY <1>6 DEF PackStep
  <2>. HIDE DEF f
  <2>2. ASSUME stages = Stages PROVE ~ToBeLeft(shape)
    <3>1. {m.id : m \in Metrics(f)} = {k \in DOMAIN shape.samples : 4 >= 4 => SampleValid(shape.samples[k])}
      BY <1>3, <2>2 DEF CollectorFamily
    <3>. QED  BY <1>6, <3>1 DEF ToBeLeft
  <2>. QED  BY <1>1, <2>1, <2>2, Rejected
<1>. QED  BY <1>5, <1>6

LEMMA WhitelistStepKeeps == IndInv /\ WhitelistStep => IndInv'
<1>. SUFFICES ASSUME IndInv, WhitelistStep PROVE IndInv'
  OBVIOUS
<1>1. /\ pc = "filter" /\ at <= Len(families) /\ latest' = latest /\ hashes' = hashes
      /\ stages[stage] = "whitelist" /\ stages[stage] # "anonymize"
  BY DEF WhitelistStep, InStage
<1>2. stages = LibraryStages /\ stage = 1 /\ stages # Stages
  BY <1>1, StageOf, CollectorStages, OtherStages, TwoChains
<1>. DEFINE g == Whitelisted(families[at])
<1>3. g \in MetricFamily /\ g.index = at /\ OwnLabels(g, input[at])
  BY <1>1, Reached, WhitelistedFamily
<1>4. latest' \in Nat
  BY <1>1 DEF IndInv, TypeOK
<1>5. Accept(g) \/ Reject
  BY DEF WhitelistStep
<1>. HIDE DEF g
<1>6. LibraryFamily(g, stage)
  BY <1>2 DEF LibraryFamily
<1>7. CASE Accept(g)
  BY <1>1, <1>2, <1>3, <1>4, <1>6, <1>7, AcceptedUnhashed
<1>8. CASE Reject
  BY <1>1, <1>2, <1>8, Rejected
<1>. QED  BY <1>5, <1>7, <1>8

LEMMA EmptyStepKeeps == IndInv /\ EmptyStep => IndInv'
<1>. SUFFICES ASSUME IndInv, EmptyStep PROVE IndInv'
  OBVIOUS
<1>1. /\ pc = "filter" /\ at <= Len(families) /\ latest' = latest /\ hashes' = hashes
      /\ stages[stage] = "empty" /\ stages[stage] # "anonymize"
  BY DEF EmptyStep, InStage
<1>2. stages = LibraryStages /\ stage = 4 /\ stages # Stages
  BY <1>1, StageOf, CollectorStages, OtherStages, TwoChains
<1>. DEFINE g == families[at]
<1>3. g \in MetricFamily /\ g.index = at /\ OwnLabels(g, input[at])
  BY <1>1, Reached
<1>4. latest' \in Nat
  BY <1>1 DEF IndInv, TypeOK
<1>5. Accept(g) \/ Reject
  BY DEF EmptyStep
<1>. HIDE DEF g
<1>6. LibraryFamily(g, stage)
  BY <1>2 DEF LibraryFamily
<1>7. CASE Accept(g)
  BY <1>1, <1>2, <1>3, <1>4, <1>6, <1>7, AcceptedUnhashed
<1>8. CASE Reject
  BY <1>1, <1>2, <1>8, Rejected
<1>. QED  BY <1>5, <1>7, <1>8

LEMMA RequireStepKeeps == IndInv /\ RequireStep => IndInv'
<1>. SUFFICES ASSUME IndInv, RequireStep PROVE IndInv'
  OBVIOUS
<1>1. /\ pc = "filter" /\ at <= Len(families) /\ latest' = latest /\ hashes' = hashes
      /\ stages[stage] = "require" /\ stages[stage] # "anonymize"
  BY DEF RequireStep, InStage
<1>2. stages = LibraryStages /\ stage = 2 /\ stages # Stages
  BY <1>1, StageOf, CollectorStages, OtherStages, TwoChains
<1>. DEFINE g == families[at]
<1>3. g \in MetricFamily /\ g.index = at /\ OwnLabels(g, input[at])
  BY <1>1, Reached
<1>4. latest' \in Nat
  BY <1>1 DEF IndInv, TypeOK
<1>5. Accept(g) \/ Fail
  BY DEF RequireStep
<1>. HIDE DEF g
<1>6. LibraryFamily(g, stage)
  BY <1>2 DEF LibraryFamily
<1>7. CASE Accept(g)
  BY <1>1, <1>2, <1>3, <1>4, <1>6, <1>7, AcceptedUnhashed
<1>8. CASE Fail
  BY <1>1, <1>8, Failed
<1>. QED  BY <1>5, <1>7, <1>8

LEMMA ErrorUnsortedStepKeeps == IndInv /\ ErrorUnsortedStep => IndInv'
<1>. SUFFICES ASSUME IndInv, ErrorUnsortedStep PROVE IndInv'
  OBVIOUS
<1>1. /\ pc = "filter" /\ at <= Len(families) /\ latest' = latest /\ hashes' = hashes
      /\ stages[stage] = "errorUnsorted" /\ stages[stage] # "anonymize"
  BY DEF ErrorUnsortedStep, InStage
<1>2. stages = LibraryStages /\ stage = 7 /\ stages # Stages
  BY <1>1, StageOf, CollectorStages, OtherStages, TwoChains
<1>. DEFINE g == families[at]
<1>3. g \in MetricFamily /\ g.index = at /\ OwnLabels(g, input[at]) /\ LibraryFamily(g, 6)
  BY <1>1, <1>2, Reached
<1>4. latest' \in Nat
  BY <1>1 DEF IndInv, TypeOK
<1>5. Accept(g) \/ Fail
  BY DEF ErrorUnsortedStep
<1>. HIDE DEF g
<1>6. LibraryFamily(g, stage)
  BY <1>3 DEF LibraryFamily
<1>7. CASE Accept(g)
  BY <1>1, <1>2, <1>3, <1>4, <1>6, <1>7, AcceptedUnhashed
<1>8. CASE Fail
  BY <1>1, <1>8, Failed
<1>. QED  BY <1>5, <1>7, <1>8

LEMMA UnsortedStepKeeps == IndInv /\ UnsortedStep => IndInv'
<1>. SUFFICES ASSUME IndInv, UnsortedStep PROVE IndInv'
  OBVIOUS
<1>1. /\ pc = "filter" /\ at <= Len(families) /\ latest' = 0 /\ hashes' = hashes
      /\ stages[stage] = "unsorted" /\ stages[stage] # "anonymize"
      /\ Accept(DropUnsorted(families[at]))
  BY DEF UnsortedStep, InStage
<1>2. stages = LibraryStages /\ stage = 5 /\ stages # Stages
  BY <1>1, StageOf, CollectorStages, OtherStages, TwoChains
<1>. DEFINE g == DropUnsorted(families[at])
<1>3. g \in MetricFamily /\ g.index = at /\ OwnLabels(g, input[at])
  BY <1>1, Reached, SortedOutFamily
<1>4. latest' \in Nat /\ Accept(g)
  BY <1>1
<1>. HIDE DEF g
<1>5. LibraryFamily(g, stage)
  BY <1>2 DEF LibraryFamily
<1>. QED  BY <1>1, <1>2, <1>3, <1>4, <1>5, AcceptedUnhashed

\* The label pairs of a family are among those that are counted.
LEMMA CountedPairs ==
  ASSUME TypeOK, NEW f \in MetricFamily, f.index \in DOMAIN input, OwnLabels(f, input[f.index]),
         NEW m \in Metrics(f), NEW p \in m.labels
  PROVE  p \in AllPairs /\ p.family = f.index
<1>1. m \in Metric /\ p \in LabelPair
  BY MetricsOfFamily DEF Metric
<1>2. m.id \in DOMAIN input[f.index].samples /\ p.family = f.index /\ p.metric \in {0, m.id}
  BY DEF OwnLabels
<1>3. m.id \in 1..Len(input[f.index].samples) /\ Len(input[f.index].samples) \in Nat
  <2>1. input[f.index].samples \in Seq(Sample)
    BY InputIsShapes DEF Shape
  <2>. QED  BY <1>2, <2>1, LenProperties
<1>4. p.metric \in 0..Len(input[f.index].samples)
  BY <1>2, <1>3
<1>5. p = Pair(p.family, p.metric, p.name) /\ p.name \in LabelNames
  BY <1>1 DEF LabelPair, Pair
<1>. DEFINE Of(g) == {Pair(g, k, name) : k \in 0..Len(input[g].samples), name \in LabelNames}
<1>6. p \in Of(f.index)
  BY <1>2, <1>4, <1>5
<1>7. AllPairs = UNION {Of(g) : g \in DOMAIN input}
  BY DEF AllPairs
<1>. HIDE DEF Of
<1>. QED  BY <1>2, <1>6, <1>7

\* How many metrics of a family have a pair: none, if it is of another family;
\* one, if it was scraped; some, if it was added.
LEMMA PairCount ==
  ASSUME NEW f \in MetricFamily, NEW shape, OwnLabels(f, shape), NEW p
  PROVE  LET S == {m \in Metrics(f) : p \in m.labels} IN
         /\ Cardinality(S) \in Nat
         /\ p.family # f.index => Cardinality(S) = 0
         /\ \A m \in Metrics(f) : p \in m.labels => Cardinality(S) >= 1
         /\ \A m \in Metrics(f) : p \in m.labels /\ p.metric # 0 => Cardinality(S) = 1
<1>. DEFINE S == {m \in Metrics(f) : p \in m.labels}
<1>1. IsFiniteSet(S)
  BY FiniteMetrics, FS_Subset
<1>2. Cardinality(S) \in Nat
  BY <1>1, FS_CardinalityType
<1>3. ASSUME p.family # f.index PROVE Cardinality(S) = 0
  <2>1. S = {}
    BY <1>3 DEF OwnLabels
  <2>. QED  BY <2>1, FS_EmptySet
<1>4. ASSUME NEW m \in Metrics(f), p \in m.labels PROVE Cardinality(S) >= 1
  <2>1. S # {}
    BY <1>4
  <2>2. Cardinality(S) # 0
    BY <1>1, <2>1, FS_EmptySet
  <2>. QED  BY <1>2, <2>2
<1>5. ASSUME NEW m \in Metrics(f), p \in m.labels, p.metric # 0 PROVE Cardinality(S) = 1
  <2>1. ASSUME NEW n \in Metrics(f), p \in n.labels PROVE n = m
    <3>1. n.id = p.metric /\ m.id = p.metric
      BY <1>5, <2>1 DEF OwnLabels
    <3>2. PICK k \in DOMAIN f.metric : f.metric[k] = n /\ n # Nil
      BY MetricsOfFamily
    <3>3. PICK l \in DOMAIN f.metric : f.metric[l] = m /\ m # Nil
      BY MetricsOfFamily
    <3>4. k = l
      BY <3>1, <3>2, <3>3 DEF OwnLabels
    <3>. QED  BY <3>2, <3>3, <3>4
  <2>2. S = {m}
    BY <1>5, <2>1
  <2>. QED  BY <2>2, FS_Singleton
<1>. QED  BY <1>2, <1>3, <1>4, <1>5

LEMMA AnonymizeStepKeeps == IndInv /\ AnonymizeStep => IndInv'
<1>. SUFFICES ASSUME IndInv, AnonymizeStep PROVE IndInv'
  OBVIOUS
<1>. DEFINE f == families[at]
            shape == input[at]
            N(p) == Cardinality({m \in Metrics(f) : p \in m.labels})
<1>1. /\ pc = "filter" /\ at <= Len(families) /\ latest' = latest /\ hashes' = HashedPairs(f)
      /\ stages[stage] = "anonymize" /\ Accept(f)
  BY DEF AnonymizeStep, InStage
<1>2. stages = Stages /\ stage = 7 /\ stages # LibraryStages /\ Len(stages) = 7
  BY <1>1, StageOf, CollectorStages, OtherStages, TwoChains
<1>3. /\ f \in MetricFamily /\ f # Nil /\ f.index = at /\ OwnLabels(f, shape)
      /\ CollectorFamily(f, shape, 6)
      /\ at \in DOMAIN families /\ at \in DOMAIN input /\ at \in Nat
  BY <1>1, <1>2, Reached
<1>4. latest' \in Nat /\ TypeOK /\ FamiliesInv /\ PlacesInv /\ HashesInv
  BY <1>1 DEF IndInv, TypeOK
<1>5. \A p : /\ N(p) \in Nat
             /\ p.family # at => N(p) = 0
             /\ \A m \in Metrics(f) : p \in m.labels => N(p) >= 1
             /\ \A m \in Metrics(f) : p \in m.labels /\ p.metric # 0 => N(p) = 1
  <2>. HIDE DEF f, shape
  <2>. QED  BY <1>3, PairCount
<1>. HIDE DEF N
<1>6. hashes' = [p \in DOMAIN hashes |-> IF p.name \in Anonymized \ Blank THEN hashes[p] + N(p) ELSE hashes[p]]
  BY <1>1 DEF HashedPairs, N
<1>7. /\ DOMAIN hashes = AllPairs /\ hashes' \in [AllPairs -> Nat]
      /\ \A p \in AllPairs : hashes[p] \in Nat
      /\ \A p \in AllPairs : hashes'[p] = IF p.name \in Anonymized \ Blank THEN hashes[p] + N(p) ELSE hashes[p]
  <2>1. DOMAIN hashes = AllPairs /\ \A p \in AllPairs : hashes[p] \in Nat
    BY <1>4 DEF TypeOK
  <2>2. \A p \in AllPairs : hashes'[p] = IF p.name \in Anonymized \ Blank THEN hashes[p] + N(p) ELSE hashes[p]
    BY <1>6, <2>1
  <2>3. \A p \in AllPairs : hashes'[p] \in Nat
    <3>. SUFFICES ASSUME NEW p \in AllPairs PROVE hashes'[p] \in Nat
      OBVIOUS
    <3>1. hashes[p] \in Nat /\ N(p) \in Nat
      BY <1>5, <2>1
    <3>. QED  BY <2>2, <3>1
  <2>4. hashes' = [p \in AllPairs |-> hashes'[p]]
    BY <1>6, <2>1
  <2>. QED  BY <2>1, <2>2, <2>3, <2>4
<1>8. CollectorFamily(f, shape, 7)
  <2>. HIDE DEF f, shape
  <2>1. \A m \in Metrics(f) : MetricAfter(m, shape, 7)
    BY <1>3 DEF CollectorFamily, MetricAfter, LabelsAfter
  <2>2. f.name = Rename(shape).name
    BY <1>3 DEF CollectorFamily
  <2>3. {m.id : m \in Metrics(f)} = {k \in DOMAIN shape.samples : 7 >= 4 => SampleValid(shape.samples[k])}
    BY <1>3 DEF CollectorFamily
  <2>. QED  BY <1>3, <2>1, <2>2, <2>3 DEF CollectorFamily, MetricAfter
<1>9. /\ TypeOK' /\ FamiliesInv' /\ PlacesInv' /\ SeriesInv'
      /\ DOMAIN families' = DOMAIN families /\ families'[at] = f
      /\ \A g \in DOMAIN families : g # at => families'[g] = families[g] /\ Applied(g)' = Applied(g)
      /\ at' \in Nat /\ at' >= at /\ input' = input /\ stages' = stages /\ pc' = pc
  <2>. HIDE DEF f, shape
  <2>. QED  BY <1>1, <1>2, <1>3, <1>4, <1>7, <1>8, Accepted DEF shape
<1>10. at' = at + 1
  BY <1>1, <1>2 DEF Accept
<1>11. AllPairs' = AllPairs /\ \A p \in AllPairs : p.family \in Nat
  <2>1. AllPairs' = AllPairs
    BY <1>9 DEF AllPairs
  <2>2. \A p \in AllPairs : p.family \in DOMAIN input
    BY DEF AllPairs, Pair
  <2>. QED  BY <1>4, <2>1, <2>2, InputIsShapes
<1>12. ASSUME NEW p \in AllPairs,
              p.name \notin Anonymized \ Blank \/ p.family >= at'
       PROVE  hashes'[p] = 0
  <2>1. CASE p.name \notin Anonymized \ Blank
    BY <1>4, <1>7, <2>1 DEF HashesInv
  <2>2. CASE p.family >= at'
    <3>1. p.family >= at /\ p.family # at
      BY <1>3, <1>10, <1>11, <2>2
    <3>2. hashes[p] = 0
      BY <1>1, <1>4, <3>1 DEF HashesInv
    <3>3. N(p) = 0
      BY <1>5, <3>1
    <3>. QED  BY <1>7, <3>2, <3>3
  <2>. QED  BY <1>12, <2>1, <2>2
<1>13. ASSUME NEW g \in DOMAIN families, families'[g] # Nil, Applied(g)' = Len(stages),
              NEW m \in Metrics(families'[g]), NEW p \in m.labels, p.name \in Anonymized \ Blank
       PROVE  hashes'[p] >= 1 /\ (p.metric # 0 => hashes'[p] = 1)
  <2>1. CASE g = at
    <3>1. families'[g] = f /\ m \in Metrics(f)
      BY <1>9, <1>13, <2>1
    <3>2. p \in AllPairs /\ p.family = at
      <4>. HIDE DEF f
      <4>. QED  BY <1>3, <1>4, <1>13, <3>1, CountedPairs
    <3>3. hashes[p] = 0
      BY <1>1, <1>3, <1>4, <3>2 DEF HashesInv
    <3>4. hashes'[p] = N(p)
      <4>1. N(p) \in Nat
        BY <1>5
      <4>. QED  BY <1>7, <1>13, <3>2, <3>3, <4>1
    <3>. QED  BY <1>5, <3>1, <3>4
  <2>2. CASE g # at
    <3>1. families'[g] = families[g] /\ families[g] # Nil /\ Applied(g) = Len(stages)
      BY <1>9, <1>13, <2>2
    <3>2. families[g] \in MetricFamily /\ families[g].index = g
      BY <1>1, <1>4, <3>1, FamilyList DEF PlacesInv
    <3>3. g \in DOMAIN input /\ OwnLabels(families[g], input[g])
      BY <1>4, <3>1, <3>2 DEF FamiliesInv
    <3>4. p \in AllPairs /\ p.family = g
      BY <1>4, <1>13, <3>1, <3>2, <3>3, CountedPairs
    <3>5. hashes[p] >= 1 /\ (p.metric # 0 => hashes[p] = 1)
      BY <1>2, <1>4, <1>13, <3>1 DEF HashesInv
    <3>6. N(p) = 0 /\ hashes[p] \in Nat
      BY <1>5, <1>7, <2>2, <3>4
    <3>7. hashes'[p] = hashes[p]
      BY <1>7, <1>13, <3>4, <3>6
    <3>. QED  BY <3>5, <3>7
  <2>. QED  BY <2>1, <2>2
<1>14. HashesInv'
  <2>1. ASSUME NEW p \in AllPairs,
               \/ p.name \notin Anonymized \ Blank
               \/ stages' = LibraryStages
               \/ (pc' \in {"filter", "failed"} /\ p.family >= at')
        PROVE  hashes'[p] = 0
    BY <1>2, <1>9, <1>12, <2>1
  <2>. QED  BY <1>9, <1>11, <1>13, <2>1 DEF HashesInv, Metrics
<1>. QED  BY <1>9, <1>14 DEF IndInv

LEMMA EndFilterKeeps == IndInv /\ EndFilter => IndInv'
<1>. SUFFICES ASSUME IndInv, EndFilter PROVE IndInv'
  OBVIOUS
<1>1. TypeOK /\ FamiliesInv /\ PlacesInv /\ HashesInv /\ SeriesInv
  BY DEF IndInv
<1>2. /\ pc = "filter" /\ at > Len(families) /\ pc' = "pack"
      /\ input' = input /\ families' = families /\ stages' = stages /\ at' = at /\ stage' = stage
      /\ latest' = latest /\ hashes' = hashes /\ series' = series /\ AllPairs' = AllPairs
  BY DEF EndFilter, filterVars, AllPairs
<1>3. \A f \in DOMAIN families : Applied(f)' = Applied(f)
  <2>1. \A f \in DOMAIN families : f < at
    BY <1>1, <1>2, FamilyList DEF TypeOK
  <2>. QED  BY <1>2, <2>1 DEF Applied
<1>4. TypeOK'
  BY <1>1, <1>2 DEF TypeOK
<1>5. FamiliesInv'
  BY <1>1, <1>2, <1>3 DEF FamiliesInv
<1>6. PlacesInv'
  <2>1. at = Len(families) + 1
    BY <1>1, <1>2, FamilyList DEF PlacesInv, TypeOK
  <2>. QED  BY <1>1, <1>2, <2>1 DEF PlacesInv, ToBeLeft
<1>7. HashesInv'
  BY <1>1, <1>2, <1>3 DEF HashesInv, Metrics
<1>8. SeriesInv'
  BY <1>1, <1>2 DEF SeriesInv
<1>. QED  BY <1>4, <1>5, <1>6, <1>7, <1>8 DEF IndInv

LEMMA PackFamiliesKeeps == IndInv /\ PackFamilies => IndInv'
<1>. SUFFICES ASSUME IndInv, PackFamilies PROVE IndInv'
  OBVIOUS
<1>. DEFINE P == {f \in DOMAIN families : families[f] # Nil /\ Len(families[f].metric) > 0}
<1>1. TypeOK /\ FamiliesInv /\ PlacesInv /\ HashesInv /\ SeriesInv
  BY DEF IndInv
<1>2. /\ pc = "pack" /\ pc' = "convert" /\ at' = 1 /\ families' \in Packed(families, P)
      /\ input' = input /\ stages' = stages /\ stage' = stage
      /\ latest' = latest /\ hashes' = hashes /\ series' = series /\ AllPairs' = AllPairs
  BY DEF PackFamilies, AllPairs
<1>3. \A f : f \in P <=> f \in DOMAIN families /\ families[f] # Nil /\ Len(families[f].metric) > 0
  OBVIOUS
<1>4. families \in Seq(MetricFamily \cup {Nil}) /\ P \in SUBSET DOMAIN families
  BY <1>1, FamilyList
<1>. HIDE DEF P
<1>5. families' \in Seq(MetricFamily \cup {Nil}) /\ \E h : Picks(families', families, P, h)
  BY <1>2, <1>4, PackedElements
<1>6. PICK h : Picks(families', families, P, h)
  BY <1>5
<1>7. \A k \in DOMAIN families' : /\ h[k] \in DOMAIN families /\ h[k] \in P
                               /\ families[h[k]] # Nil /\ families'[k] = families[h[k]]
  BY <1>3, <1>6 DEF Picks
<1>8. \A f \in DOMAIN families : Applied(f) = Len(stages)
  BY <1>2 DEF Applied
<1>9. \A f : Applied(f)' = Len(stages)
  BY <1>2 DEF Applied
<1>10. TypeOK'
  BY <1>1, <1>2, <1>5 DEF TypeOK
<1>11. FamiliesInv'
  <2>. SUFFICES ASSUME NEW k \in DOMAIN families'
       PROVE  /\ families'[k].index \in DOMAIN input
              /\ OwnLabels(families'[k], input[families'[k].index])
              /\ stages = Stages => CollectorFamily(families'[k], input[families'[k].index], Applied(k)')
              /\ stages = LibraryStages => LibraryFamily(families'[k], Applied(k)')
    BY <1>2 DEF FamiliesInv
  <2>1. Applied(k)' = Applied(h[k])
    BY <1>7, <1>8, <1>9
  <2>. QED  BY <1>1, <1>7, <2>1 DEF FamiliesInv
<1>12. PlacesInv'
  <2>1. Nil \notin ToSet(families')
    BY <1>7 DEF ToSet
  <2>2. ASSUME NEW k \in DOMAIN families', NEW l \in DOMAIN families', families'[k].index = families'[l].index
        PROVE  k = l
    <3>1. h[k] = h[l]
      BY <1>1, <1>7, <2>2 DEF PlacesInv
    <3>. QED  BY <1>6, <3>1 DEF Picks
  <2>3. ASSUME stages = Stages, NEW n \in DOMAIN input, ToBeLeft(input[n])
        PROVE  \E k \in DOMAIN families' : families'[k] # Nil /\ families'[k].index = n
    <3>1. PICK f \in DOMAIN families : families[f] # Nil /\ families[f].index = n
      BY <1>1, <2>3 DEF PlacesInv
    <3>2. families[f] \in MetricFamily /\ CollectorFamily(families[f], input[n], 7)
      <4>1. Applied(f) = 7
        BY <1>8, <2>3, TwoChains
      <4>. QED  BY <1>1, <2>3, <3>1, <4>1, FamilyList DEF FamiliesInv
    <3>3. Len(families[f].metric) > 0
      <4>1. families[f].metric # <<>> /\ families[f].metric \in Seq(Metric \cup {Nil})
        BY <3>2, MetricsOfFamily DEF CollectorFamily
      <4>2. Len(families[f].metric) \in Nat \ {0}
        BY <4>1, EmptySeq
      <4>. QED  BY <4>2
    <3>4. f \in P
      BY <1>3, <3>1, <3>3
    <3>5. PICK k \in DOMAIN families' : h[k] = f
      BY <1>6, <3>4 DEF Picks
    <3>. QED  BY <1>7, <3>1, <3>5
  <2>. QED  BY <1>2, <2>1, <2>2, <2>3 DEF PlacesInv, ToBeLeft
<1>13. HashesInv'
  <2>1. ASSUME stages = Stages, NEW k \in DOMAIN families',
               NEW m \in Metrics(families'[k]), NEW p \in m.labels, p.name \in Anonymized \ Blank
        PROVE  hashes[p] >= 1 /\ (p.metric # 0 => hashes[p] = 1)
    BY <1>1, <1>7, <1>8, <2>1 DEF HashesInv
  <2>2. ASSUME NEW p \in AllPairs, p.name \notin Anonymized \ Blank \/ stages = LibraryStages
        PROVE  hashes[p] = 0
    BY <1>1, <2>2 DEF HashesInv
  <2>. QED  BY <1>2, <2>1, <2>2 DEF HashesInv, Metrics
<1>14. SeriesInv'
  <2>1. series' = <<>> /\ DOMAIN series' = {} /\ ToSet(series') = {}
    BY <1>1, <1>2 DEF SeriesInv, ToSet
  <2>2. DOMAIN families' = 1..Len(families') /\ Len(families') \in Nat
    BY <1>5, LenProperties
  <2>3. 1..(at' - 1) = {} /\ at' <= Len(families') + 1 /\ \A f \in DOMAIN families' : ~(f < at')
    BY <1>2, <2>2
  <2>. QED  BY <1>2, <2>1, <2>3 DEF SeriesInv
<1>. QED  BY <1>10, <1>11, <1>12, <1>13, <1>14 DEF IndInv

LEMMA EndConvertKeeps == IndInv /\ EndConvert => IndInv'
<1>. SUFFICES ASSUME IndInv, EndConvert PROVE IndInv'
  OBVIOUS
<1>1. TypeOK /\ FamiliesInv /\ PlacesInv /\ HashesInv /\ SeriesInv
  BY DEF IndInv
<1>2. /\ pc = "convert" /\ at > Len(families) /\ pc' = "done"
      /\ input' = input /\ families' = families /\ stages' = stages /\ at' = at /\ stage' = stage
      /\ latest' = latest /\ hashes' = hashes /\ series' = series /\ AllPairs' = AllPairs
  BY DEF EndConvert, ConvertFrame, AllPairs
<1>3. \A f \in DOMAIN families : Applied(f)' = Applied(f)
  BY <1>2 DEF Applied
<1>4. TypeOK'
  BY <1>1, <1>2 DEF TypeOK
<1>5. FamiliesInv'
  BY <1>1, <1>2, <1>3 DEF FamiliesInv
<1>6. PlacesInv'
  BY <1>1, <1>2 DEF PlacesInv, ToBeLeft
<1>7. HashesInv'
  BY <1>1, <1>2, <1>3 DEF HashesInv, Metrics
<1>8. SeriesInv'
  BY <1>1, <1>2 DEF SeriesInv, Series, Metrics
<1>. QED  BY <1>4, <1>5, <1>6, <1>7, <1>8 DEF IndInv

\* How many labels of each name a series is to have if its metric has the labels `names`.
ExpectedCounts(names) ==
  [name \in LabelNames |-> (IF name = NameLabel THEN 1 ELSE 0) + (IF name \in names THEN 1 ELSE 0)]

LEMMA CountedLabels ==
  ASSUME NEW m, \A p, q \in m.labels : p.name = q.name => p = q
  PROVE  LabelCounts(m) = ExpectedCounts(Names(m))
<1>1. ASSUME NEW l PROVE Cardinality({p \in m.labels : p.name = l}) = IF l \in Names(m) THEN 1 ELSE 0
  <2>. DEFINE Called == {p \in m.labels : p.name = l}
  <2>1. CASE l \in Names(m)
    <3>1. PICK p \in m.labels : p.name = l
      BY <2>1 DEF Names
    <3>2. Called = {p}
      BY <3>1
    <3>3. Cardinality({p}) = 1
      BY FS_Singleton
    <3>. QED  BY <2>1, <3>2, <3>3
  <2>2. CASE l \notin Names(m)
    <3>1. Called = {}
      BY <2>2 DEF Names
    <3>2. Cardinality({}) = 0
      BY FS_EmptySet
    <3>. QED  BY <2>2, <3>1, <3>2
  <2>. QED  BY <2>1, <2>2
<1>. QED  BY <1>1 DEF LabelCounts, ExpectedCounts

SeriesOf(f) == [k \in DOMAIN f.metric |-> Series(f, f.metric[k])]

\* A family without nil has one series for each metric.
LEMMA OneSeriesEach ==
  ASSUME NEW f \in MetricFamily, NEW shape, OwnLabels(f, shape), Nil \notin ToSet(f.metric)
  PROVE  /\ SeriesOf(f) \in
              Seq(TimeSeries)
         /\ ToSet(SeriesOf(f)) = {Series(f, m) : m \in Metrics(f)}
         /\ \A k, l \in DOMAIN SeriesOf(f) : SeriesOf(f)[k] = SeriesOf(f)[l] => k = l
         /\ \A k \in DOMAIN SeriesOf(f) : SeriesOf(f)[k].family = f.index
<1>. DEFINE R == TimeSeries
            s == SeriesOf(f)
<1>1. \A m \in Metrics(f) : Series(f, m) \in R /\ Series(f, m).family = f.index /\ Series(f, m).id = m.id
  <2>. SUFFICES ASSUME NEW m \in Metrics(f)
       PROVE  Series(f, m) \in R /\ Series(f, m).family = f.index /\ Series(f, m).id = m.id
    OBVIOUS
  <2>1. /\ f.index \in Nat /\ m.id \in Nat /\ f.name \in STRING
        /\ m.time \in Nat \cup {NoTime}
    BY MetricsOfFamily DEF MetricFamily, Metric
  <2>2. LabelCounts(m) \in [LabelNames -> Nat]
    <3>1. \A p, q \in m.labels : p.name = q.name => p = q
      BY DEF OwnLabels
    <3>2. LabelCounts(m) = ExpectedCounts(Names(m))
      BY <3>1, CountedLabels
    <3>. QED  BY <3>2 DEF ExpectedCounts
  <2>3. (IF m.time > Now THEN Now ELSE m.time) \in Nat \cup {NoTime}
    BY <2>1
  <2>. QED  BY <2>1, <2>2, <2>3 DEF Series, TimeSeries
<1>2. \A k \in DOMAIN f.metric : f.metric[k] \in Metrics(f) /\ f.metric[k] # Nil
  BY MetricsOfFamily
<1>3. DOMAIN s = DOMAIN f.metric /\ \A k \in DOMAIN f.metric : s[k] = Series(f, f.metric[k])
  BY DEF SeriesOf
<1>4. s \in Seq(R)
  <2>1. s = [k \in 1..Len(f.metric) |-> Series(f, f.metric[k])]
    BY MetricsOfFamily DEF SeriesOf
  <2>. HIDE DEF R
  <2>2. s \in [1..Len(f.metric) -> R]
    BY <1>1, <1>2, <2>1, MetricsOfFamily
  <2>. QED  BY <2>2, MetricsOfFamily, FunctionIsSeq
<1>. HIDE DEF s
<1>5. ToSet(s) = {Series(f, m) : m \in Metrics(f)}
  <2>1. ASSUME NEW m \in Metrics(f) PROVE \E k \in DOMAIN s : s[k] = Series(f, m)
    <3>1. PICK k \in DOMAIN f.metric : f.metric[k] = m
      BY MetricsOfFamily
    <3>. QED  BY <1>3, <3>1
  <2>. QED  BY <1>2, <1>3, <2>1 DEF ToSet
<1>6. \A k, l \in DOMAIN s : s[k] = s[l] => k = l
  <2>. SUFFICES ASSUME NEW k \in DOMAIN s, NEW l \in DOMAIN s, s[k] = s[l] PROVE k = l
    OBVIOUS
  <2>1. f.metric[k].id = f.metric[l].id
    BY <1>1, <1>2, <1>3
  <2>. QED  BY <1>2, <1>3, <2>1 DEF OwnLabels
<1>7. \A k \in DOMAIN s : s[k].family = f.index
  BY <1>1, <1>2, <1>3
<1>. QED  BY <1>4, <1>5, <1>6, <1>7 DEF s

LEMMA ConvertKeeps == IndInv /\ Convert => IndInv'
<1>. SUFFICES ASSUME IndInv, Convert PROVE IndInv'
  OBVIOUS
<1>. DEFINE f == families[at]
            R == TimeSeries
<1>1. TypeOK /\ FamiliesInv /\ PlacesInv /\ HashesInv /\ SeriesInv
  BY DEF IndInv
<1>2. /\ pc = "convert" /\ at <= Len(families)
      /\ input' = input /\ families' = families /\ stages' = stages /\ stage' = stage
      /\ latest' = latest /\ hashes' = hashes /\ AllPairs' = AllPairs
  BY DEF Convert, ConvertFrame, AllPairs
<1>3. \/ f.type # "simple" /\ pc' = "unsupported" /\ at' = at /\ series' = series
      \/ f.type = "simple" /\ pc' = "convert" /\ at' = at + 1 /\ series' = series \o SeriesOf(f)
  BY <1>2 DEF Convert, SeriesOf
<1>4. \A g : Applied(g)' = Applied(g) /\ Applied(g) = Len(stages)
  BY <1>2, <1>3 DEF Applied
<1>5. at \in DOMAIN families /\ at \in Nat \ {0} /\ Len(families) \in Nat
  BY <1>1, <1>2, FamilyList DEF TypeOK
<1>6. f # Nil /\ f \in MetricFamily
  <2>1. f # Nil
    BY <1>1, <1>2, <1>5 DEF PlacesInv, ToSet
  <2>. QED  BY <1>1, <1>5, <2>1, FamilyList
<1>7. OwnLabels(f, input[f.index]) /\ Nil \notin ToSet(f.metric)
  <2>1. /\ OwnLabels(f, input[f.index])
        /\ stages = Stages => CollectorFamily(f, input[f.index], Len(stages))
        /\ stages = LibraryStages => LibraryFamily(f, Len(stages))
    BY <1>1, <1>4, <1>5, <1>6 DEF FamiliesInv
  <2>2. CASE stages = Stages
    <3>1. CollectorFamily(f, input[f.index], Len(stages)) /\ Len(stages) # 4
      BY <2>1, <2>2, TwoChains
    <3>2. Nil \notin ToSet(f.metric)
      BY ONLY <3>1 DEF CollectorFamily
    <3>. QED  BY <2>1, <3>2
  <2>3. CASE stages = LibraryStages
    BY <2>1, <2>3, TwoChains DEF LibraryFamily
  <2>. QED  BY <1>1, <2>1, <2>2, <2>3, Chain
<1>8. /\ SeriesOf(f) \in Seq(R) /\ ToSet(SeriesOf(f)) = {Series(f, m) : m \in Metrics(f)}
      /\ \A k, l \in DOMAIN SeriesOf(f) : SeriesOf(f)[k] = SeriesOf(f)[l] => k = l
      /\ \A k \in DOMAIN SeriesOf(f) : SeriesOf(f)[k].family = f.index
  <2>. HIDE DEF f
  <2>. QED  BY <1>6, <1>7, OneSeriesEach
<1>9. series \in Seq(R)
  BY <1>1 DEF TypeOK
<1>10. \A k \in DOMAIN series : \A l \in DOMAIN SeriesOf(f) : series[k] # SeriesOf(f)[l]
  <2>. SUFFICES ASSUME NEW k \in DOMAIN series PROVE series[k].family # f.index
    BY <1>8
  <2>1. series[k] \in UNION {{Series(families[g], m) : m \in Metrics(families[g])} : g \in 1..(at - 1)}
    BY <1>1, <1>2 DEF SeriesInv, ToSet
  <2>2. PICK g \in 1..(at - 1) : \E m \in Metrics(families[g]) : series[k] = Series(families[g], m)
    BY ONLY <2>1
  <2>3. series[k].family = families[g].index
    BY <2>2 DEF Series
  <2>4. g \in DOMAIN families /\ g # at
    BY <1>1, <1>2, <1>5, FamilyList
  <2>5. families[g] # Nil
    BY <1>1, <1>2, <2>4 DEF PlacesInv, ToSet
  <2>. QED  BY <1>1, <1>5, <1>6, <2>3, <2>4, <2>5 DEF PlacesInv
<1>11. /\ series \o SeriesOf(f) \in Seq(R)
       /\ ToSet(series \o SeriesOf(f)) = ToSet(series) \cup ToSet(SeriesOf(f))
       /\ \A k, l \in DOMAIN (series \o SeriesOf(f)) :
             (series \o SeriesOf(f))[k] = (series \o SeriesOf(f))[l] => k = l
  <2>1. \A k, l \in DOMAIN series : series[k] = series[l] => k = l
    BY <1>1, <1>2 DEF SeriesInv
  <2>. HIDE DEF R, f
  <2>. QED  BY <1>8, <1>9, <1>10, <2>1, ConcatElements
<1>12. TypeOK'
  <2>1. at' \in Nat \ {0} /\ series' \in Seq(R) /\ pc' \in {"convert", "unsupported"}
    <3>. HIDE DEF R, f
    <3>1. at' \in Nat \ {0} /\ pc' \in {"convert", "unsupported"}
      BY <1>3, <1>5
    <3>2. series' \in Seq(R)
      BY <1>3, <1>9, <1>11
    <3>. QED  BY <3>1, <3>2
  <2>. QED  BY <1>1, <1>2, <2>1 DEF TypeOK
<1>13. FamiliesInv'
  BY <1>1, <1>2, <1>4 DEF FamiliesInv
<1>14. PlacesInv'
  <2>1. pc' \in {"convert", "unsupported"}
    BY <1>3
  <2>. QED  BY <1>1, <1>2, <2>1 DEF PlacesInv, ToBeLeft
<1>15. HashesInv'
  <2>1. pc' \notin {"filter", "failed"}
    BY <1>3
  <2>. QED  BY <1>1, <1>2, <1>4, <2>1 DEF HashesInv, Metrics
<1>16. SeriesInv'
  <2>. DEFINE Made(g) == {Series(families[g], m) : m \in Metrics(families[g])}
  <2>1. /\ \A g \in DOMAIN families : g < at => families[g].type = "simple"
        /\ ToSet(series) = UNION {Made(g) : g \in 1..(at - 1)}
        /\ \A n, l \in DOMAIN series : series[n] = series[l] => n = l
    BY <1>1, <1>2 DEF SeriesInv
  <2>2. ASSUME NEW g PROVE Made(g) = {Series(families[g], m)' : m \in Metrics(families[g])'}
    BY <1>2 DEF Series, Metrics
  <2>3. CASE f.type # "simple" /\ pc' = "unsupported" /\ at' = at /\ series' = series
    <3>1. at <= Len(families) + 1
      BY <1>2, <1>5
    <3>. QED  BY <1>2, <2>1, <2>3, <3>1 DEF SeriesInv, Series, Metrics
  <2>4. CASE f.type = "simple" /\ pc' = "convert" /\ at' = at + 1 /\ series' = series \o SeriesOf(f)
    <3>1. at' <= Len(families) + 1
      BY <1>2, <1>5, <2>4
    <3>2. \A g \in DOMAIN families : g < at' => families[g].type = "simple"
      <4>1. \A g \in DOMAIN families : g < at' => g < at \/ g = at
        BY <1>1, <1>5, <2>4, FamilyList
      <4>. QED  BY <2>1, <2>4, <4>1
    <3>3. ToSet(series') = UNION {Made(g) : g \in 1..(at' - 1)}
      <4>1. 1..(at' - 1) = 1..(at - 1) \cup {at}
        BY <1>5, <2>4
      <4>2. ToSet(series') = ToSet(series) \cup Made(at)
        BY <1>8, <1>11, <2>4
      <4>. HIDE DEF Made
      <4>3. ASSUME NEW e PROVE e \in ToSet(series') <=> \E g \in 1..(at' - 1) : e \in Made(g)
        BY <2>1, <4>1, <4>2
      <4>. QED  BY <4>3
    <3>4. \A n, l \in DOMAIN series' : series'[n] = series'[l] => n = l
      BY <1>11, <2>4
    <3>. QED  BY <1>2, <2>4, <3>1, <3>2, <3>3, <3>4 DEF SeriesInv, Series, Metrics
  <2>. QED  BY <1>3, <2>3, <2>4
<1>. QED  BY <1>12, <1>13, <1>14, <1>15, <1>16 DEF IndInv

LEMMA NextIndInv == IndInv /\ [Next]_vars => IndInv'
<1>. SUFFICES ASSUME IndInv, [Next]_vars PROVE IndInv'
  OBVIOUS
<1>1. ASSUME UNCHANGED vars PROVE IndInv'
  <2>1. /\ input' = input /\ families' = families /\ stages' = stages /\ at' = at /\ stage' = stage
        /\ latest' = latest /\ hashes' = hashes /\ series' = series /\ pc' = pc
    BY <1>1 DEF vars, filterVars
  <2>2. AllPairs' = AllPairs /\ \A f : Applied(f)' = Applied(f)
    BY <2>1 DEF AllPairs, Applied
  <2>3. TypeOK /\ FamiliesInv /\ PlacesInv /\ HashesInv /\ SeriesInv
    BY DEF IndInv
  <2>4. TypeOK'
    BY <2>1, <2>2, <2>3 DEF TypeOK
  <2>5. FamiliesInv'
    BY <2>1, <2>2, <2>3 DEF FamiliesInv
  <2>6. PlacesInv'
    BY <2>1, <2>3 DEF PlacesInv, ToBeLeft
  <2>7. HashesInv'
    BY <2>1, <2>2, <2>3 DEF HashesInv, Metrics
  <2>8. SeriesInv'
    BY <2>1, <2>3 DEF SeriesInv, Series, Metrics
  <2>. QED  BY <2>4, <2>5, <2>6, <2>7, <2>8 DEF IndInv
<1>. QED  BY <1>1, RewriteStepKeeps, DropStepKeeps, PackStepKeeps, AnonymizeStepKeeps,
              WhitelistStepKeeps, EmptyStepKeeps, RequireStepKeeps, ErrorUnsortedStepKeeps,
              UnsortedStepKeeps, EndFilterKeeps, PackFamiliesKeeps, ConvertKeeps, EndConvertKeeps
          DEF Next

-----------------------------------------------------------------------------
(* Theorems.                                                               *)

\* After n transformers a family has exactly the samples that it is to have and
\* they are as they are to be; families keep their places until Pack; a value is
\* hashed last; the series are those of the families that were converted.
THEOREM Invariance == Spec => []IndInv
<1>1. Init => IndInv
  BY InitIndInv
<1>2. IndInv /\ [Next]_vars => IndInv'
  BY NextIndInv
<1>. QED  BY <1>1, <1>2, PTL DEF Spec

\* No transformer follows a nil pointer: those that do not look, of label.go,
\* elide.go and overwrite.go, come before nil metrics are made, or after a Pack.
THEOREM NilIsNotFollowed == Spec => []NoNilDereferenced
<1>1. ASSUME IndInv, NEW s \in {"label", "elide", "overwrite"}, InStage(s)
      PROVE  Nil \notin ToSet(families[at].metric)
  <2>1. pc = "filter" /\ at <= Len(families) /\ stages[stage] = s
    BY <1>1 DEF InStage
  <2>2. CASE stages = Stages
    <3>1. stage = 1 \/ stage = 3
      <4>1. stage \in 1..Len(Stages) /\ Stages[stage] = s
        BY <1>1, <2>1, <2>2 DEF IndInv, TypeOK
      <4>. QED  BY <1>1, <4>1, CollectorStages
    <3>2. CollectorFamily(families[at], input[at], stage - 1) /\ stage - 1 # 4
      BY <1>1, <2>1, <2>2, <3>1, Reached
    <3>. QED  BY <3>2 DEF CollectorFamily
  <2>3. CASE stages = LibraryStages
    <3>1. stage = 9
      <4>1. stage \in 1..Len(LibraryStages) /\ LibraryStages[stage] = s
        BY <1>1, <2>1, <2>3 DEF IndInv, TypeOK
      <4>. QED  BY <1>1, <4>1, OtherStages
    <3>2. LibraryFamily(families[at], 8)
      BY <1>1, <2>1, <2>3, <3>1, Reached
    <3>. QED  BY <3>2 DEF LibraryFamily
  <2>. QED  BY <1>1, <2>2, <2>3, Chain DEF IndInv
<1>2. IndInv => NoNilDereferenced
  BY <1>1 DEF NoNilDereferenced
<1>. QED  BY Invariance, <1>2, PTL

\* A family that is left by the collector's chain.
LEMMA LeftFamily ==
  ASSUME IndInv, stages = Stages, pc \in {"convert", "done", "unsupported"}, NEW k \in DOMAIN families
  PROVE  LET f == families[k]
             shape == input[f.index] IN
         /\ f # Nil /\ f \in MetricFamily /\ f.index \in DOMAIN input /\ shape \in Shape
         /\ OwnLabels(f, shape) /\ CollectorFamily(f, shape, 7)
         /\ f.metric # <<>> /\ Nil \notin ToSet(f.metric) /\ FamilyValid(f)
         /\ \A m \in Metrics(f) : m.id \in DOMAIN shape.samples /\ SampleValid(shape.samples[m.id]) /\ SampleValid(m)
<1>. DEFINE f == families[k]
            shape == input[f.index]
<1>1. TypeOK /\ FamiliesInv /\ PlacesInv
  BY DEF IndInv
<1>2. f # Nil /\ f \in MetricFamily
  <2>1. f # Nil
    BY <1>1 DEF PlacesInv, ToSet
  <2>. QED  BY <1>1, <2>1, FamilyList
<1>3. Applied(k) = 7
  BY TwoChains DEF Applied
<1>4. f.index \in DOMAIN input /\ OwnLabels(f, shape) /\ CollectorFamily(f, shape, 7)
  BY <1>1, <1>2, <1>3 DEF FamiliesInv
<1>5. shape \in Shape
  BY <1>1, <1>4, InputIsShapes
<1>. HIDE DEF f, shape
<1>6. f.metric # <<>> /\ Nil \notin ToSet(f.metric) /\ FamilyValid(f)
  BY <1>4 DEF CollectorFamily
<1>7. {m.id : m \in Metrics(f)} = {n \in DOMAIN shape.samples : 7 >= 4 => SampleValid(shape.samples[n])}
  BY <1>4 DEF CollectorFamily
<1>8. ASSUME NEW m \in Metrics(f)
      PROVE  m.id \in DOMAIN shape.samples /\ SampleValid(shape.samples[m.id]) /\ SampleValid(m)
  <2>1. m.id \in DOMAIN shape.samples /\ SampleValid(shape.samples[m.id])
    BY <1>7
  <2>2. m.time = shape.samples[m.id].time /\ m.typed = shape.samples[m.id].typed
    BY <1>4 DEF CollectorFamily
  <2>. QED  BY <2>1, <2>2 DEF SampleValid
<1>. QED  BY <1>2, <1>4, <1>5, <1>6, <1>8 DEF f, shape

\* What the collector's chain leaves is what convertToTimeseries dereferences
\* without a check, and what the checking transformers accept.
THEOREM ChecksAccept == Spec => []AcceptedByChecks
<1>1. ASSUME IndInv, pc \in {"convert", "done"}, stages = Stages, NEW f \in ToSet(families)
      PROVE  /\ f.metric # <<>> /\ Nil \notin ToSet(f.metric)
             /\ ErrorInvalidAccepts(f) /\ ErrorOnUnsortedAccepts(f, TRUE)
  <2>1. PICK k \in DOMAIN families : families[k] = f
    BY DEF ToSet
  <2>. DEFINE shape == input[f.index]
  <2>2. /\ f \in MetricFamily /\ OwnLabels(f, shape) /\ CollectorFamily(f, shape, 7)
        /\ f.metric # <<>> /\ Nil \notin ToSet(f.metric) /\ FamilyValid(f)
        /\ \A m \in Metrics(f) : SampleValid(m)
    BY <1>1, <2>1, LeftFamily
  <2>. HIDE DEF shape
  <2>3. ErrorInvalidAccepts(f)
    <3>1. \A m \in Metrics(f) : Names(m) = LabelsAfter(shape.samples[m.id].labels, 7)
      BY <2>2 DEF CollectorFamily
    <3>2. \A m \in Metrics(f) : Names(m) \cap TooLong = {}
      BY <3>1 DEF LabelsAfter
    <3>. QED  BY <2>2, <3>2 DEF ErrorInvalidAccepts
  <2>4. ErrorOnUnsortedAccepts(f, TRUE)
    <3>1. \A m \in Metrics(f) : m.time # NoTime /\ m.time \in Nat /\ m # Nil
      BY <2>2, MetricsOfFamily DEF SampleValid, Metric
    <3>2. \A l \in DOMAIN f.metric : f.metric[l] \in Metrics(f)
      BY <2>2, MetricsOfFamily
    <3>3. \A n, l \in DOMAIN f.metric : n < l => ~Earlier(f.metric[l], f.metric[n])
      BY <2>2 DEF CollectorFamily
    <3>4. ASSUME NEW n \in DOMAIN f.metric, NEW l \in DOMAIN f.metric, n < l
          PROVE  TimeOf(f.metric[n]) <= TimeOf(f.metric[l])
      <4>1. ~Earlier(f.metric[l], f.metric[n])
        BY <3>3, <3>4
      <4>2. /\ f.metric[n].time # NoTime /\ f.metric[n].time \in Nat /\ f.metric[n] # Nil
            /\ f.metric[l].time # NoTime /\ f.metric[l].time \in Nat /\ f.metric[l] # Nil
        BY <3>1, <3>2
      <4>. QED  BY <4>1, <4>2 DEF Earlier, TimeOf
    <3>. QED  BY <3>1, <3>4 DEF ErrorOnUnsortedAccepts
  <2>. QED  BY <2>2, <2>3, <2>4
<1>2. IndInv => AcceptedByChecks
  BY <1>1 DEF AcceptedByChecks
<1>. QED  BY Invariance, <1>2, PTL

\* A scraped value that is to be anonymized is hashed exactly once, an added one
\* at least once, and nothing else is (transformMetricLabelValues).
THEOREM Anonymizes == Spec => []AnonymizedIsHashed
<1>1. ASSUME IndInv, pc = "done", stages = Stages, NEW f \in ToSet(families),
             NEW m \in Metrics(f), NEW p \in m.labels
      PROVE  /\ p.name \in Anonymized \ Blank => hashes[p] >= 1
             /\ p.name \in Anonymized \ Blank /\ p.metric # 0 => hashes[p] = 1
             /\ p.name \notin Anonymized \ Blank => hashes[p] = 0
  <2>1. PICK k \in DOMAIN families : families[k] = f
    BY DEF ToSet
  <2>2. /\ f # Nil /\ f \in MetricFamily /\ f.index \in DOMAIN input
        /\ OwnLabels(f, input[f.index])
    BY <1>1, <2>1, LeftFamily
  <2>3. p \in AllPairs
    BY <1>1, <2>2, CountedPairs DEF IndInv
  <2>4. Applied(k) = Len(stages)
    BY <1>1 DEF Applied
  <2>5. HashesInv
    BY <1>1 DEF IndInv
  <2>6. p.name \notin Anonymized \ Blank => hashes[p] = 0
    BY <2>3, <2>5 DEF HashesInv
  <2>7. p.name \in Anonymized \ Blank => hashes[p] >= 1 /\ (p.metric # 0 => hashes[p] = 1)
    BY <1>1, <2>1, <2>2, <2>4, <2>5 DEF HashesInv
  <2>. QED  BY <2>6, <2>7
<1>2. IndInv => AnonymizedIsHashed
  BY <1>1 DEF AnonymizedIsHashed
<1>. QED  BY Invariance, <1>2, PTL

\* The conversion fails exactly when a family of an unsupported type has a valid
\* sample, whatever else was retrieved.
THEOREM FailsAsAWhole == Spec => []FailsForUnsupported
<1>. DEFINE Bad(f) == /\ input[f].type = "composite" /\ NameValid(Rename(input[f]).name)
                      /\ \E k \in DOMAIN input[f].samples : SampleValid(input[f].samples[k])
<1>1. ASSUME IndInv, stages = Stages, pc = "unsupported" PROVE \E f \in DOMAIN input : Bad(f)
  <2>. DEFINE f == families[at]
              shape == input[f.index]
  <2>1. at \in DOMAIN families /\ f.type # "simple"
    <3>1. at <= Len(families) /\ families[at].type # "simple"
      BY <1>1 DEF IndInv, SeriesInv
    <3>. QED  BY <1>1, <3>1, FamilyList DEF IndInv, TypeOK
  <2>2. /\ f \in MetricFamily /\ f.index \in DOMAIN input /\ CollectorFamily(f, shape, 7)
        /\ f.metric # <<>> /\ Nil \notin ToSet(f.metric) /\ FamilyValid(f)
        /\ \A m \in Metrics(f) : m.id \in DOMAIN shape.samples /\ SampleValid(shape.samples[m.id])
    BY <1>1, <2>1, LeftFamily
  <2>3. f.type = shape.type /\ f.name = Rename(shape).name
    <3>. HIDE DEF f, shape
    <3>. QED  BY <2>2 DEF CollectorFamily
  <2>4. PICK m : m \in Metrics(f)
    <3>. HIDE DEF f
    <3>1. Len(f.metric) \in Nat \ {0}
      BY <2>2, EmptySeq, MetricsOfFamily
    <3>2. 1 \in DOMAIN f.metric
      BY <2>2, <3>1, MetricsOfFamily
    <3>3. f.metric[1] # Nil
      BY <2>2, <3>2, MetricsOfFamily
    <3>4. f.metric[1] \in Metrics(f)
      BY <2>2, <3>2, <3>3, MetricsOfFamily
    <3>. QED  BY <3>4
  <2>5. Bad(f.index)
    BY <2>1, <2>2, <2>3, <2>4 DEF FamilyValid
  <2>. QED  BY <2>2, <2>5
<1>2. ASSUME IndInv, stages = Stages, pc = "done", NEW g \in DOMAIN input, Bad(g) PROVE FALSE
  <2>1. Rename(input[g]).type = "composite"
    BY <1>2, InputIsShapes DEF Rename, Shape, IndInv
  <2>2. ToBeLeft(input[g])
    BY <1>2, <2>1 DEF ToBeLeft, FamilyValid
  <2>3. PICK k \in DOMAIN families : families[k] # Nil /\ families[k].index = g
    BY <1>2, <2>2 DEF IndInv, PlacesInv
  <2>4. CollectorFamily(families[k], input[g], 7)
    BY <1>2, <2>3, LeftFamily
  <2>5. families[k].type = "composite"
    BY <1>2, <2>4 DEF CollectorFamily
  <2>6. k < at
    <3>1. at > Len(families) /\ at \in Nat
      BY <1>2 DEF IndInv, SeriesInv, TypeOK
    <3>2. k \in 1..Len(families) /\ Len(families) \in Nat
      BY <1>2, FamilyList DEF IndInv
    <3>. QED  BY <3>1, <3>2
  <2>7. families[k].type = "simple"
    BY <1>2, <2>6 DEF IndInv, SeriesInv
  <2>. QED  BY <2>5, <2>7
<1>3. IndInv => FailsForUnsupported
  BY <1>1, <1>2 DEF FailsForUnsupported
<1>. QED  BY Invariance, <1>3, PTL

\* Each series is that of a sample that was retrieved, with the labels that it is to
\* have and the name label, and under the name that --rename gives to its family.
LEMMA SeriesOfSample ==
  ASSUME IndInv, stages = Stages, pc \in {"convert", "done", "unsupported"},
         NEW k \in DOMAIN families, NEW m \in Metrics(families[k])
  PROVE  LET f == families[k]
             sample == input[f.index].samples[m.id] IN
         /\ f.index \in DOMAIN input /\ m.id \in DOMAIN input[f.index].samples
         /\ Series(f, m) =
              [family |-> f.index, id |-> m.id, name |-> Rename(input[f.index]).name,
               labels |-> ExpectedCounts(Expected(sample)),
               time |-> IF sample.time <= Now THEN sample.time ELSE Now]
<1>. DEFINE f == families[k]
            sample == input[f.index].samples[m.id]
<1>1. /\ f \in MetricFamily /\ f.index \in DOMAIN input /\ input[f.index] \in Shape
      /\ OwnLabels(f, input[f.index]) /\ CollectorFamily(f, input[f.index], 7)
      /\ m.id \in DOMAIN input[f.index].samples /\ SampleValid(sample)
  BY LeftFamily
<1>2. m.time = sample.time /\ Names(m) = LabelsAfter(sample.labels, 7)
  BY <1>1 DEF CollectorFamily
<1>3. LabelsAfter(sample.labels, 7) = Expected(sample)
  BY DEF LabelsAfter, Expected
<1>4. LabelCounts(m) = ExpectedCounts(Expected(sample))
  <2>1. \A p, q \in m.labels : p.name = q.name => p = q
    BY <1>1 DEF OwnLabels
  <2>. QED  BY <1>2, <1>3, <2>1, CountedLabels
<1>5. sample.time \in Nat
  <2>1. input[f.index].samples \in Seq(Sample)
    BY <1>1 DEF Shape
  <2>2. sample \in Sample
    BY <1>1, <2>1, ElementOfSeq, LenProperties
  <2>. QED  BY <1>1, <2>2 DEF Sample, SampleValid
<1>6. (IF m.time > Now THEN Now ELSE m.time) = IF sample.time <= Now THEN sample.time ELSE Now
  BY <1>2, <1>5
<1>7. f.name = Rename(input[f.index]).name
  BY <1>1 DEF CollectorFamily
<1>. HIDE DEF sample, f
<1>8. Series(f, m) =
        [family |-> f.index, id |-> m.id, name |-> Rename(input[f.index]).name,
         labels |-> ExpectedCounts(Expected(sample)),
         time |-> IF sample.time <= Now THEN sample.time ELSE Now]
  BY <1>4, <1>6, <1>7 DEF Series
<1>. QED  BY <1>1, <1>8 DEF f, sample

\* There is exactly one series for each valid sample of a valid family, under its
\* name, with the labels and the time that it is to have.
THEOREM KeepsSamples == Spec => []NoValidSampleLost
<1>1. ASSUME IndInv, pc = "done", stages = Stages, NEW f \in DOMAIN input,
             NEW k \in DOMAIN input[f].samples,
             FamilyValid(Rename(input[f])), SampleValid(input[f].samples[k])
      PROVE  LET sample == input[f].samples[k] IN
             \E n \in DOMAIN series :
               /\ series[n] =
                    [family |-> f, id |-> k, name |-> Rename(input[f]).name,
                     labels |-> ExpectedCounts(Expected(sample)),
                     time |-> IF sample.time <= Now THEN sample.time ELSE Now]
               /\ \A l \in DOMAIN series : series[l] = series[n] => l = n
  <2>. DEFINE sample == input[f].samples[k]
  <2>1. ToBeLeft(input[f])
    BY <1>1 DEF ToBeLeft
  <2>2. PICK x \in DOMAIN families : families[x] # Nil /\ families[x].index = f
    BY <1>1, <2>1 DEF IndInv, PlacesInv
  <2>3. families[x] \in MetricFamily /\ CollectorFamily(families[x], input[f], 7)
    BY <1>1, <2>2, LeftFamily
  <2>4. PICK m \in Metrics(families[x]) : m.id = k
    <3>1. {m.id : m \in Metrics(families[x])} =
            {n \in DOMAIN input[f].samples : 7 >= 4 => SampleValid(input[f].samples[n])}
      BY <2>3 DEF CollectorFamily
    <3>2. k \in {m.id : m \in Metrics(families[x])}
      BY <1>1, <3>1
    <3>. QED  BY <3>2
  <2>5. Series(families[x], m) =
          [family |-> f, id |-> k, name |-> Rename(input[f]).name,
           labels |-> ExpectedCounts(Expected(sample)),
           time |-> IF sample.time <= Now THEN sample.time ELSE Now]
    BY <1>1, <2>2, <2>4, SeriesOfSample
  <2>6. x \in 1..(at - 1)
    <3>1. at > Len(families) /\ at \in Nat
      BY <1>1 DEF IndInv, SeriesInv, TypeOK
    <3>2. x \in 1..Len(families) /\ Len(families) \in Nat
      BY <1>1, FamilyList DEF IndInv
    <3>. QED  BY <3>1, <3>2
  <2>7. Series(families[x], m) \in ToSet(series)
    <3>1. ToSet(series) = UNION {{Series(families[g], l) : l \in Metrics(families[g])} : g \in 1..(at - 1)}
      BY <1>1 DEF IndInv, SeriesInv
    <3>. DEFINE Made(g) == {Series(families[g], l) : l \in Metrics(families[g])}
    <3>2. Series(families[x], m) \in Made(x)
      BY <2>4
    <3>3. ToSet(series) = UNION {Made(g) : g \in 1..(at - 1)}
      BY <3>1
    <3>. HIDE DEF Made
    <3>. QED  BY <2>6, <3>2, <3>3
  <2>8. PICK n \in DOMAIN series : series[n] = Series(families[x], m)
    BY <2>7 DEF ToSet
  <2>9. \A l \in DOMAIN series : series[l] = series[n] => l = n
    BY <1>1 DEF IndInv, SeriesInv
  <2>. QED  BY <2>5, <2>8, <2>9
<1>2. IndInv => NoValidSampleLost
  BY <1>1 DEF NoValidSampleLost, ExpectedCounts
<1>. QED  BY Invariance, <1>2, PTL

\* Only the name of a series can be repeated among its labels, and it is exactly if
\* its sample has such a label in the end: convertToTimeseries (metricsclient.go:429)
\* does not look, appendLabels (label.go) does.
THEOREM NamesDiffer == Spec => []OnlyNameRepeats
<1>1. ASSUME IndInv, stages = Stages, NEW n \in DOMAIN series, NEW name \in LabelNames
      PROVE  LET sample == input[series[n].family].samples[series[n].id] IN
             series[n].labels[name] > 1 <=> name = NameLabel /\ name \in Expected(sample)
  <2>1. pc \in {"convert", "done", "unsupported"}
    <3>1. series # <<>>
      OBVIOUS
    <3>. QED  BY <1>1, <3>1 DEF IndInv, SeriesInv, TypeOK
  <2>2. series[n] \in UNION {{Series(families[g], m) : m \in Metrics(families[g])} : g \in 1..(at - 1)}
    BY <1>1, <2>1 DEF IndInv, SeriesInv, ToSet
  <2>3. PICK k \in 1..(at - 1) : \E m \in Metrics(families[k]) : series[n] = Series(families[k], m)
    BY ONLY <2>2
  <2>4. PICK m \in Metrics(families[k]) : series[n] = Series(families[k], m)
    BY <2>3
  <2>5. k \in DOMAIN families
    <3>1. at <= Len(families) + 1 /\ at \in Nat
      BY <1>1, <2>1 DEF IndInv, SeriesInv, TypeOK
    <3>. QED  BY <1>1, <3>1, FamilyList DEF IndInv
  <2>. DEFINE sample == input[families[k].index].samples[m.id]
  <2>6. /\ series[n].family = families[k].index /\ series[n].id = m.id
        /\ series[n].labels = ExpectedCounts(Expected(sample))
    BY <1>1, <2>1, <2>4, <2>5, SeriesOfSample
  <2>7. series[n].labels[name] > 1 <=> name = NameLabel /\ name \in Expected(sample)
    <3>. HIDE DEF sample
    <3>. QED  BY <2>6 DEF ExpectedCounts
  <2>. QED  BY <2>6, <2>7
<1>2. IndInv => OnlyNameRepeats
  BY <1>1 DEF OnlyNameRepeats
<1>. QED  BY Invariance, <1>2, PTL

-----------------------------------------------------------------------------
(* The samples that the other transformers leave.                          *)

\* The samples of a family that n of the other transformers leave.
LeftAfter(shape, n) ==
  IF n >= 5 THEN InOrder(shape)
  ELSE IF n >= 3 THEN Eligible(shape)
  ELSE {k \in DOMAIN shape.samples : n >= 1 => Matches(shape.name, shape.samples[k].labels)}

\* A sample has the labels and, until it is overwritten, the time it came with.
Unchanged(m, shape, n) ==
  /\ Names(m) = shape.samples[m.id].labels
  /\ \A p \in m.labels : p.metric = m.id
  /\ n < 8 => m.time = shape.samples[m.id].time

\* A family f has exactly these, in the order in which they came.
LibrarySamples(f, shape, n) ==
  /\ f.name = shape.name
  /\ \A m \in Metrics(f) : Unchanged(m, shape, n)
  /\ {m.id : m \in Metrics(f)} = LeftAfter(shape, n)
  /\ \A k, l \in DOMAIN f.metric :
       k < l /\ f.metric[k] # Nil /\ f.metric[l] # Nil => f.metric[k].id < f.metric[l].id

LibraryInv ==
  /\ pc = "failed" => stages = LibraryStages /\ Unfit(input[at])
  /\ stages = LibraryStages =>
       /\ latest = 0
       /\ \A f \in DOMAIN families : families[f] # Nil =>
            LibrarySamples(families[f], input[families[f].index], Applied(f))
       /\ \A g \in DOMAIN input : InOrder(input[g]) # {} =>
            \E f \in DOMAIN families : families[f] # Nil /\ families[f].index = g

-----------------------------------------------------------------------------
(* What the loop of DropUnsorted keeps.                                    *)

LEMMA TimeIsNatural ==
  ASSUME NEW m, m.time \in Nat \cup {NoTime}
  PROVE  TimeOf(m) \in Nat
  BY DEF TimeOf

\* One round of the loop of DropUnsorted.
NextKept(m, t) == IF m = Nil \/ TimeOf(m) < t THEN t ELSE TimeOf(m)

LEMMA LastKeptRecursion ==
  ASSUME NEW f \in MetricFamily, latest = 0
  PROVE  /\ LastKept(f)[0] = 0
         /\ \A k \in 1..Len(f.metric) : LastKept(f)[k] = NextKept(f.metric[k], LastKept(f)[k - 1])
<1>. DEFINE n == Len(f.metric)
            ms == f.metric
            step == [k \in 1..n |-> [t \in Nat |-> NextKept(ms[k], t)]]
            Body(g) == [k \in 0..n |-> IF k = 0 THEN latest
                                       ELSE IF ms[k] = Nil \/ TimeOf(ms[k]) < g[k - 1]
                                            THEN g[k - 1] ELSE TimeOf(ms[k])]
<1>0. n \in Nat /\ 0 \in Nat
  BY MetricsOfFamily
<1>1. \A k \in 1..n : \A t \in Nat : NextKept(ms[k], t) \in Nat
  <2>. SUFFICES ASSUME NEW k \in 1..n, NEW t \in Nat PROVE NextKept(ms[k], t) \in Nat
    OBVIOUS
  <2>1. ms[k] \in Metric \cup {Nil}
    BY MetricsOfFamily
  <2>2. CASE ms[k] = Nil
    BY <2>2 DEF NextKept
  <2>3. CASE ms[k] # Nil
    <3>1. TimeOf(ms[k]) \in Nat
      BY <2>1, <2>3, TimeIsNatural DEF Metric
    <3>. QED  BY <3>1 DEF NextKept
  <2>. QED  BY <2>2, <2>3
<1>2. step \in [1..n -> [Nat -> Nat]]
  <2>. HIDE DEF ms, n
  <2>. QED  BY <1>1
<1>3. PICK g \in [0..n -> Nat] : g[0] = 0 /\ \A k \in 1..n : g[k] = step[k][g[k - 1]]
  <2>. HIDE DEF step, n, Body
  <2>1. IsDefined(Nat, 0, n, step)
    BY ONLY <1>0, <1>2, Recursion
  <2>. QED  BY <2>1 DEF IsDefined
<1>4. ASSUME NEW k \in 1..n PROVE g[k] = NextKept(ms[k], g[k - 1])
  <2>. HIDE DEF ms
  <2>1. k - 1 \in 0..n /\ g[k - 1] \in Nat
    BY <1>0
  <2>. QED  BY <1>3, <2>1
<1>5. g = Body(g)
  <2>1. ASSUME NEW k \in 0..n
        PROVE  g[k] = IF k = 0 THEN latest ELSE IF ms[k] = Nil \/ TimeOf(ms[k]) < g[k - 1]
                                            THEN g[k - 1] ELSE TimeOf(ms[k])
    <3>1. CASE k = 0
      BY <1>3, <3>1
    <3>2. CASE k # 0
      <4>1. k \in 1..n
        BY <1>0, <3>2
      <4>. HIDE DEF ms
      <4>. QED  BY <1>4, <3>2, <4>1 DEF NextKept
    <3>. QED  BY <3>1, <3>2
  <2>2. g = [k \in 0..n |-> g[k]]
    BY <1>3
  <2>. HIDE DEF n, ms
  <2>. QED  BY <2>1, <2>2
<1>. DEFINE K == LastKept(f)
<1>6. K = CHOOSE h : h = Body(h)
  BY DEF LastKept
<1>7. K = Body(K)
  <2>. HIDE DEF Body, K
  <2>. QED  BY <1>5, <1>6
<1>. HIDE DEF K, ms
<1>8. K[0] = 0
  BY <1>0, <1>7
<1>9. ASSUME NEW k \in 1..n PROVE K[k] = NextKept(ms[k], K[k - 1])
  <2>1. k \in 0..n /\ k # 0
    BY <1>0
  <2>. QED  BY <1>7, <2>1 DEF NextKept
<1>. QED  BY <1>8, <1>9 DEF K, ms

\* The times t and a of the last metrics: t is the latest of the first n of ms, or 0.
LatestOf(t, ms, n) ==
  /\ t \in Nat
  /\ \A k \in 1..n : ms[k] # Nil => TimeOf(ms[k]) <= t
  /\ t # 0 => \E k \in 1..n : ms[k] # Nil /\ TimeOf(ms[k]) = t

LEMMA LastKeptIsLatest ==
  ASSUME NEW f \in MetricFamily, latest = 0, NEW n \in 0..Len(f.metric)
  PROVE  LatestOf(LastKept(f)[n], f.metric, n)
<1>. DEFINE K == LastKept(f)
            ms == f.metric
            T == {l \in Nat : l <= Len(ms) => LatestOf(K[l], ms, l)}
<1>1. /\ Len(ms) \in Nat /\ DOMAIN ms = 1..Len(ms)
      /\ \A k \in 1..Len(ms) : ms[k] # Nil => TimeOf(ms[k]) \in Nat
  <2>1. Len(ms) \in Nat /\ DOMAIN ms = 1..Len(ms)
    BY MetricsOfFamily
  <2>2. ASSUME NEW k \in 1..Len(ms), ms[k] # Nil PROVE TimeOf(ms[k]) \in Nat
    <3>1. ms[k] \in Metric
      BY <2>1, <2>2, MetricsOfFamily
    <3>. QED  BY <3>1, TimeIsNatural DEF Metric
  <2>. QED  BY <2>1, <2>2
<1>2. K[0] = 0 /\ \A k \in 1..Len(ms) : K[k] = NextKept(ms[k], K[k - 1])
  BY LastKeptRecursion
<1>. HIDE DEF K, ms
<1>3. 0 \in T
  <2>1. LatestOf(K[0], ms, 0)
    BY <1>2 DEF LatestOf
  <2>. QED  BY <2>1
<1>4. ASSUME NEW l \in T PROVE l + 1 \in T
  <2>. SUFFICES ASSUME l + 1 <= Len(ms) PROVE LatestOf(K[l + 1], ms, l + 1)
    OBVIOUS
  <2>. DEFINE t == K[l]
              u == K[l + 1]
  <2>1. l \in Nat /\ LatestOf(t, ms, l) /\ l + 1 \in 1..Len(ms)
    BY <1>1
  <2>2. u = NextKept(ms[l + 1], t)
    BY <1>2, <2>1
  <2>. HIDE DEF t, u, T
  <2>3. t \in Nat /\ (\A k \in 1..l : ms[k] # Nil => TimeOf(ms[k]) <= t)
        /\ (t # 0 => \E k \in 1..l : ms[k] # Nil /\ TimeOf(ms[k]) = t)
    BY <2>1 DEF LatestOf
  <2>4. \A k \in 1..(l + 1) : k \in 1..l \/ k = l + 1
    BY <2>1
  <2>5. CASE ms[l + 1] = Nil \/ TimeOf(ms[l + 1]) < t
    <3>1. u = t
      BY <2>2, <2>5 DEF NextKept
    <3>2. ASSUME NEW k \in 1..(l + 1), ms[k] # Nil PROVE TimeOf(ms[k]) <= t
      <4>1. CASE k \in 1..l
        BY <2>3, <3>2, <4>1
      <4>2. CASE k = l + 1
        BY <1>1, <2>1, <2>3, <2>5, <3>2, <4>2
      <4>. QED  BY <2>4, <4>1, <4>2
    <3>3. 1..l \subseteq 1..(l + 1)
      BY <2>1
    <3>4. t # 0 => \E k \in 1..(l + 1) : ms[k] # Nil /\ TimeOf(ms[k]) = t
      BY <2>3, <3>3
    <3>. QED  BY <2>3, <3>1, <3>2, <3>4 DEF LatestOf, u
  <2>6. CASE ~(ms[l + 1] = Nil \/ TimeOf(ms[l + 1]) < t)
    <3>1. u = TimeOf(ms[l + 1]) /\ ms[l + 1] # Nil
      BY <2>2, <2>6 DEF NextKept
    <3>2. u \in Nat /\ t <= u
      BY <1>1, <2>1, <2>3, <2>6, <3>1
    <3>3. ASSUME NEW k \in 1..(l + 1), ms[k] # Nil PROVE TimeOf(ms[k]) <= u
      <4>1. CASE k \in 1..l
        <5>1. TimeOf(ms[k]) <= t /\ TimeOf(ms[k]) \in Nat
          BY <1>1, <2>1, <2>3, <3>3, <4>1
        <5>. QED  BY <2>3, <3>2, <5>1
      <4>2. CASE k = l + 1
        BY <3>1, <3>2, <4>2
      <4>. QED  BY <2>4, <4>1, <4>2
    <3>4. l + 1 \in 1..(l + 1)
      BY <2>1
    <3>. QED  BY <3>1, <3>2, <3>3, <3>4 DEF LatestOf, u
  <2>. QED  BY <2>5, <2>6
<1>5. T = Nat
  <2>1. T \in SUBSET Nat
    OBVIOUS
  <2>. HIDE DEF T
  <2>. QED  BY <1>3, <1>4, <2>1, Induction
<1>6. n \in T /\ n <= Len(ms)
  BY <1>1, <1>5 DEF ms
<1>. QED  BY <1>6 DEF K, ms

\* A metric is kept if none before it is later.
LEMMA SortedOut ==
  ASSUME NEW f \in MetricFamily, latest = 0, NEW n \in DOMAIN f.metric
  PROVE  /\ DOMAIN DropUnsorted(f).metric = DOMAIN f.metric
         /\ DropUnsorted(f).name = f.name
         /\ DropUnsorted(f).metric[n] =
              IF f.metric[n] # Nil /\ \A k \in DOMAIN f.metric :
                   k < n /\ f.metric[k] # Nil => TimeOf(f.metric[k]) <= TimeOf(f.metric[n])
              THEN f.metric[n] ELSE Nil
<1>. DEFINE t == LastKept(f)[n - 1]
            s == [k \in DOMAIN f.metric |->
                    IF f.metric[k] = Nil \/ TimeOf(f.metric[k]) < LastKept(f)[k - 1] THEN Nil ELSE f.metric[k]]
<1>1. /\ Len(f.metric) \in Nat /\ DOMAIN f.metric = 1..Len(f.metric)
      /\ \A k \in DOMAIN f.metric : f.metric[k] # Nil => TimeOf(f.metric[k]) \in Nat
  <2>1. Len(f.metric) \in Nat /\ DOMAIN f.metric = 1..Len(f.metric)
    BY MetricsOfFamily
  <2>2. ASSUME NEW k \in DOMAIN f.metric, f.metric[k] # Nil PROVE TimeOf(f.metric[k]) \in Nat
    <3>1. f.metric[k] \in Metric
      BY <2>1, <2>2, MetricsOfFamily
    <3>. QED  BY <3>1, TimeIsNatural DEF Metric
  <2>. QED  BY <2>1, <2>2
<1>2. LatestOf(t, f.metric, n - 1)
  <2>1. n - 1 \in 0..Len(f.metric)
    BY <1>1
  <2>. QED  BY <2>1, LastKeptIsLatest
<1>3. DropUnsorted(f).metric = s /\ DropUnsorted(f).name = f.name
  <2>1. s \in [1..Len(f.metric) -> Metric \cup {Nil}]
    BY MetricsOfFamily
  <2>2. s \in Seq(Metric \cup {Nil})
    BY <2>1, MetricsOfFamily, FunctionIsSeq
  <2>3. DropUnsorted(f) = [f EXCEPT !.metric = s]
    BY DEF DropUnsorted
  <2>. HIDE DEF s
  <2>. QED  BY <2>2, <2>3, WithMetrics
<1>4. DropUnsorted(f).metric[n] = IF f.metric[n] = Nil \/ TimeOf(f.metric[n]) < t THEN Nil ELSE f.metric[n]
  BY <1>3
<1>5. \A k \in DOMAIN f.metric : k < n <=> k \in 1..(n - 1)
  BY <1>1
<1>. HIDE DEF t, s
<1>6. ASSUME f.metric[n] # Nil
      PROVE  TimeOf(f.metric[n]) >= t <=>
               \A k \in DOMAIN f.metric : k < n /\ f.metric[k] # Nil => TimeOf(f.metric[k]) <= TimeOf(f.metric[n])
  <2>. DEFINE u == TimeOf(f.metric[n])
  <2>1. u \in Nat /\ t \in Nat
    BY <1>1, <1>2, <1>6 DEF LatestOf
  <2>2. ASSUME u >= t, NEW k \in DOMAIN f.metric, k < n, f.metric[k] # Nil PROVE TimeOf(f.metric[k]) <= u
    <3>1. TimeOf(f.metric[k]) <= t /\ TimeOf(f.metric[k]) \in Nat
      BY <1>1, <1>2, <1>5, <2>2 DEF LatestOf
    <3>. HIDE DEF u
    <3>. QED  BY <2>1, <2>2, <3>1
  <2>3. ASSUME \A k \in DOMAIN f.metric : k < n /\ f.metric[k] # Nil => TimeOf(f.metric[k]) <= u
        PROVE  u >= t
    <3>1. CASE t = 0
      <4>. HIDE DEF u
      <4>. QED  BY <2>1, <3>1
    <3>2. CASE t # 0
      <4>1. PICK k \in 1..(n - 1) : f.metric[k] # Nil /\ TimeOf(f.metric[k]) = t
        BY <1>2, <3>2 DEF LatestOf
      <4>2. k \in DOMAIN f.metric /\ k < n
        BY <1>1, <4>1
      <4>3. t <= u
        BY <2>3, <4>1, <4>2
      <4>. HIDE DEF u
      <4>. QED  BY <2>1, <4>3
    <3>. QED  BY <3>1, <3>2
  <2>. QED  BY <2>2, <2>3
<1>7. CASE f.metric[n] = Nil
  BY <1>3, <1>4, <1>7 DEF s
<1>8. CASE f.metric[n] # Nil
  <2>1. TimeOf(f.metric[n]) < t <=> ~(TimeOf(f.metric[n]) >= t)
    BY <1>1, <1>2, <1>8 DEF LatestOf
  <2>. QED  BY <1>3, <1>4, <1>6, <1>8, <2>1 DEF s
<1>. QED  BY <1>7, <1>8

-----------------------------------------------------------------------------
(* What each of the other transformers leaves.                             *)

LEMMA LeftByStage ==
  ASSUME NEW shape
  PROVE  /\ LeftAfter(shape, 0) = DOMAIN shape.samples
         /\ LeftAfter(shape, 1) = {k \in DOMAIN shape.samples : Matches(shape.name, shape.samples[k].labels)}
         /\ LeftAfter(shape, 2) = LeftAfter(shape, 1)
         /\ LeftAfter(shape, 3) = {k \in LeftAfter(shape, 2) : TimeOf(shape.samples[k]) >= MinTime}
         /\ LeftAfter(shape, 3) = Eligible(shape) /\ LeftAfter(shape, 4) = Eligible(shape)
         /\ \A n \in 5..9 : LeftAfter(shape, n) = InOrder(shape)
  BY DEF LeftAfter, Eligible

\* A metric that is the sample k of what was retrieved.
LEMMA SampleOf ==
  ASSUME NEW f \in MetricFamily, NEW shape, NEW n, LibrarySamples(f, shape, n),
         NEW k \in DOMAIN f.metric, f.metric[k] # Nil
  PROVE  /\ f.metric[k] \in Metric /\ f.metric[k] \in Metrics(f)
         /\ f.metric[k].id \in LeftAfter(shape, n) /\ f.metric[k].id \in Nat
         /\ Names(f.metric[k]) = shape.samples[f.metric[k].id].labels
         /\ n < 8 => /\ f.metric[k].time = shape.samples[f.metric[k].id].time
                     /\ TimeOf(f.metric[k]) = TimeOf(shape.samples[f.metric[k].id])
         /\ TimeOf(f.metric[k]) \in Nat
<1>1. f.metric[k] \in Metric /\ f.metric[k] \in Metrics(f)
  BY MetricsOfFamily
<1>2. f.metric[k].id \in LeftAfter(shape, n) /\ Unchanged(f.metric[k], shape, n)
  BY <1>1 DEF LibrarySamples
<1>3. f.metric[k].id \in Nat /\ TimeOf(f.metric[k]) \in Nat
  BY <1>1, TimeIsNatural DEF Metric
<1>. QED  BY <1>1, <1>2, <1>3 DEF Unchanged, TimeOf

\* What is left of a family by a transformer that drops metrics.
LEMMA Thinned ==
  ASSUME NEW f \in MetricFamily, NEW g \in MetricFamily, NEW shape, NEW n \in 0..7, NEW o \in 0..7,
         LibrarySamples(f, shape, n), LeftAfter(shape, o) \subseteq LeftAfter(shape, n),
         g.name = f.name, DOMAIN g.metric = DOMAIN f.metric,
         \A k \in DOMAIN f.metric : f.metric[k] = Nil => g.metric[k] = Nil,
         \A k \in DOMAIN f.metric : f.metric[k] # Nil =>
           g.metric[k] = IF f.metric[k].id \in LeftAfter(shape, o) THEN f.metric[k] ELSE Nil
  PROVE  LibrarySamples(g, shape, o)
<1>1. ASSUME NEW m \in Metrics(g)
      PROVE  m \in Metrics(f) /\ m.id \in LeftAfter(shape, o)
  <2>1. PICK k \in DOMAIN g.metric : g.metric[k] = m /\ m # Nil
    BY MetricsOfFamily
  <2>2. f.metric[k] # Nil /\ f.metric[k] = m /\ m.id \in LeftAfter(shape, o)
    BY <2>1
  <2>. QED  BY <2>1, <2>2, MetricsOfFamily
<1>2. ASSUME NEW i \in LeftAfter(shape, o) PROVE \E m \in Metrics(g) : m.id = i
  <2>1. PICK m \in Metrics(f) : m.id = i
    BY DEF LibrarySamples
  <2>2. PICK k \in DOMAIN f.metric : f.metric[k] = m /\ m # Nil
    BY MetricsOfFamily
  <2>3. g.metric[k] = m
    BY <2>1, <2>2
  <2>. QED  BY <2>1, <2>2, <2>3, MetricsOfFamily
<1>3. \A m \in Metrics(g) : Unchanged(m, shape, o)
  BY <1>1 DEF LibrarySamples, Unchanged
<1>4. {m.id : m \in Metrics(g)} = LeftAfter(shape, o)
  BY <1>1, <1>2
<1>5. ASSUME NEW k \in DOMAIN g.metric, NEW l \in DOMAIN g.metric, k < l, g.metric[k] # Nil, g.metric[l] # Nil
      PROVE  g.metric[k].id < g.metric[l].id
  <2>1. f.metric[k] # Nil /\ f.metric[l] # Nil /\ g.metric[k] = f.metric[k] /\ g.metric[l] = f.metric[l]
    BY <1>5
  <2>. QED  BY <1>5, <2>1 DEF LibrarySamples
<1>6. g.name = shape.name
  BY DEF LibrarySamples
<1>. QED  BY <1>3, <1>4, <1>5, <1>6 DEF LibrarySamples

\* A transformer that only looks.
LEMMA Untouched ==
  ASSUME NEW f, NEW shape, NEW n \in 0..7, NEW o \in 0..7, LibrarySamples(f, shape, n),
         LeftAfter(shape, o) = LeftAfter(shape, n)
  PROVE  LibrarySamples(f, shape, o)
  BY DEF LibrarySamples, Unchanged

LEMMA SamplesWhitelisted ==
  ASSUME NEW f \in MetricFamily, Whitelisted(f) \in MetricFamily, NEW shape, LibrarySamples(f, shape, 0)
  PROVE  LibrarySamples(Whitelisted(f), shape, 1)
<1>. DEFINE s == [k \in DOMAIN f.metric |->
                    IF f.metric[k] # Nil /\ Matches(f.name, Names(f.metric[k])) THEN f.metric[k] ELSE Nil]
            g == Whitelisted(f)
<1>1. g = [f EXCEPT !.metric = s]
  BY DEF Whitelisted, EachMetric
<1>2. g.metric = s /\ g.name = f.name /\ DOMAIN s = DOMAIN f.metric
  <2>1. s \in [1..Len(f.metric) -> Metric \cup {Nil}]
    BY MetricsOfFamily
  <2>2. s \in Seq(Metric \cup {Nil})
    BY <2>1, MetricsOfFamily, FunctionIsSeq
  <2>3. DOMAIN s = DOMAIN f.metric
    OBVIOUS
  <2>. HIDE DEF s, g
  <2>. QED  BY <1>1, <2>2, <2>3, WithMetrics
<1>3. LeftAfter(shape, 1) = {k \in LeftAfter(shape, 0) : Matches(shape.name, shape.samples[k].labels)}
  BY LeftByStage
<1>4. ASSUME NEW k \in DOMAIN f.metric, f.metric[k] # Nil
      PROVE  g.metric[k] = IF f.metric[k].id \in LeftAfter(shape, 1) THEN f.metric[k] ELSE Nil
  <2>1. /\ f.metric[k].id \in LeftAfter(shape, 0)
        /\ Names(f.metric[k]) = shape.samples[f.metric[k].id].labels
    BY <1>4, SampleOf
  <2>2. f.name = shape.name
    BY DEF LibrarySamples
  <2>. QED  BY <1>2, <1>3, <1>4, <2>1, <2>2
<1>5. \A k \in DOMAIN f.metric : f.metric[k] = Nil => g.metric[k] = Nil
  BY <1>2
<1>6. LeftAfter(shape, 1) \subseteq LeftAfter(shape, 0)
  BY <1>3
<1>7. DOMAIN g.metric = DOMAIN f.metric /\ g.name = f.name /\ g \in MetricFamily
  BY <1>2
<1>. HIDE DEF g, s
<1>. QED  BY <1>4, <1>5, <1>6, <1>7, Thinned DEF g

LEMMA SamplesUnexpired ==
  ASSUME NEW f \in MetricFamily, DropExpired(f) \in MetricFamily, NEW shape, LibrarySamples(f, shape, 2)
  PROVE  LibrarySamples(DropExpired(f), shape, 3)
<1>. DEFINE s == [k \in DOMAIN f.metric |->
                    IF f.metric[k] = Nil \/ TimeOf(f.metric[k]) < MinTime THEN Nil ELSE f.metric[k]]
            g == DropExpired(f)
<1>1. g = [f EXCEPT !.metric = s]
  BY DEF DropExpired, EachMetric
<1>2. g.metric = s /\ g.name = f.name /\ DOMAIN s = DOMAIN f.metric
  <2>1. s \in [1..Len(f.metric) -> Metric \cup {Nil}]
    BY MetricsOfFamily
  <2>2. s \in Seq(Metric \cup {Nil})
    BY <2>1, MetricsOfFamily, FunctionIsSeq
  <2>3. DOMAIN s = DOMAIN f.metric
    OBVIOUS
  <2>. HIDE DEF s, g
  <2>. QED  BY <1>1, <2>2, <2>3, WithMetrics
<1>3. LeftAfter(shape, 3) = {k \in LeftAfter(shape, 2) : TimeOf(shape.samples[k]) >= MinTime}
  BY LeftByStage
<1>4. ASSUME NEW k \in DOMAIN f.metric, f.metric[k] # Nil
      PROVE  g.metric[k] = IF f.metric[k].id \in LeftAfter(shape, 3) THEN f.metric[k] ELSE Nil
  <2>1. /\ f.metric[k].id \in LeftAfter(shape, 2)
        /\ TimeOf(f.metric[k]) = TimeOf(shape.samples[f.metric[k].id]) /\ TimeOf(f.metric[k]) \in Nat
    BY <1>4, SampleOf
  <2>2. TimeOf(f.metric[k]) < MinTime <=> ~(TimeOf(shape.samples[f.metric[k].id]) >= MinTime)
    BY <2>1
  <2>. QED  BY <1>2, <1>3, <1>4, <2>1, <2>2
<1>5. \A k \in DOMAIN f.metric : f.metric[k] = Nil => g.metric[k] = Nil
  BY <1>2
<1>6. LeftAfter(shape, 3) \subseteq LeftAfter(shape, 2)
  BY <1>3
<1>7. DOMAIN g.metric = DOMAIN f.metric /\ g.name = f.name /\ g \in MetricFamily
  BY <1>2
<1>. HIDE DEF g, s
<1>. QED  BY <1>4, <1>5, <1>6, <1>7, Thinned DEF g

\* The metrics before a metric are the samples before it.
LEMMA SamplesBefore ==
  ASSUME NEW f \in MetricFamily, NEW shape, LibrarySamples(f, shape, 4),
         NEW n \in DOMAIN f.metric, f.metric[n] # Nil
  PROVE  f.metric[n].id \in InOrder(shape) <=>
           \A k \in DOMAIN f.metric :
             k < n /\ f.metric[k] # Nil => TimeOf(f.metric[k]) <= TimeOf(f.metric[n])
<1>. DEFINE i == f.metric[n].id
            t == TimeOf(f.metric[n])
<1>1. i \in Eligible(shape) /\ i \in Nat /\ t = TimeOf(shape.samples[i])
  BY SampleOf, LeftByStage
<1>2. i \in InOrder(shape) <=> \A l \in Eligible(shape) : l < i => TimeOf(shape.samples[l]) <= t
  BY <1>1 DEF InOrder
<1>3. \A k \in DOMAIN f.metric : k \in Nat
  BY MetricsOfFamily
<1>4. ASSUME i \in InOrder(shape), NEW k \in DOMAIN f.metric, k < n, f.metric[k] # Nil
      PROVE  TimeOf(f.metric[k]) <= t
  <2>1. f.metric[k].id \in Eligible(shape) /\ TimeOf(f.metric[k]) = TimeOf(shape.samples[f.metric[k].id])
    BY <1>4, SampleOf, LeftByStage
  <2>2. f.metric[k].id < i
    BY <1>4 DEF LibrarySamples
  <2>. HIDE DEF i, t
  <2>. QED  BY <1>2, <1>4, <2>1, <2>2
<1>5. ASSUME \A k \in DOMAIN f.metric : k < n /\ f.metric[k] # Nil => TimeOf(f.metric[k]) <= t,
             NEW l \in Eligible(shape), l < i
      PROVE  TimeOf(shape.samples[l]) <= t
  <2>1. PICK m \in Metrics(f) : m.id = l
    BY LeftByStage DEF LibrarySamples
  <2>2. PICK k \in DOMAIN f.metric : f.metric[k] = m /\ m # Nil
    BY MetricsOfFamily
  <2>3. TimeOf(f.metric[k]) = TimeOf(shape.samples[l]) /\ l \in Nat
    BY <2>1, <2>2, SampleOf
  <2>4. k < n
    <3>1. n < k => i < l
      BY <2>1, <2>2 DEF LibrarySamples
    <3>2. n # k
      BY <1>1, <1>5, <2>1, <2>2, <2>3
    <3>. HIDE DEF i, t
    <3>. QED  BY <1>1, <1>3, <1>5, <2>3, <3>1, <3>2
  <2>. QED  BY <1>5, <2>2, <2>3, <2>4
<1>. HIDE DEF i, t
<1>. QED  BY <1>2, <1>4, <1>5 DEF i, t

LEMMA SamplesSortedOut ==
  ASSUME NEW f \in MetricFamily, DropUnsorted(f) \in MetricFamily, NEW shape, LibrarySamples(f, shape, 4),
         latest = 0
  PROVE  LibrarySamples(DropUnsorted(f), shape, 5)
<1>. DEFINE g == DropUnsorted(f)
<1>1. g.name = f.name /\ DOMAIN g.metric = DOMAIN f.metric /\ g \in MetricFamily
  <2>1. CASE DOMAIN f.metric = {}
    BY <2>1 DEF DropUnsorted, MetricFamily
  <2>2. CASE DOMAIN f.metric # {}
    <3>1. PICK n \in DOMAIN f.metric : TRUE
      BY <2>2
    <3>. QED  BY <3>1, SortedOut
  <2>. QED  BY <2>1, <2>2
<1>2. ASSUME NEW n \in DOMAIN f.metric, f.metric[n] # Nil
      PROVE  g.metric[n] = IF f.metric[n].id \in LeftAfter(shape, 5) THEN f.metric[n] ELSE Nil
  <2>1. f.metric[n].id \in LeftAfter(shape, 5) <=>
          \A k \in DOMAIN f.metric :
             k < n /\ f.metric[k] # Nil => TimeOf(f.metric[k]) <= TimeOf(f.metric[n])
    BY <1>2, SamplesBefore, LeftByStage
  <2>2. g.metric[n] =
              IF f.metric[n] # Nil /\ \A k \in DOMAIN f.metric :
                   k < n /\ f.metric[k] # Nil => TimeOf(f.metric[k]) <= TimeOf(f.metric[n])
              THEN f.metric[n] ELSE Nil
    BY SortedOut
  <2>. HIDE DEF g
  <2>. QED  BY <1>2, <2>1, <2>2
<1>3. \A n \in DOMAIN f.metric : f.metric[n] = Nil => g.metric[n] = Nil
  BY SortedOut
<1>4. LeftAfter(shape, 5) \subseteq LeftAfter(shape, 4)
  BY LeftByStage DEF InOrder
<1>5. f \in MetricFamily /\ LibrarySamples(f, shape, 4) /\ 4 \in 0..7 /\ 5 \in 0..7
  OBVIOUS
<1>. HIDE DEF g
<1>6. LibrarySamples(g, shape, 5)
  BY ONLY <1>1, <1>2, <1>3, <1>4, <1>5, Thinned
<1>. QED  BY <1>6 DEF g

\* PackMetrics does not change the order.
LEMMA SamplesPacked ==
  ASSUME NEW f \in MetricFamily, NEW g \in PackMetrics(f), g \in MetricFamily, g.name = f.name,
         Metrics(g) = Metrics(f), NEW shape, LibrarySamples(f, shape, 5)
  PROVE  LibrarySamples(g, shape, 6)
<1>. DEFINE P == {k \in DOMAIN f.metric : f.metric[k] # Nil}
<1>1. PICK t \in Packed(f.metric, P) : g = [f EXCEPT !.metric = t]
  BY DEF PackMetrics
<1>2. f.metric \in Seq(Metric \cup {Nil}) /\ P \in SUBSET DOMAIN f.metric
  BY MetricsOfFamily
<1>3. \A k : k \in P <=> k \in DOMAIN f.metric /\ f.metric[k] # Nil
  OBVIOUS
<1>. HIDE DEF P
<1>4. t \in Seq(Metric \cup {Nil}) /\ \E h : Picks(t, f.metric, P, h)
  BY <1>2, PackedElements
<1>5. PICK h : Picks(t, f.metric, P, h)
  BY <1>4
<1>6. g.metric = t
  BY <1>1, <1>4, WithMetrics
<1>7. ASSUME NEW k \in DOMAIN g.metric, NEW l \in DOMAIN g.metric, k < l
      PROVE  g.metric[k].id < g.metric[l].id
  <2>1. /\ h[k] \in DOMAIN f.metric /\ h[l] \in DOMAIN f.metric /\ h[k] < h[l]
        /\ f.metric[h[k]] # Nil /\ f.metric[h[l]] # Nil
        /\ g.metric[k] = f.metric[h[k]] /\ g.metric[l] = f.metric[h[l]]
    BY <1>3, <1>5, <1>6, <1>7 DEF Picks
  <2>. QED  BY <2>1 DEF LibrarySamples
<1>8. /\ g.name = shape.name /\ \A m \in Metrics(g) : Unchanged(m, shape, 6)
      /\ {m.id : m \in Metrics(g)} = LeftAfter(shape, 6)
  BY LeftByStage DEF LibrarySamples, Unchanged
<1>. QED  BY <1>7, <1>8 DEF LibrarySamples

\* What is left is in order for errorOnUnsorted.
LEMMA SamplesInOrder ==
  ASSUME NEW f \in MetricFamily, NEW shape, LibrarySamples(f, shape, 6)
  PROVE  ErrorOnUnsortedAccepts(f, FALSE)
<1>. SUFFICES ASSUME NEW k \in DOMAIN f.metric, NEW l \in DOMAIN f.metric,
                     k < l, f.metric[k] # Nil, f.metric[l] # Nil
     PROVE  TimeOf(f.metric[k]) <= TimeOf(f.metric[l])
  BY DEF ErrorOnUnsortedAccepts
<1>0. LeftAfter(shape, 6) = InOrder(shape)
  BY LeftByStage
<1>1. \A i \in DOMAIN f.metric : f.metric[i] # Nil =>
        f.metric[i].id \in InOrder(shape) /\ TimeOf(f.metric[i]) = TimeOf(shape.samples[f.metric[i].id])
  BY <1>0, SampleOf
<1>2. f.metric[k].id < f.metric[l].id
  BY DEF LibrarySamples
<1>. QED  BY <1>1, <1>2 DEF InOrder

\* A transformer that changes the times.
LEMMA Retimed ==
  ASSUME NEW f \in MetricFamily, NEW g \in MetricFamily, NEW shape, NEW n \in 7..9, NEW o \in 8..9,
         LibrarySamples(f, shape, n), g.name = f.name, DOMAIN g.metric = DOMAIN f.metric,
         \A k \in DOMAIN f.metric : /\ g.metric[k] # Nil /\ f.metric[k] # Nil
                                   /\ g.metric[k].id = f.metric[k].id /\ g.metric[k].labels = f.metric[k].labels
  PROVE  LibrarySamples(g, shape, o)
<1>1. LeftAfter(shape, o) = LeftAfter(shape, n)
  BY LeftByStage
<1>2. ASSUME NEW m \in Metrics(g)
      PROVE  \E l \in Metrics(f) : l.id = m.id /\ Names(l) = Names(m) /\ l.labels = m.labels
  <2>1. PICK k \in DOMAIN g.metric : g.metric[k] = m
    BY MetricsOfFamily
  <2>2. f.metric[k] \in Metrics(f) /\ f.metric[k].id = m.id /\ f.metric[k].labels = m.labels
    BY <2>1, MetricsOfFamily
  <2>. QED  BY <2>2 DEF Names
<1>3. ASSUME NEW l \in Metrics(f) PROVE \E m \in Metrics(g) : m.id = l.id
  <2>1. PICK k \in DOMAIN f.metric : f.metric[k] = l
    BY MetricsOfFamily
  <2>2. g.metric[k] \in Metrics(g) /\ g.metric[k].id = l.id
    BY <2>1, MetricsOfFamily
  <2>. QED  BY <2>2
<1>4. \A m \in Metrics(g) : Unchanged(m, shape, o)
  BY <1>2 DEF LibrarySamples, Unchanged
<1>5. {m.id : m \in Metrics(g)} = LeftAfter(shape, o)
  BY <1>1, <1>2, <1>3 DEF LibrarySamples
<1>6. \A k, l \in DOMAIN g.metric : k < l => g.metric[k].id < g.metric[l].id
  BY DEF LibrarySamples
<1>7. g.name = shape.name
  BY DEF LibrarySamples
<1>. QED  BY <1>4, <1>5, <1>6, <1>7 DEF LibrarySamples

\* Those that change the times.
LEMMA SamplesTimeless ==
  ASSUME NEW f \in MetricFamily, DropTimestamp(f) \in MetricFamily, Nil \notin ToSet(f.metric),
         NEW shape, LibrarySamples(f, shape, 7)
  PROVE  LibrarySamples(DropTimestamp(f), shape, 8)
<1>. DEFINE Op(m) == IF m = Nil THEN Nil ELSE [m EXCEPT !.time = NoTime]
            s == [k \in DOMAIN f.metric |-> Op(f.metric[k])]
            g == DropTimestamp(f)
<1>1. ASSUME NEW k \in DOMAIN f.metric
      PROVE  /\ Op(f.metric[k]) \in Metric /\ f.metric[k] # Nil /\ Op(f.metric[k]) # Nil
             /\ Op(f.metric[k]).id = f.metric[k].id /\ Op(f.metric[k]).labels = f.metric[k].labels
  <2>. DEFINE m == f.metric[k]
              e == [m EXCEPT !.time = NoTime]
  <2>1. m \in Metric /\ m # Nil
    BY MetricsOfFamily
  <2>. HIDE DEF m
  <2>2. e \in Metric /\ e.id = m.id /\ e.labels = m.labels
    BY <2>1, WithTime
  <2>3. Op(m) = e
    BY <2>1
  <2>. HIDE DEF e, Op
  <2>. QED  BY <2>1, <2>2, <2>3 DEF m
<1>. HIDE DEF Op
<1>2. g.metric = s /\ g.name = f.name /\ DOMAIN s = DOMAIN f.metric
  <2>1. s \in [1..Len(f.metric) -> Metric \cup {Nil}]
    BY <1>1, MetricsOfFamily
  <2>2. s \in Seq(Metric \cup {Nil})
    BY <2>1, MetricsOfFamily, FunctionIsSeq
  <2>3. DOMAIN s = DOMAIN f.metric
    OBVIOUS
  <2>4. g = [f EXCEPT !.metric = s]
    BY DEF DropTimestamp, EachMetric, Op
  <2>. HIDE DEF s, g
  <2>. QED  BY <2>2, <2>3, <2>4, WithMetrics
<1>3. \A k \in DOMAIN f.metric : /\ g.metric[k] # Nil /\ f.metric[k] # Nil
                                /\ g.metric[k].id = f.metric[k].id /\ g.metric[k].labels = f.metric[k].labels
  BY <1>1, <1>2
<1>4. g \in MetricFamily /\ DOMAIN g.metric = DOMAIN f.metric /\ g.name = f.name
  BY <1>2
<1>. HIDE DEF g, s
<1>. QED  BY <1>3, <1>4, Retimed DEF g

LEMMA SamplesOverwritten ==
  ASSUME NEW f \in MetricFamily, OverwriteTimestamps(f) \in MetricFamily, Nil \notin ToSet(f.metric),
         NEW shape, LibrarySamples(f, shape, 8)
  PROVE  LibrarySamples(OverwriteTimestamps(f), shape, 9)
<1>. DEFINE Op(m) == [m EXCEPT !.time = Now]
            s == [k \in DOMAIN f.metric |-> Op(f.metric[k])]
            g == OverwriteTimestamps(f)
<1>1. ASSUME NEW k \in DOMAIN f.metric
      PROVE  /\ Op(f.metric[k]) \in Metric /\ f.metric[k] # Nil /\ Op(f.metric[k]) # Nil
             /\ Op(f.metric[k]).id = f.metric[k].id /\ Op(f.metric[k]).labels = f.metric[k].labels
  <2>. DEFINE m == f.metric[k]
  <2>1. m \in Metric /\ m # Nil
    BY MetricsOfFamily
  <2>. HIDE DEF m
  <2>2. Op(m) \in Metric /\ Op(m).id = m.id /\ Op(m).labels = m.labels
    BY <2>1, WithTime
  <2>. HIDE DEF Op
  <2>. QED  BY <2>1, <2>2 DEF m
<1>. HIDE DEF Op
<1>2. g.metric = s /\ g.name = f.name /\ DOMAIN s = DOMAIN f.metric
  <2>1. s \in [1..Len(f.metric) -> Metric \cup {Nil}]
    BY <1>1, MetricsOfFamily
  <2>2. s \in Seq(Metric \cup {Nil})
    BY <2>1, MetricsOfFamily, FunctionIsSeq
  <2>3. DOMAIN s = DOMAIN f.metric
    OBVIOUS
  <2>4. g = [f EXCEPT !.metric = s]
    BY DEF OverwriteTimestamps, EachMetric, Op
  <2>. HIDE DEF s, g
  <2>. QED  BY <2>2, <2>3, <2>4, WithMetrics
<1>3. \A k \in DOMAIN f.metric : /\ g.metric[k] # Nil /\ f.metric[k] # Nil
                                /\ g.metric[k].id = f.metric[k].id /\ g.metric[k].labels = f.metric[k].labels
  BY <1>1, <1>2
<1>4. g \in MetricFamily /\ DOMAIN g.metric = DOMAIN f.metric /\ g.name = f.name
  BY <1>2
<1>. HIDE DEF g, s
<1>. QED  BY <1>3, <1>4, Retimed DEF g

\* What is retrieved has all samples, in their order.
LEMMA SamplesRetrieved ==
  ASSUME NEW f \in Nat \ {0}, NEW shape \in Shape
  PROVE  LibrarySamples(Family(f, shape), shape, 0)
<1>. DEFINE g == Family(f, shape)
<1>1. g \in MetricFamily /\ CollectorFamily(g, shape, 0)
  BY RetrievedFamily
<1>2. \A k \in DOMAIN g.metric : g.metric[k].id = k /\ k \in Nat
  BY <1>1, MetricsOfFamily DEF Family
<1>. HIDE DEF g
<1>3. /\ g.name = shape.name
      /\ {m.id : m \in Metrics(g)} = {k \in DOMAIN shape.samples : 0 >= 4 => SampleValid(shape.samples[k])}
      /\ \A m \in Metrics(g) : /\ m.time = shape.samples[m.id].time
                              /\ Names(m) = LabelsAfter(shape.samples[m.id].labels, 0)
  BY <1>1 DEF CollectorFamily
<1>4. {m.id : m \in Metrics(g)} = LeftAfter(shape, 0)
  BY <1>3, LeftByStage
<1>5. ASSUME NEW m \in Metrics(g) PROVE Unchanged(m, shape, 0)
  <2>1. PICK k \in DOMAIN g.metric : g.metric[k] = m
    BY <1>1, MetricsOfFamily
  <2>2. m.id = k /\ m.labels = {Pair(f, k, name) : name \in shape.samples[k].labels}
    BY <2>1 DEF g, Family
  <2>3. \A p \in m.labels : p.metric = m.id
    BY <2>2 DEF Pair
  <2>. QED  BY <1>3, <2>3 DEF Unchanged, LabelsAfter
<1>. QED  BY <1>2, <1>3, <1>4, <1>5 DEF LibrarySamples, g

-----------------------------------------------------------------------------
(* The steps that the other transformers take.                             *)

LEMMA InitLibraryInv == Init => LibraryInv
<1>. SUFFICES ASSUME Init PROVE LibraryInv
  OBVIOUS
<1>1. IndInv
  BY InitIndInv
<1>2. at = 1 /\ stage = 1 /\ latest = 0 /\ pc = "filter" /\ DOMAIN families = DOMAIN input
  BY DEF Init
<1>3. DOMAIN input = 1..Len(input) /\ Len(input) \in Nat /\ \A f \in DOMAIN input : input[f] \in Shape
  BY <1>1, InputIsShapes DEF IndInv
<1>4. ASSUME NEW f \in DOMAIN input
      PROVE  /\ families[f] # Nil /\ families[f].index = f /\ Applied(f) = 0
             /\ LibrarySamples(families[f], input[f], 0)
  <2>1. families[f] = Family(f, input[f]) /\ f \in Nat \ {0} /\ input[f] \in Shape
    BY <1>3 DEF Init
  <2>2. Family(f, input[f]).index = f /\ families[f] \in MetricFamily
    BY <2>1, RetrievedFamily
  <2>3. Applied(f) = 0
    BY <1>2, <2>1 DEF Applied
  <2>. QED  BY <2>1, <2>2, <2>3, SamplesRetrieved
<1>. QED  BY <1>2, <1>4 DEF LibraryInv

\* A transformer accepts a family of which it leaves what it is to leave.
LEMMA LibraryAccepted ==
  ASSUME IndInv, LibraryInv, pc = "filter", at <= Len(families), stages = LibraryStages,
         NEW g \in MetricFamily, Accept(g), latest' = 0, g.index = at,
         LibrarySamples(g, input[at], stage)
  PROVE  LibraryInv'
<1>1. /\ DOMAIN families' = DOMAIN families /\ families'[at] = g
      /\ \A f \in DOMAIN families : f = at => Applied(f)' = stage
      /\ \A f \in DOMAIN families : f # at => families'[f] = families[f] /\ Applied(f)' = Applied(f)
      /\ input' = input /\ stages' = stages /\ pc' = pc
  BY Moves
<1>2. at \in DOMAIN families /\ families[at] # Nil /\ families[at].index = at
  BY Reached
<1>3. g # Nil
  OBVIOUS
<1>4. ASSUME NEW f \in DOMAIN families', families'[f] # Nil
      PROVE  LibrarySamples(families'[f], input[families'[f].index], Applied(f)')
  <2>1. CASE f = at
    BY <1>1, <1>2, <2>1
  <2>2. CASE f # at
    <3>1. f \in DOMAIN families /\ families'[f] = families[f] /\ Applied(f)' = Applied(f)
      BY <1>1, <2>2
    <3>. QED  BY <1>4, <3>1 DEF LibraryInv
  <2>. QED  BY <2>1, <2>2
<1>5. ASSUME NEW n \in DOMAIN input, InOrder(input[n]) # {}
      PROVE  \E f \in DOMAIN families' : families'[f] # Nil /\ families'[f].index = n
  <2>1. PICK f \in DOMAIN families : families[f] # Nil /\ families[f].index = n
    BY <1>5 DEF LibraryInv
  <2>2. CASE f = at
    BY <1>1, <1>2, <1>3, <2>1, <2>2
  <2>3. CASE f # at
    BY <1>1, <2>1, <2>3
  <2>. QED  BY <2>2, <2>3
<1>. QED  BY <1>1, <1>4, <1>5 DEF LibraryInv

\* A transformer rejects a family of which nothing is to be left.
LEMMA LibraryRejected ==
  ASSUME IndInv, LibraryInv, pc = "filter", at <= Len(families), stages = LibraryStages,
         Reject, latest' = latest, InOrder(input[at]) = {}
  PROVE  LibraryInv'
<1>1. /\ DOMAIN families' = DOMAIN families
      /\ \A f \in DOMAIN families : f # at => families'[f] = families[f]
      /\ \A f \in DOMAIN families : families'[f] # Nil =>
              f # at /\ families'[f] = families[f] /\ Applied(f)' = Applied(f)
      /\ input' = input /\ stages' = stages /\ pc' = pc
  BY Skips
<1>2. at \in DOMAIN families /\ families[at] # Nil /\ families[at].index = at
  BY Reached
<1>3. ASSUME NEW f \in DOMAIN families', families'[f] # Nil
      PROVE  LibrarySamples(families'[f], input[families'[f].index], Applied(f)')
  <2>1. f \in DOMAIN families /\ families'[f] = families[f] /\ Applied(f)' = Applied(f)
    BY <1>1, <1>3
  <2>. QED  BY <1>3, <2>1 DEF LibraryInv
<1>4. ASSUME NEW n \in DOMAIN input, InOrder(input[n]) # {}
      PROVE  \E f \in DOMAIN families' : families'[f] # Nil /\ families'[f].index = n
  <2>1. PICK f \in DOMAIN families : families[f] # Nil /\ families[f].index = n
    BY <1>4 DEF LibraryInv
  <2>2. f # at
    BY <1>2, <1>4, <2>1
  <2>. QED  BY <1>1, <2>1, <2>2
<1>5. latest' = 0
  BY DEF LibraryInv
<1>. QED  BY <1>1, <1>3, <1>4, <1>5 DEF LibraryInv

\* The family that the other transformers have reached.
LEMMA LibraryReached ==
  ASSUME IndInv, LibraryInv, pc = "filter", at <= Len(families), stages = LibraryStages
  PROVE  /\ families[at] \in MetricFamily /\ families[at].index = at /\ latest = 0
         /\ OwnLabels(families[at], input[at])
         /\ LibrarySamples(families[at], input[at], stage - 1)
         /\ LibraryFamily(families[at], stage - 1)
<1>1. /\ at \in DOMAIN families /\ at \in Nat
      /\ families[at] # Nil /\ families[at] \in MetricFamily /\ families[at].index = at
      /\ OwnLabels(families[at], input[at])
      /\ LibraryFamily(families[at], stage - 1)
  BY Reached
<1>2. Applied(at) = stage - 1
  BY <1>1 DEF Applied
<1>. QED  BY <1>1, <1>2 DEF LibraryInv

LEMMA LibraryRewrite ==
  ASSUME IndInv, LibraryInv, stages = LibraryStages, RewriteStep
  PROVE  LibraryInv'
<1>. DEFINE f == families[at]
<1>1. pc = "filter" /\ at <= Len(families) /\ latest' = latest
  BY DEF RewriteStep, InStage
<1>2. /\ f \in MetricFamily /\ f.index = at /\ latest = 0 /\ OwnLabels(f, input[at])
      /\ LibrarySamples(f, input[at], stage - 1) /\ LibraryFamily(f, stage - 1)
  BY <1>1, LibraryReached
<1>3. ASSUME stages[stage] = "expired", Accept(DropExpired(f)) PROVE LibraryInv'
  <2>. DEFINE g == DropExpired(f)
  <2>1. stage = 3 /\ stage - 1 = 2
    BY <1>3, StageOf, OtherStages, TwoChains
  <2>2. g \in MetricFamily /\ g.index = at
    BY <1>2, UnexpiredFamily
  <2>3. LibrarySamples(g, input[at], stage)
    <3>. HIDE DEF f
    <3>. QED  BY <1>2, <2>1, <2>2, SamplesUnexpired
  <2>4. Accept(g) /\ latest' = 0
    BY <1>1, <1>2, <1>3
  <2>. HIDE DEF f, g
  <2>. QED  BY <1>1, <2>2, <2>3, <2>4, LibraryAccepted
<1>4. ASSUME stages[stage] = "timeless", Accept(DropTimestamp(f)) PROVE LibraryInv'
  <2>. DEFINE g == DropTimestamp(f)
  <2>1. stage = 8 /\ stage - 1 = 7
    BY <1>4, StageOf, OtherStages, TwoChains
  <2>2. Nil \notin ToSet(f.metric)
    BY <1>2, <2>1 DEF LibraryFamily
  <2>3. g \in MetricFamily /\ g.index = at
    BY <1>2, <2>2, TimelessFamily
  <2>4. LibrarySamples(g, input[at], stage)
    <3>. HIDE DEF f
    <3>. QED  BY <1>2, <2>1, <2>2, <2>3, SamplesTimeless
  <2>5. Accept(g) /\ latest' = 0
    BY <1>1, <1>2, <1>4
  <2>. HIDE DEF f, g
  <2>. QED  BY <1>1, <2>3, <2>4, <2>5, LibraryAccepted
<1>5. ASSUME stages[stage] = "overwrite", Accept(OverwriteTimestamps(f)) PROVE LibraryInv'
  <2>. DEFINE g == OverwriteTimestamps(f)
  <2>1. stage = 9 /\ stage - 1 = 8
    BY <1>5, StageOf, OtherStages, TwoChains
  <2>2. Nil \notin ToSet(f.metric)
    BY <1>2, <2>1 DEF LibraryFamily
  <2>3. g \in MetricFamily /\ g.index = at
    BY <1>2, <2>2, OverwrittenFamily
  <2>4. LibrarySamples(g, input[at], stage)
    <3>. HIDE DEF f
    <3>. QED  BY <1>2, <2>1, <2>2, <2>3, SamplesOverwritten
  <2>5. Accept(g) /\ latest' = 0
    BY <1>1, <1>2, <1>5
  <2>. HIDE DEF f, g
  <2>. QED  BY <1>1, <2>3, <2>4, <2>5, LibraryAccepted
<1>6. stages[stage] \notin {"label", "rename", "elide", "sort"}
  BY StageOf, OtherStages, TwoChains
<1>. QED  BY <1>3, <1>4, <1>5, <1>6 DEF RewriteStep, InStage

LEMMA LibraryPack ==
  ASSUME IndInv, LibraryInv, stages = LibraryStages, PackStep
  PROVE  LibraryInv'
<1>. DEFINE f == families[at]
<1>1. pc = "filter" /\ at <= Len(families) /\ latest' = latest /\ stages[stage] = "pack"
  BY DEF PackStep, InStage
<1>2. /\ f \in MetricFamily /\ f.index = at /\ latest = 0 /\ OwnLabels(f, input[at])
      /\ LibrarySamples(f, input[at], stage - 1)
  BY <1>1, LibraryReached
<1>3. stage = 6 /\ stage - 1 = 5
  BY <1>1, StageOf, OtherStages, TwoChains
<1>4. ASSUME NEW g \in PackMetrics(f), Accept(g) PROVE LibraryInv'
  <2>. HIDE DEF f
  <2>1. g \in MetricFamily /\ g.index = at /\ g.name = f.name /\ Metrics(g) = Metrics(f)
    BY <1>2, PackedMetrics
  <2>2. LibrarySamples(g, input[at], stage)
    BY <1>2, <1>3, <2>1, SamplesPacked
  <2>. QED  BY <1>1, <1>2, <1>4, <2>1, <2>2, LibraryAccepted
<1>5. ASSUME Metrics(f) = {}, Reject PROVE LibraryInv'
  <2>1. InOrder(input[at]) = {}
    <3>. HIDE DEF f
    <3>. QED  BY <1>2, <1>3, <1>5, LeftByStage DEF LibrarySamples
  <2>. QED  BY <1>1, <1>5, <2>1, LibraryRejected
<1>. QED  BY <1>4, <1>5 DEF PackStep

LEMMA LibraryWhitelist ==
  ASSUME IndInv, LibraryInv, stages = LibraryStages, WhitelistStep
  PROVE  LibraryInv'
<1>. DEFINE f == families[at]
            g == Whitelisted(f)
<1>1. pc = "filter" /\ at <= Len(families) /\ latest' = latest /\ stages[stage] = "whitelist"
  BY DEF WhitelistStep, InStage
<1>2. /\ f \in MetricFamily /\ f.index = at /\ latest = 0 /\ OwnLabels(f, input[at])
      /\ LibrarySamples(f, input[at], stage - 1)
  BY <1>1, LibraryReached
<1>3. stage = 1 /\ stage - 1 = 0
  BY <1>1, StageOf, OtherStages, TwoChains
<1>4. g \in MetricFamily /\ g.index = at
  <2>. HIDE DEF f
  <2>. QED  BY <1>2, WhitelistedFamily
<1>5. LibrarySamples(g, input[at], stage)
  <2>. HIDE DEF f
  <2>. QED  BY <1>2, <1>3, <1>4, SamplesWhitelisted
<1>6. ASSUME Accept(g) PROVE LibraryInv'
  <2>. HIDE DEF f, g
  <2>. QED  BY <1>1, <1>2, <1>4, <1>5, <1>6, LibraryAccepted
<1>7. ASSUME Metrics(g) = {}, Reject PROVE LibraryInv'
  <2>1. InOrder(input[at]) \subseteq LeftAfter(input[at], 1)
    BY LeftByStage DEF InOrder
  <2>2. InOrder(input[at]) = {}
    <3>. HIDE DEF f, g
    <3>. QED  BY <1>3, <1>5, <1>7, <2>1 DEF LibrarySamples
  <2>. QED  BY <1>1, <1>7, <2>2, LibraryRejected
<1>. QED  BY <1>6, <1>7 DEF WhitelistStep

LEMMA LibraryEmpty ==
  ASSUME IndInv, LibraryInv, stages = LibraryStages, EmptyStep
  PROVE  LibraryInv'
<1>. DEFINE f == families[at]
<1>1. pc = "filter" /\ at <= Len(families) /\ latest' = latest /\ stages[stage] = "empty"
  BY DEF EmptyStep, InStage
<1>2. /\ f \in MetricFamily /\ f.index = at /\ latest = 0
      /\ LibrarySamples(f, input[at], stage - 1)
  BY <1>1, LibraryReached
<1>3. stage = 4 /\ stage - 1 = 3
  BY <1>1, StageOf, OtherStages, TwoChains
<1>4. LibrarySamples(f, input[at], stage)
  <2>. HIDE DEF f
  <2>. QED  BY <1>2, <1>3, LeftByStage, Untouched
<1>5. ASSUME Accept(f) PROVE LibraryInv'
  <2>. HIDE DEF f
  <2>. QED  BY <1>1, <1>2, <1>4, <1>5, LibraryAccepted
<1>6. ASSUME Metrics(f) = {}, Reject PROVE LibraryInv'
  <2>1. InOrder(input[at]) \subseteq LeftAfter(input[at], 4)
    BY LeftByStage DEF InOrder
  <2>2. InOrder(input[at]) = {}
    <3>. HIDE DEF f
    <3>. QED  BY <1>3, <1>4, <1>6, <2>1 DEF LibrarySamples
  <2>. QED  BY <1>1, <1>6, <2>2, LibraryRejected
<1>. QED  BY <1>5, <1>6 DEF EmptyStep

\* The labels of a metric with the right value are those of its sample.
LEMMA RightLabels ==
  ASSUME NEW f \in MetricFamily, NEW n, OwnLabels(f, input[f.index]),
         LibrarySamples(f, input[f.index], n), NEW m \in Metrics(f)
  PROVE  LET sample == input[f.index].samples[m.id] IN Right(m) = sample.labels \ sample.other
<1>. DEFINE sample == input[f.index].samples[m.id]
<1>1. Names(m) = sample.labels /\ \A p \in m.labels : p.family = f.index /\ p.metric = m.id
  BY DEF OwnLabels, LibrarySamples, Unchanged
<1>2. Right(m) = {p.name : p \in {q \in m.labels : q.name \notin sample.other}}
  BY <1>1 DEF Right
<1>. HIDE DEF sample
<1>3. Right(m) = sample.labels \ sample.other
  BY <1>1, <1>2 DEF Names
<1>. QED  BY <1>3 DEF sample

LEMMA LibraryRequire ==
  ASSUME IndInv, LibraryInv, stages = LibraryStages, RequireStep
  PROVE  LibraryInv'
<1>. DEFINE f == families[at]
<1>1. pc = "filter" /\ at <= Len(families) /\ latest' = latest /\ stages[stage] = "require"
  BY DEF RequireStep, InStage
<1>2. /\ f \in MetricFamily /\ f.index = at /\ latest = 0 /\ OwnLabels(f, input[at])
      /\ LibrarySamples(f, input[at], stage - 1)
  BY <1>1, LibraryReached
<1>3. stage = 2 /\ stage - 1 = 1
  BY <1>1, StageOf, OtherStages, TwoChains
<1>4. LibrarySamples(f, input[at], stage)
  <2>. HIDE DEF f
  <2>. QED  BY <1>2, <1>3, LeftByStage, Untouched
<1>5. ASSUME Accept(f) PROVE LibraryInv'
  <2>. HIDE DEF f
  <2>. QED  BY <1>1, <1>2, <1>4, <1>5, LibraryAccepted
<1>6. ASSUME NEW m \in Metrics(f), ~(Required \subseteq Right(m)), Fail PROVE LibraryInv'
  <2>1. Unfit(input[at])
    <3>. DEFINE sample == input[at].samples[m.id]
    <3>1. m.id \in LeftAfter(input[at], 1)
      BY <1>2, <1>3, <1>6 DEF LibrarySamples
    <3>2. Right(m) = sample.labels \ sample.other
      BY <1>2, <1>6, RightLabels
    <3>3. m.id \in DOMAIN input[at].samples /\ Matches(input[at].name, sample.labels)
      BY <3>1, LeftByStage
    <3>. QED  BY <1>6, <3>2, <3>3 DEF Unfit
  <2>2. /\ pc' = "failed" /\ input' = input /\ families' = families /\ stages' = stages
        /\ at' = at /\ stage' = stage
    BY <1>6 DEF Fail
  <2>3. \A n : Applied(n)' = Applied(n)
    BY <1>1, <2>2 DEF Applied
  <2>. QED  BY <1>1, <2>1, <2>2, <2>3 DEF LibraryInv
<1>. QED  BY <1>5, <1>6 DEF RequireStep

LEMMA LibraryErrorUnsorted ==
  ASSUME IndInv, LibraryInv, stages = LibraryStages, ErrorUnsortedStep
  PROVE  LibraryInv'
<1>. DEFINE f == families[at]
<1>1. pc = "filter" /\ at <= Len(families) /\ latest' = latest /\ stages[stage] = "errorUnsorted"
  BY DEF ErrorUnsortedStep, InStage
<1>2. /\ f \in MetricFamily /\ f.index = at /\ latest = 0
      /\ LibrarySamples(f, input[at], stage - 1)
  BY <1>1, LibraryReached
<1>3. stage = 7 /\ stage - 1 = 6
  BY <1>1, StageOf, OtherStages, TwoChains
<1>. HIDE DEF f
<1>4. LibrarySamples(f, input[at], stage)
  BY <1>2, <1>3, LeftByStage, Untouched
<1>5. ErrorOnUnsortedAccepts(f, FALSE)
  BY <1>2, <1>3, SamplesInOrder
<1>6. Accept(f)
  BY <1>5 DEF ErrorUnsortedStep, f
<1>. QED  BY <1>1, <1>2, <1>4, <1>6, LibraryAccepted

LEMMA LibraryUnsorted ==
  ASSUME IndInv, LibraryInv, stages = LibraryStages, UnsortedStep
  PROVE  LibraryInv'
<1>. DEFINE f == families[at]
            g == DropUnsorted(f)
<1>1. pc = "filter" /\ at <= Len(families) /\ latest' = 0 /\ stages[stage] = "unsorted" /\ Accept(g)
  BY DEF UnsortedStep, InStage
<1>2. /\ f \in MetricFamily /\ f.index = at /\ latest = 0 /\ OwnLabels(f, input[at])
      /\ LibrarySamples(f, input[at], stage - 1)
  BY <1>1, LibraryReached
<1>3. stage = 5 /\ stage - 1 = 4
  BY <1>1, StageOf, OtherStages, TwoChains
<1>. HIDE DEF f
<1>4. g \in MetricFamily /\ g.index = at
  BY <1>2, SortedOutFamily
<1>5. LibrarySamples(g, input[at], stage)
  BY <1>2, <1>3, <1>4, SamplesSortedOut
<1>. HIDE DEF g
<1>. QED  BY <1>1, <1>2, <1>4, <1>5, LibraryAccepted

\* After Filter nothing changes but the places of the families.
LEMMA LibraryEndFilter ==
  ASSUME IndInv, LibraryInv, stages = LibraryStages, EndFilter
  PROVE  LibraryInv'
<1>1. /\ pc = "filter" /\ at > Len(families) /\ pc' = "pack"
      /\ input' = input /\ families' = families /\ stages' = stages /\ latest' = latest
  BY DEF EndFilter, filterVars
<1>2. \A f \in DOMAIN families : Applied(f)' = Applied(f)
  <2>1. \A f \in DOMAIN families : f < at
    BY <1>1, FamilyList DEF IndInv, TypeOK
  <2>. QED  BY <1>1, <2>1 DEF Applied
<1>. QED  BY <1>1, <1>2 DEF LibraryInv

LEMMA LibraryPackFamilies ==
  ASSUME IndInv, LibraryInv, stages = LibraryStages, PackFamilies
  PROVE  LibraryInv'
<1>. DEFINE P == {f \in DOMAIN families : families[f] # Nil /\ Len(families[f].metric) > 0}
<1>1. /\ pc = "pack" /\ pc' = "convert" /\ families' \in Packed(families, P)
      /\ input' = input /\ stages' = stages /\ latest' = latest
  BY DEF PackFamilies
<1>2. \A f : f \in P <=> f \in DOMAIN families /\ families[f] # Nil /\ Len(families[f].metric) > 0
  OBVIOUS
<1>3. families \in Seq(MetricFamily \cup {Nil}) /\ P \in SUBSET DOMAIN families
  BY FamilyList DEF IndInv
<1>. HIDE DEF P
<1>4. PICK h : Picks(families', families, P, h)
  BY <1>1, <1>3, PackedElements
<1>5. \A k \in DOMAIN families' : /\ h[k] \in DOMAIN families /\ families[h[k]] # Nil
                               /\ families'[k] = families[h[k]]
  BY <1>2, <1>4 DEF Picks
<1>6. (\A f : Applied(f) = Len(stages)) /\ \A f : Applied(f)' = Len(stages)
  BY <1>1 DEF Applied
<1>7. ASSUME NEW k \in DOMAIN families'
      PROVE  LibrarySamples(families'[k], input[families'[k].index], Applied(k)')
  <2>1. Applied(k)' = Applied(h[k])
    BY <1>6
  <2>. QED  BY <1>5, <2>1 DEF LibraryInv
<1>8. ASSUME NEW n \in DOMAIN input, InOrder(input[n]) # {}
      PROVE  \E k \in DOMAIN families' : families'[k] # Nil /\ families'[k].index = n
  <2>1. PICK f \in DOMAIN families : families[f] # Nil /\ families[f].index = n
    BY <1>8 DEF LibraryInv
  <2>2. families[f] \in MetricFamily /\ LibrarySamples(families[f], input[n], 9)
    <3>1. Applied(f) = 9
      BY <1>6, TwoChains
    <3>. QED  BY <2>1, <3>1, FamilyList DEF LibraryInv, IndInv
  <2>3. {m.id : m \in Metrics(families[f])} = InOrder(input[n])
    BY <2>2, LeftByStage DEF LibrarySamples
  <2>4. PICK m : m \in Metrics(families[f])
    BY <1>8, <2>3
  <2>5. Len(families[f].metric) > 0
    <3>1. PICK k \in DOMAIN families[f].metric : families[f].metric[k] = m
      BY <2>2, <2>4, MetricsOfFamily
    <3>2. k \in 1..Len(families[f].metric) /\ Len(families[f].metric) \in Nat
      BY <2>2, MetricsOfFamily
    <3>. QED  BY <3>2
  <2>6. PICK k \in DOMAIN families' : h[k] = f
    BY <1>2, <1>4, <2>1, <2>5 DEF Picks
  <2>. QED  BY <1>5, <2>1, <2>6
<1>. QED  BY <1>1, <1>7, <1>8 DEF LibraryInv

LEMMA LibraryConverts ==
  ASSUME IndInv, LibraryInv, stages = LibraryStages, Convert \/ EndConvert
  PROVE  LibraryInv'
<1>1. /\ pc = "convert" /\ pc' \in {"convert", "unsupported", "done"}
      /\ input' = input /\ families' = families /\ stages' = stages /\ latest' = latest
  BY DEF Convert, EndConvert, ConvertFrame
<1>2. \A f : Applied(f)' = Applied(f)
  BY <1>1 DEF Applied
<1>. QED  BY <1>1, <1>2 DEF LibraryInv

\* The collector's chain never fails.
LEMMA NextLibraryInv == IndInv /\ LibraryInv /\ [Next]_vars => LibraryInv'
<1>. SUFFICES ASSUME IndInv, LibraryInv, [Next]_vars PROVE LibraryInv'
  OBVIOUS
<1>1. CASE stages = Stages
  <2>1. stages' = stages
    BY DEF Next, vars, filterVars, RewriteStep, DropStep, PackStep, AnonymizeStep, WhitelistStep,
           EmptyStep, RequireStep, ErrorUnsortedStep, UnsortedStep, EndFilter, PackFamilies,
           Convert, EndConvert, ConvertFrame, Accept, Reject, Fail
  <2>2. stages # LibraryStages
    BY <1>1, TwoChains
  <2>3. stages[stage] \notin {"require", "errorUnsorted"}
    BY <1>1, StageOf, CollectorStages, TwoChains
  <2>4. pc # "failed"
    BY <2>2 DEF LibraryInv
  <2>5. pc' # "failed"
    BY <2>3, <2>4 DEF Next, vars, filterVars, RewriteStep, DropStep, PackStep, AnonymizeStep, WhitelistStep,
           EmptyStep, RequireStep, ErrorUnsortedStep, UnsortedStep, EndFilter, PackFamilies,
           Convert, EndConvert, ConvertFrame, Accept, Reject, InStage
  <2>. QED  BY <2>1, <2>2, <2>5 DEF LibraryInv
<1>2. CASE stages = LibraryStages
  <2>1. CASE vars' = vars
    <3>1. /\ pc' = pc /\ input' = input /\ families' = families /\ stages' = stages
          /\ at' = at /\ stage' = stage /\ latest' = latest
      BY <2>1 DEF vars, filterVars
    <3>2. \A f : Applied(f)' = Applied(f)
      BY <3>1 DEF Applied
    <3>. QED  BY <3>1, <3>2 DEF LibraryInv
  <2>2. ASSUME DropStep \/ AnonymizeStep PROVE FALSE
    <3>1. stages[stage] \in {"drop", "anonymize"}
      BY <2>2 DEF DropStep, AnonymizeStep, InStage
    <3>. QED  BY <1>2, <3>1, StageOf, OtherStages, TwoChains
  <2>. QED  BY <1>2, <2>1, <2>2, LibraryRewrite, LibraryPack, LibraryWhitelist, LibraryEmpty, LibraryRequire,
               LibraryErrorUnsorted, LibraryUnsorted, LibraryEndFilter, LibraryPackFamilies, LibraryConverts
            DEF Next
<1>. QED  BY <1>1, <1>2, Chain DEF IndInv

\* After each of the other transformers a family has exactly the samples that it
\* is to leave, with their labels and, until it is overwritten, their time.
THEOREM LibraryInvariance == Spec => []LibraryInv
<1>1. Init => LibraryInv
  BY InitLibraryInv
<1>2. IndInv /\ LibraryInv /\ [Next]_vars => LibraryInv'
  BY NextLibraryInv
<1>. QED  BY <1>1, <1>2, Invariance, PTL DEF Spec

-----------------------------------------------------------------------------
(* What passes NewRequiredLabels.                                          *)

\* NewRequiredLabels, the second transformer, has accepted the family g, or nothing
\* of it was left to be looked at.
Looked(g) ==
  \/ pc \notin {"filter", "failed"}
  \/ g < at
  \/ g = at /\ stage >= 3

FitInv == stages = LibraryStages => \A g \in DOMAIN input : Looked(g) => ~Unfit(input[g])

\* Another transformer accepts or rejects the family that was reached.
LEMMA FitMoves ==
  ASSUME IndInv, FitInv, stages = LibraryStages, pc = "filter", at <= Len(families),
         Reject \/ \E f : Accept(f), stage = 2 => ~Unfit(input[at]),
         stage = 1 /\ Reject => ~Unfit(input[at])
  PROVE  FitInv'
<1>1. at \in Nat /\ stage \in Nat /\ stage >= 1 /\ stage <= 9 /\ Len(stages) = 9
  BY Chain DEF IndInv, TypeOK
<1>2. input' = input /\ stages' = stages /\ pc' = pc
  BY DEF Accept, Reject
<1>3. ASSUME NEW g \in DOMAIN input, Looked(g)' PROVE ~Unfit(input[g])
  <2>1. g \in Nat
    BY InputIsShapes DEF IndInv
  <2>2. g < at' \/ (g = at' /\ stage' >= 3)
    BY <1>2, <1>3 DEF Looked
  <2>3. CASE g < at \/ (g = at /\ stage >= 3)
    BY <2>3 DEF FitInv, Looked
  <2>4. CASE g = at /\ stage = 2
    BY <2>4
  <2>5. CASE g = at /\ stage = 1
    <3>1. Reject
      <4>1. ASSUME NEW f, Accept(f) PROVE FALSE
        <5>1. at' = at /\ stage' = 2
          BY <1>1, <2>5, <4>1 DEF Accept
        <5>. QED  BY <1>1, <2>2, <2>5, <5>1
      <4>. QED  BY <4>1
    <3>. QED  BY <2>5, <3>1
  <2>6. CASE g > at
    <3>1. at' = at \/ (at' = at + 1 /\ stage' = 1)
      BY <1>1 DEF Accept, Reject
    <3>. QED  BY <1>1, <2>1, <2>2, <2>6, <3>1
  <2>. QED  BY <1>1, <2>1, <2>3, <2>4, <2>5, <2>6
<1>. QED  BY <1>2, <1>3, Chain DEF FitInv, IndInv

\* A family of which nothing matches is not looked at, and one that is accepted fits.
LEMMA FitWhitelist ==
  ASSUME IndInv, LibraryInv, FitInv, stages = LibraryStages, WhitelistStep
  PROVE  FitInv'
<1>. DEFINE f == families[at]
            g == Whitelisted(f)
<1>1. pc = "filter" /\ at <= Len(families) /\ stages[stage] = "whitelist"
  BY DEF WhitelistStep, InStage
<1>2. /\ f \in MetricFamily /\ OwnLabels(f, input[at]) /\ LibrarySamples(f, input[at], stage - 1)
  BY <1>1, LibraryReached
<1>3. stage = 1 /\ stage - 1 = 0
  BY <1>1, StageOf, OtherStages, TwoChains
<1>4. (Metrics(g) # {} /\ Accept(g)) \/ (Metrics(g) = {} /\ Reject)
  BY DEF WhitelistStep
<1>5. ASSUME Metrics(g) = {} PROVE ~Unfit(input[at])
  <2>. HIDE DEF f
  <2>1. LibrarySamples(g, input[at], 1)
    <3>1. g \in MetricFamily /\ LibrarySamples(f, input[at], 0)
      BY <1>2, <1>3, WhitelistedFamily
    <3>. QED  BY <1>2, <3>1, SamplesWhitelisted
  <2>2. LeftAfter(input[at], 1) = {}
    <3>. HIDE DEF g
    <3>. QED  BY <1>5, <2>1 DEF LibrarySamples
  <2>. QED  BY <2>2, LeftByStage DEF Unfit
<1>6. ASSUME Accept(g), Reject PROVE FALSE
  <2>1. families' = [families EXCEPT ![at] = g] /\ families' = [families EXCEPT ![at] = Nil]
    BY <1>6 DEF Accept, Reject
  <2>2. at \in DOMAIN families /\ at \in Nat
    BY <1>1, Reached
  <2>3. stage' = 1 /\ stage' = 2
    BY <1>3, <1>6, Chain DEF Accept, Reject, IndInv
  <2>. QED  BY <2>3
<1>7. stage = 1 /\ Reject => ~Unfit(input[at])
  <2>. HIDE DEF f, g
  <2>. QED  BY <1>4, <1>5, <1>6
<1>8. Reject \/ \E h : Accept(h)
  <2>. HIDE DEF f, g
  <2>. QED  BY <1>4
<1>. QED  BY <1>1, <1>3, <1>7, <1>8, FitMoves

LEMMA FitRequire ==
  ASSUME IndInv, LibraryInv, FitInv, stages = LibraryStages, RequireStep
  PROVE  FitInv'
<1>. DEFINE f == families[at]
<1>1. pc = "filter" /\ at <= Len(families) /\ stages[stage] = "require"
  BY DEF RequireStep, InStage
<1>2. /\ f \in MetricFamily /\ f.index = at /\ OwnLabels(f, input[at])
      /\ LibrarySamples(f, input[at], stage - 1)
  BY <1>1, LibraryReached
<1>3. stage = 2 /\ stage - 1 = 1
  BY <1>1, StageOf, OtherStages, TwoChains
<1>4. ASSUME \A m \in Metrics(f) : Required \subseteq Right(m) PROVE ~Unfit(input[at])
  <2>. SUFFICES ASSUME NEW k \in DOMAIN input[at].samples,
                       Matches(input[at].name, input[at].samples[k].labels)
       PROVE  Required \subseteq input[at].samples[k].labels \ input[at].samples[k].other
    BY DEF Unfit
  <2>1. k \in LeftAfter(input[at], 1)
    BY LeftByStage
  <2>2. PICK m \in Metrics(f) : m.id = k
    BY <1>2, <1>3, <2>1 DEF LibrarySamples
  <2>3. Right(m) = input[at].samples[k].labels \ input[at].samples[k].other
    BY <1>2, <2>2, RightLabels
  <2>. QED  BY <1>4, <2>2, <2>3
<1>5. ASSUME Accept(f), \A m \in Metrics(f) : Required \subseteq Right(m) PROVE FitInv'
  <2>1. ~Unfit(input[at])
    BY <1>4, <1>5
  <2>2. \E h : Accept(h)
    BY <1>5
  <2>. QED  BY <1>1, <1>3, <2>1, <2>2, FitMoves
<1>6. ASSUME Fail PROVE FitInv'
  <2>1. /\ pc' = "failed" /\ input' = input /\ stages' = stages /\ at' = at /\ stage' = stage
    BY <1>6 DEF Fail
  <2>. QED  BY <1>1, <2>1 DEF FitInv, Looked
<1>. QED  BY <1>5, <1>6 DEF RequireStep

\* At the end of Filter every family was looked at.
LEMMA FitEnds ==
  ASSUME IndInv, FitInv, stages = LibraryStages, EndFilter
  PROVE  FitInv'
<1>1. pc = "filter" /\ at > Len(families) /\ input' = input /\ stages' = stages
  BY DEF EndFilter, filterVars
<1>2. \A g \in DOMAIN input : g < at
  <2>1. Len(families) = Len(input) /\ at \in Nat /\ Len(input) \in Nat
    BY <1>1, InputIsShapes DEF IndInv, PlacesInv, TypeOK
  <2>2. DOMAIN input = 1..Len(input)
    BY InputIsShapes DEF IndInv
  <2>. QED  BY <1>1, <2>1, <2>2
<1>. QED  BY <1>1, <1>2 DEF FitInv, Looked

LEMMA NextFitInv == IndInv /\ LibraryInv /\ FitInv /\ [Next]_vars => FitInv'
<1>. SUFFICES ASSUME IndInv, LibraryInv, FitInv, [Next]_vars PROVE FitInv'
  OBVIOUS
<1>1. input' = input /\ stages' = stages
  BY DEF Next, vars, filterVars, RewriteStep, DropStep, PackStep, AnonymizeStep, WhitelistStep,
         EmptyStep, RequireStep, ErrorUnsortedStep, UnsortedStep, EndFilter, PackFamilies,
         Convert, EndConvert, ConvertFrame, Accept, Reject, Fail
<1>2. CASE stages # LibraryStages
  BY <1>1, <1>2 DEF FitInv
<1>3. CASE stages = LibraryStages
  <2>1. CASE vars' = vars
    <3>1. pc' = pc /\ at' = at /\ stage' = stage
      BY <2>1 DEF vars, filterVars
    <3>. QED  BY <1>1, <3>1 DEF FitInv, Looked
  <2>2. ASSUME RewriteStep \/ DropStep \/ PackStep \/ AnonymizeStep \/ EmptyStep \/ UnsortedStep
        PROVE  FitInv'
    <3>1. /\ pc = "filter" /\ at <= Len(families) /\ stages[stage] \notin {"whitelist", "require"}
          /\ Reject \/ \E f : Accept(f)
      <4>1. CASE RewriteStep
        BY <4>1 DEF RewriteStep, InStage
      <4>2. CASE DropStep \/ PackStep \/ AnonymizeStep
        BY <4>2 DEF DropStep, PackStep, AnonymizeStep, InStage
      <4>3. CASE EmptyStep \/ UnsortedStep
        BY <4>3 DEF EmptyStep, UnsortedStep, InStage
      <4>. QED  BY <2>2, <4>1, <4>2, <4>3
    <3>2. stage # 1 /\ stage # 2
      BY <1>3, <3>1 DEF LibraryStages
    <3>. QED  BY <1>3, <3>1, <3>2, FitMoves
  <2>3. ASSUME ErrorUnsortedStep PROVE FitInv'
    <3>1. pc = "filter" /\ at <= Len(families) /\ stages[stage] = "errorUnsorted"
      BY <2>3 DEF ErrorUnsortedStep, InStage
    <3>2. stage # 1 /\ stage # 2
      BY <1>3, <3>1 DEF LibraryStages
    <3>3. CASE Fail
      <4>1. pc' = "failed" /\ at' = at /\ stage' = stage
        BY <3>3 DEF Fail
      <4>. QED  BY <1>1, <3>1, <4>1 DEF FitInv, Looked
    <3>4. CASE \E f : Accept(f)
      BY <1>3, <3>1, <3>2, <3>4, FitMoves
    <3>. QED  BY <2>3, <3>3, <3>4 DEF ErrorUnsortedStep
  <2>4. ASSUME PackFamilies \/ Convert \/ EndConvert PROVE FitInv'
    <3>1. pc \notin {"filter", "failed"}
      BY <2>4 DEF PackFamilies, Convert, EndConvert
    <3>. QED  BY <1>1, <1>3, <3>1 DEF FitInv, Looked
  <2>. QED  BY <1>3, <2>1, <2>2, <2>3, <2>4, FitWhitelist, FitRequire, FitEnds DEF Next
<1>. QED  BY <1>2, <1>3

\* Whatever has passed has the labels that are required, with their values.
THEOREM FitInvariance == Spec => []FitInv
<1>1. Init => FitInv
  <2>. SUFFICES ASSUME Init PROVE FitInv
    OBVIOUS
  <2>1. IndInv /\ at = 1 /\ stage = 1 /\ pc = "filter"
    BY InitIndInv DEF Init
  <2>2. \A g \in DOMAIN input : g \in Nat /\ g >= 1
    BY <2>1, InputIsShapes DEF IndInv
  <2>. QED  BY <2>1, <2>2 DEF FitInv, Looked
<1>2. IndInv /\ LibraryInv /\ FitInv /\ [Next]_vars => FitInv'
  BY NextFitInv
<1>. QED  BY <1>1, <1>2, Invariance, LibraryInvariance, PTL DEF Spec

\* The other transformers agree with each other: Filter fails exactly at a family
\* with a sample that matches and in which a label that is required is missing or
\* has another value, and otherwise exactly what matches, is not
\* expired and is in order in its own family is left (whitelist.go, required.go,
\* expired.go, drop_unsorted.go, unsorted.go).
THEOREM OthersAgree == Spec => []LibraryAgrees
<1>1. ASSUME IndInv, LibraryInv, pc \in {"convert", "done"}, stages = LibraryStages, NEW n \in DOMAIN input
      PROVE  {m.id : m \in UNION {Metrics(g) : g \in {h \in ToSet(families) : h.index = n}}} = InOrder(input[n])
  <2>. DEFINE Remaining == UNION {Metrics(g) : g \in {h \in ToSet(families) : h.index = n}}
  <2>1. ASSUME NEW f \in DOMAIN families, families[f].index = n
        PROVE  {m.id : m \in Metrics(families[f])} = InOrder(input[n])
    <3>1. Nil \notin ToSet(families)
      BY <1>1 DEF IndInv, PlacesInv
    <3>2. families[f] # Nil
      BY <3>1 DEF ToSet
    <3>3. Applied(f) = 9
      BY <1>1, TwoChains DEF Applied
    <3>4. LibrarySamples(families[f], input[n], 9)
      BY <1>1, <2>1, <3>2, <3>3 DEF LibraryInv
    <3>. QED  BY <3>4, LeftByStage DEF LibrarySamples
  <2>2. ASSUME NEW m \in Remaining PROVE m.id \in InOrder(input[n])
    <3>1. PICK f \in DOMAIN families : families[f].index = n /\ m \in Metrics(families[f])
      BY <2>2 DEF ToSet
    <3>. QED  BY <2>1, <3>1
  <2>3. ASSUME NEW i \in InOrder(input[n]) PROVE \E m \in Remaining : m.id = i
    <3>1. PICK f \in DOMAIN families : families[f].index = n
      BY <1>1, <2>3 DEF LibraryInv
    <3>2. PICK m \in Metrics(families[f]) : m.id = i
      BY <2>1, <2>3, <3>1
    <3>3. m \in Remaining
      BY <3>1, <3>2 DEF ToSet
    <3>. QED  BY <3>2, <3>3
  <2>. HIDE DEF Remaining
  <2>4. {m.id : m \in Remaining} = InOrder(input[n])
    BY <2>2, <2>3
  <2>. QED  BY <2>4 DEF Remaining
<1>2. IndInv /\ LibraryInv /\ FitInv => LibraryAgrees
  BY <1>1 DEF LibraryInv, FitInv, Looked, LibraryAgrees
<1>. QED  BY Invariance, LibraryInvariance, FitInvariance, <1>2, PTL

=============================================================================
