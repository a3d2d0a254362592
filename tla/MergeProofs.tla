----------------------------- MODULE MergeProofs -----------------------------
(***************************************************************************)
(* Proofs about Merge, for any number of families of any length.           *)
(***************************************************************************)
EXTENDS Merge, SequenceTheorems, TLAPS

LEMMA FunctionIsSeq ==
  ASSUME NEW S, NEW n \in Nat, NEW f \in [1..n -> S]
  PROVE  f \in Seq(S) /\ Len(f) = n /\ DOMAIN f = 1..n
  OBVIOUS

LEMMA ElementIsSample ==
  ASSUME NEW a \in Seq(Sample), NEW k \in DOMAIN a
  PROVE  /\ a[k] \in Sample /\ a[k].time \in Int
         /\ a[k].from[1] \in Nat \ {0} /\ a[k].from[2] \in Nat \ {0} /\ k \in Nat
<1>1. a[k] \in Sample /\ k \in Nat
  BY ElementOfSeq, LenProperties
<1>. QED  BY <1>1 DEF Sample

\* Blocks of samples: what a concatenation has, and when it is in order.
LEMMA ConcatSamples ==
  ASSUME NEW a \in Seq(Sample), NEW b \in Seq(Sample)
  PROVE  a \o b \in Seq(Sample) /\ ToSet(a \o b) = ToSet(a) \cup ToSet(b)
<1>1. /\ a \o b \in Seq(Sample) /\ Len(a \o b) = Len(a) + Len(b)
      /\ \A k \in 1..(Len(a) + Len(b)) : (a \o b)[k] = IF k <= Len(a) THEN a[k] ELSE b[k - Len(a)]
      /\ Len(a) \in Nat /\ Len(b) \in Nat
      /\ DOMAIN a = 1..Len(a) /\ DOMAIN b = 1..Len(b) /\ DOMAIN (a \o b) = 1..(Len(a) + Len(b))
  BY ConcatProperties, LenProperties
<1>. DEFINE c == a \o b
<1>. HIDE DEF c
<1>2. ASSUME NEW k \in DOMAIN a PROVE \E l \in DOMAIN c : c[l] = a[k]
  <2>1. k \in DOMAIN c /\ c[k] = a[k]
    BY <1>1 DEF c
  <2>. QED  BY <2>1
<1>3. ASSUME NEW k \in DOMAIN b PROVE \E l \in DOMAIN c : c[l] = b[k]
  <2>1. k + Len(a) \in DOMAIN c /\ ~(k + Len(a) <= Len(a)) /\ (k + Len(a)) - Len(a) = k
    BY <1>1 DEF c
  <2>. QED  BY <1>1, <2>1 DEF c
<1>4. ASSUME NEW k \in DOMAIN c PROVE c[k] \in ToSet(a) \cup ToSet(b)
  <2>1. CASE k <= Len(a)
    BY <1>1, <2>1 DEF c, ToSet
  <2>2. CASE ~(k <= Len(a))
    <3>1. k - Len(a) \in DOMAIN b /\ c[k] = b[k - Len(a)]
      BY <1>1, <2>2 DEF c
    <3>. QED  BY <3>1 DEF ToSet
  <2>. QED  BY <2>1, <2>2
<1>5. ToSet(c) = ToSet(a) \cup ToSet(b)
  BY <1>2, <1>3, <1>4 DEF ToSet
<1>. QED  BY <1>1, <1>5 DEF c

LEMMA ConcatOrdered ==
  ASSUME NEW a \in Seq(Sample), NEW b \in Seq(Sample), Ordered(a), Ordered(b),
         \A k \in DOMAIN a : \A l \in DOMAIN b : InOrder(a[k], b[l])
  PROVE  Ordered(a \o b)
<1>1. /\ \A k \in 1..(Len(a) + Len(b)) : (a \o b)[k] = IF k <= Len(a) THEN a[k] ELSE b[k - Len(a)]
      /\ Len(a) \in Nat /\ Len(b) \in Nat
      /\ DOMAIN a = 1..Len(a) /\ DOMAIN b = 1..Len(b) /\ DOMAIN (a \o b) = 1..(Len(a) + Len(b))
  BY ConcatProperties, LenProperties
<1>. SUFFICES ASSUME NEW k \in DOMAIN (a \o b), NEW l \in DOMAIN (a \o b), k < l
              PROVE  InOrder((a \o b)[k], (a \o b)[l])
  BY DEF Ordered
<1>2. CASE l <= Len(a)
  <2>1. k \in DOMAIN a /\ l \in DOMAIN a /\ (a \o b)[k] = a[k] /\ (a \o b)[l] = a[l]
    BY <1>1, <1>2
  <2>. QED  BY <2>1 DEF Ordered
<1>3. CASE ~(l <= Len(a)) /\ k <= Len(a)
  <2>1. k \in DOMAIN a /\ l - Len(a) \in DOMAIN b /\ (a \o b)[k] = a[k] /\ (a \o b)[l] = b[l - Len(a)]
    BY <1>1, <1>3
  <2>. QED  BY <2>1
<1>4. CASE ~(k <= Len(a))
  <2>1. /\ k - Len(a) \in DOMAIN b /\ l - Len(a) \in DOMAIN b /\ k - Len(a) < l - Len(a)
        /\ (a \o b)[k] = b[k - Len(a)] /\ (a \o b)[l] = b[l - Len(a)]
    BY <1>1, <1>4
  <2>. QED  BY <2>1 DEF Ordered
<1>. QED  BY <1>1, <1>2, <1>3, <1>4

\* In a family in order the times do not decrease.
LEMMA OrderedTimes ==
  ASSUME NEW a \in Seq(Sample), Ordered(a), NEW k \in DOMAIN a, NEW l \in DOMAIN a, k <= l
  PROVE  a[k].time <= a[l].time
<1>1. a[k].time \in Int /\ a[l].time \in Int /\ k \in Nat /\ l \in Nat
  BY ElementIsSample
<1>2. k = l \/ InOrder(a[k], a[l])
  BY <1>1 DEF Ordered
<1>. QED  BY <1>1, <1>2 DEF InOrder

\* Two blocks whose ranges do not overlap.
LEMMA BlocksInOrder ==
  ASSUME NEW a \in Seq(Sample) \ {<<>>}, NEW b \in Seq(Sample) \ {<<>>}, Ordered(a), Ordered(b),
         Last(a).time < Head(b).time
  PROVE  Ordered(a \o b)
<1>1. /\ Len(a) \in DOMAIN a /\ 1 \in DOMAIN b /\ Last(a) = a[Len(a)] /\ Head(b) = b[1]
      /\ DOMAIN a = 1..Len(a) /\ DOMAIN b = 1..Len(b)
  BY EmptySeq, LenProperties DEF Last
<1>2. ASSUME NEW k \in DOMAIN a, NEW l \in DOMAIN b PROVE InOrder(a[k], b[l])
  <2>1. a[k].time <= a[Len(a)].time /\ b[1].time <= b[l].time
    BY <1>1, OrderedTimes
  <2>2. a[k].time \in Int /\ b[l].time \in Int /\ a[Len(a)].time \in Int /\ b[1].time \in Int
    BY <1>1, ElementIsSample
  <2>. QED  BY <1>1, <2>1, <2>2 DEF InOrder
<1>. QED  BY <1>2, ConcatOrdered

\* The next sample of a zip, after all those that may stand before it.
LEMMA AppendOrdered ==
  ASSUME NEW r \in Seq(Sample), NEW x \in Sample, Ordered(r), \A y \in ToSet(r) : InOrder(y, x)
  PROVE  /\ Append(r, x) \in Seq(Sample) /\ Ordered(Append(r, x))
         /\ ToSet(Append(r, x)) = ToSet(r) \cup {x}
<1>. DEFINE s == Append(r, x)
<1>1. /\ s \in Seq(Sample) /\ Len(s) = Len(r) + 1 /\ Len(r) \in Nat
      /\ s[Len(r) + 1] = x /\ \A k \in 1..Len(r) : s[k] = r[k]
      /\ DOMAIN s = 1..Len(s) /\ DOMAIN r = 1..Len(r)
  BY AppendProperties, LenProperties
<1>. HIDE DEF s
<1>2. Ordered(s)
  <2>. SUFFICES ASSUME NEW k \in DOMAIN s, NEW l \in DOMAIN s, k < l PROVE InOrder(s[k], s[l])
    BY DEF Ordered
  <2>1. k \in DOMAIN r /\ s[k] = r[k]
    BY <1>1
  <2>2. CASE l \in DOMAIN r
    BY <1>1, <2>1, <2>2 DEF Ordered
  <2>3. CASE l = Len(r) + 1
    <3>1. r[k] \in ToSet(r)
      BY <2>1 DEF ToSet
    <3>. QED  BY <1>1, <2>1, <2>3, <3>1
  <2>. QED  BY <1>1, <2>2, <2>3
<1>3. ToSet(s) = ToSet(r) \cup {x}
  <2>1. \A k \in DOMAIN s : s[k] \in ToSet(r) \cup {x}
    BY <1>1 DEF ToSet
  <2>2. \A k \in DOMAIN r : k \in DOMAIN s /\ s[k] = r[k]
    BY <1>1
  <2>3. Len(s) \in DOMAIN s /\ s[Len(s)] = x
    BY <1>1
  <2>. QED  BY <2>1, <2>2, <2>3 DEF ToSet
<1>. QED  BY <1>1, <1>2, <1>3 DEF s

-----------------------------------------------------------------------------
(* Families.                                                               *)

\* What is known of a family that is left.
LEMMA LiveFamily ==
  ASSUME TypeOK, NEW f \in Live
  PROVE  /\ f \in DOMAIN families /\ f \in 1..Len(families)
         /\ families[f] \in Family
         /\ families[f].metric \in Seq(Sample) /\ families[f].metric # <<>>
         /\ \A x \in Samples(f) : x \in Sample
<1>1. families \in Seq(Family \cup {NilFamily}) /\ f \in DOMAIN families /\ families[f] # NilFamily
  BY DEF TypeOK, Live
<1>2. f \in 1..Len(families) /\ families[f] \in Family
  BY <1>1, LenProperties
<1>3. families[f].metric \in Seq(Sample) /\ families[f].metric # <<>>
  BY <1>2 DEF Family
<1>4. \A x \in Samples(f) : x \in Sample
  BY <1>3, LenProperties DEF Samples, ToSet
<1>. QED  BY <1>1, <1>2, <1>3, <1>4

LEMMA InitIndInv == Init => IndInv
<1>. SUFFICES ASSUME Init PROVE IndInv
  OBVIOUS
<1>. DEFINE n == Len(input)
            times(f) == input[f].times
            sample(f, k) == [from |-> <<f, k>>, time |-> times(f)[k]]
            metric(f) == [k \in DOMAIN times(f) |-> sample(f, k)]
<1>1. input \in Inputs /\ input \in Seq([name : Names, times : Seq(Int) \ {<<>>}])
  BY MergeAssumption DEF Init
<1>2. n \in Nat /\ DOMAIN input = 1..n
  BY <1>1, LenProperties
<1>3. ASSUME NEW f \in DOMAIN input
      PROVE  /\ input[f].name \in Names
             /\ times(f) \in Seq(Int) /\ times(f) # <<>> /\ DOMAIN times(f) = 1..Len(times(f))
             /\ Len(times(f)) \in Nat \ {0}
  <2>1. input[f] \in [name : Names, times : Seq(Int) \ {<<>>}]
    BY <1>1, <1>2, ElementOfSeq
  <2>. QED  BY <2>1, EmptySeq, LenProperties
<1>4. ASSUME NEW f \in DOMAIN input
      PROVE  metric(f) \in Seq(Sample) \ {<<>>}
  <2>1. \A k \in 1..Len(times(f)) : sample(f, k) \in Sample
    BY <1>2, <1>3, ElementOfSeq DEF Sample
  <2>2. metric(f) \in [1..Len(times(f)) -> Sample]
    BY <1>3, <2>1
  <2>3. metric(f) \in Seq(Sample) /\ Len(metric(f)) = Len(times(f))
    BY <1>3, <2>2, FunctionIsSeq
  <2>. QED  BY <1>3, <2>3
<1>5. /\ families \in [1..n -> Family]
      /\ \A f \in 1..n : families[f].name = input[f].name /\ families[f].metric = metric(f)
  BY <1>2, <1>3, <1>4 DEF Init, Family
<1>6. /\ families \in Seq(Family \cup {NilFamily}) /\ Len(families) = n /\ DOMAIN families = 1..n
      /\ Live = 1..n
  BY <1>2, <1>5, MergeAssumption, FunctionIsSeq DEF Live
<1>7. \A f \in 1..n : \A x \in Samples(f) : \E k \in DOMAIN times(f) : x = sample(f, k)
  BY <1>2, <1>5 DEF Samples, ToSet
<1>8. TypeOK
  BY <1>1, <1>6 DEF Init, TypeOK, NoZip
<1>9. \A f \in 1..n : \A x \in Samples(f) :
           /\ x.from[1] = f /\ x.from[2] \in DOMAIN times(f) /\ x.time = times(f)[x.from[2]]
  <2>. SUFFICES ASSUME NEW f \in 1..n, NEW x \in Samples(f)
                PROVE  /\ x.from[1] = f /\ x.from[2] \in DOMAIN times(f)
                       /\ x.time = times(f)[x.from[2]]
    OBVIOUS
  <2>1. PICK k \in DOMAIN times(f) : x = sample(f, k)
    BY <1>7
  <2>2. x.from = <<f, k>> /\ x.time = times(f)[k]
    BY <2>1
  <2>. QED  BY <2>2
<1>10. Authentic
  <2>. SUFFICES ASSUME NEW f \in 1..n, NEW x \in Samples(f)
                PROVE  /\ x.from[1] \in DOMAIN input
                       /\ x.from[2] \in DOMAIN input[x.from[1]].times
                       /\ x.time = input[x.from[1]].times[x.from[2]]
                       /\ families[f].name = input[x.from[1]].name
    BY <1>6 DEF Authentic
  <2>1. x.from[1] = f /\ x.from[2] \in DOMAIN input[f].times /\ x.time = input[f].times[x.from[2]]
    BY <1>9
  <2>. QED  BY <1>2, <1>5, <2>1
<1>11. Together
  BY <1>6, <1>9 DEF Together
<1>12. Complete
  <2>. SUFFICES ASSUME NEW f \in DOMAIN input, NEW k \in DOMAIN times(f)
                PROVE  f \in Live /\ \E x \in Samples(f) : x.from = <<f, k>>
    BY DEF Complete
  <2>1. k \in DOMAIN metric(f) /\ metric(f)[k] = sample(f, k)
    OBVIOUS
  <2>2. sample(f, k) \in Samples(f)
    BY <1>2, <1>5, <2>1 DEF Samples, ToSet
  <2>3. sample(f, k).from = <<f, k>>
    OBVIOUS
  <2>. QED  BY <1>2, <1>6, <2>2, <2>3
<1>13. AllOrdered
  <2>. SUFFICES ASSUME NEW f \in 1..n PROVE Ordered(families[f].metric)
    BY <1>6 DEF AllOrdered
  <2>. SUFFICES ASSUME NEW k \in DOMAIN times(f), NEW l \in DOMAIN times(f), k < l
                PROVE  InOrder(metric(f)[k], metric(f)[l])
    BY <1>5 DEF Ordered
  <2>1. times(f) \in Seq(Int) /\ k \in 1..Len(times(f)) /\ l \in 1..Len(times(f)) /\ f \in DOMAIN input
    BY <1>2, <1>3
  <2>2. times(f)[k] \in Int /\ times(f)[l] \in Int
    BY <2>1, ElementOfSeq
  <2>3. times(f)[k] <= times(f)[l]
    BY <1>1, <2>1, MergeAssumption
  <2>4. /\ metric(f)[k] = sample(f, k) /\ metric(f)[l] = sample(f, l)
        /\ sample(f, k).from[1] = f /\ sample(f, l).from[1] = f
        /\ sample(f, k).from[2] = k /\ sample(f, l).from[2] = l
        /\ sample(f, k).time = times(f)[k] /\ sample(f, l).time = times(f)[l]
    OBVIOUS
  <2>. QED  BY <2>2, <2>3, <2>4 DEF InOrder
<1>14. Ahead
  BY <1>2, <1>6, <1>9 DEF Init, Ahead
<1>15. ZipInv /\ PackInv
  BY DEF Init, ZipInv, PackInv
<1>. QED  BY <1>8, <1>10, <1>11, <1>12, <1>13, <1>14, <1>15 DEF IndInv

-----------------------------------------------------------------------------
(* The steps of the loop.                                                  *)

\* What says nothing of the place in the loop holds while the families do not change.
LEMMA SameFamilies ==
  ASSUME IndInv, input' = input, families' = families
  PROVE  Authentic' /\ Together' /\ Complete' /\ AllOrdered' /\ Live' = Live
<1>1. Live' = Live /\ \A f : Samples(f)' = Samples(f)
  BY DEF Live, Samples
<1>2. Authentic'
  BY <1>1 DEF IndInv, Authentic
<1>3. Together'
  BY <1>1 DEF IndInv, Together
<1>4. Complete'
  BY <1>1 DEF IndInv, Complete
<1>5. AllOrdered'
  BY <1>1 DEF IndInv, AllOrdered
<1>. QED  BY <1>1, <1>2, <1>3, <1>4, <1>5

\* A round that leaves the family at pos where it is: Begin and Differ.
LEMMA PassIndInv ==
  ASSUME IndInv, pc = "loop", pos <= Len(families), dst' \in {0, pos}, pos' = pos + 1,
         UNCHANGED <<input, families, pc, zip, packVars>>
  PROVE  IndInv'
<1>. USE DEF IndInv
<1>1. Authentic' /\ Together' /\ Complete' /\ AllOrdered' /\ Live' = Live
  BY SameFamilies
<1>2. TypeOK'
  BY DEF TypeOK
<1>3. Ahead'
  <2>1. /\ pos \in Nat \ {0} /\ DOMAIN families = 1..Len(families) /\ Len(families) \in Nat
    BY LenProperties DEF TypeOK
  <2>2. \A f : Samples(f)' = Samples(f)
    BY DEF Samples
  <2>3. /\ Len(families) = Len(input)
        /\ \A f \in DOMAIN families : f >= pos => f \in Live /\ \A x \in Samples(f) : x.from[1] = f
        /\ \A f \in Live : f < pos => \A x \in Samples(f) : x.from[1] < pos
    BY DEF Ahead
  <2>4. pos \in Live /\ \A f \in Live : f \in Nat
    BY <2>1, <2>3 DEF Live
  <2>5. ASSUME NEW f \in Live, f < pos', NEW x \in Samples(f) PROVE x.from[1] < pos'
    <3>1. CASE f < pos
      <4>1. x \in Sample
        BY LiveFamily
      <4>. QED  BY <2>1, <2>3, <3>1, <4>1 DEF Sample
    <3>2. CASE f = pos
      BY <2>1, <2>3, <3>2
    <3>. QED  BY <2>1, <2>4, <2>5, <3>1, <3>2
  <2>6. \A f \in DOMAIN families : f >= pos' => f \in Live /\ \A x \in Samples(f) : x.from[1] = f
    BY <2>1, <2>3
  <2>7. Len(families) = Len(input) /\ pos' <= Len(families) + 1 /\ (dst' # 0 => dst' \in Live)
    BY <2>1, <2>3, <2>4
  <2>. QED  BY <1>1, <2>2, <2>5, <2>6, <2>7 DEF Ahead
<1>4. ZipInv'
  BY DEF ZipInv
<1>5. PackInv'
  BY DEF PackInv, packVars
<1>. QED  BY <1>1, <1>2, <1>3, <1>4, <1>5

\* A round that merges the family at pos into *dst, whose metrics become m: what
\* MergeBlock and EndZip have in common.
LEMMA MergedIndInv ==
  ASSUME IndInv, pc \in {"loop", "zip"}, dst # 0, pos <= Len(families), Dst.name = Src.name,
         NEW m \in Seq(Sample), ToSet(m) = Samples(dst) \cup Samples(pos), Ordered(m),
         Merged(m), pc' = "loop", zip' = zip
  PROVE  IndInv'
<1>. USE DEF IndInv
<1>. DEFINE n == Len(families)
            S(f) == ToSet(families'[f].metric)
<1>1. /\ pos \in Nat \ {0} /\ DOMAIN families = 1..n /\ n \in Nat /\ dst \in 0..(pos - 1)
      /\ families \in Seq(Family \cup {NilFamily}) /\ input \in Inputs
    BY LenProperties DEF TypeOK
<1>2. /\ n = Len(input) /\ dst \in Live
      /\ \A f \in DOMAIN families : f >= pos => f \in Live /\ \A x \in Samples(f) : x.from[1] = f
      /\ \A f \in Live : f < pos => \A x \in Samples(f) : x.from[1] < pos
  BY DEF Ahead
<1>3. pos \in Live /\ dst # pos /\ dst \in 1..n /\ dst < pos /\ pos \in 1..n
  BY <1>1, <1>2
<1>4. families[dst] \in Family /\ families[dst].metric # <<>> /\ families[dst].metric \in Seq(Sample)
  BY <1>2, LiveFamily
<1>5. m # <<>>
  <2>1. 1 \in DOMAIN families[dst].metric
    BY <1>4, EmptySeq, LenProperties
  <2>2. families[dst].metric[1] \in ToSet(m)
    BY <2>1 DEF Samples, ToSet
  <2>. QED  BY <2>2 DEF ToSet
<1>6. /\ input' = input /\ pos' = pos + 1 /\ dst' = dst /\ UNCHANGED packVars
      /\ families' = [families EXCEPT ![dst].metric = m, ![pos] = NilFamily]
  BY DEF Merged
<1>7. /\ DOMAIN families' = 1..n /\ families'[pos] = NilFamily
      /\ families'[dst] = [families[dst] EXCEPT !.metric = m]
      /\ \A f \in 1..n : f # pos /\ f # dst => families'[f] = families[f]
  BY <1>1, <1>3, <1>6
<1>8. families'[dst] \in Family /\ families'[dst].metric = m /\ families'[dst].name = families[dst].name
  BY <1>4, <1>5, <1>7 DEF Family
<1>9. families' \in Seq(Family \cup {NilFamily}) /\ Len(families') = n
  <2>1. \A f \in 1..n : families'[f] \in Family \cup {NilFamily}
    BY <1>1, <1>7, <1>8, ElementOfSeq
  <2>2. families' \in [1..n -> Family \cup {NilFamily}]
    BY <1>1, <1>6, <2>1
  <2>. QED  BY <1>1, <2>2, FunctionIsSeq
<1>10. Live' = Live \ {pos}
  BY <1>1, <1>2, <1>7, <1>8, MergeAssumption DEF Live
<1>11. /\ S(dst) = Samples(dst) \cup Samples(pos)
       /\ \A f \in Live \ {dst, pos} : families'[f] = families[f] /\ S(f) = Samples(f)
  BY <1>1, <1>7, <1>8 DEF Samples, Live
<1>12. \A f : Samples(f)' = S(f)
  BY DEF Samples
\* Where a sample was before.
<1>13. ASSUME NEW f \in Live \ {pos}, NEW x \in S(f)
       PROVE  \E g \in Live : /\ x \in Samples(g) /\ families[g].name = families'[f].name
                              /\ g = f \/ (g = pos /\ f = dst)
  <2>1. CASE f = dst
    <3>1. families[dst].name = families[pos].name
      BY DEF Dst, Src
    <3>. QED  BY <1>2, <1>3, <1>8, <1>11, <2>1, <3>1
  <2>2. CASE f # dst
    BY <1>11, <2>2
  <2>. QED  BY <2>1, <2>2
<1>14. TypeOK'
  BY <1>1, <1>6, <1>9 DEF TypeOK
<1>. HIDE DEF S
<1>15. Authentic'
  <2>. SUFFICES ASSUME NEW f \in Live \ {pos}, NEW x \in S(f)
                PROVE  /\ x.from[1] \in DOMAIN input
                       /\ x.from[2] \in DOMAIN input[x.from[1]].times
                       /\ x.time = input[x.from[1]].times[x.from[2]]
                       /\ families'[f].name = input[x.from[1]].name
    <3>1. input' = input
      BY <1>6
    <3>. QED  BY <1>10, <1>12, <3>1 DEF Authentic
  <2>. QED  BY <1>13 DEF Authentic
<1>16. Together'
  <2>. SUFFICES ASSUME NEW f \in Live \ {pos}, NEW g \in Live \ {pos},
                       NEW x \in S(f), NEW y \in S(g), x.from[1] = y.from[1]
                PROVE  f = g
    BY <1>10, <1>12 DEF Together
  <2>1. PICK f0 \in Live : x \in Samples(f0) /\ (f0 = f \/ (f0 = pos /\ f = dst))
    BY <1>13
  <2>2. PICK g0 \in Live : y \in Samples(g0) /\ (g0 = g \/ (g0 = pos /\ g = dst))
    BY <1>13
  <2>3. f0 = g0
    BY <2>1, <2>2 DEF Together
  <2>. QED  BY <2>1, <2>2, <2>3
<1>17. Complete'
  <2>. SUFFICES ASSUME NEW g \in DOMAIN input, NEW k \in DOMAIN input[g].times
                PROVE  \E f \in Live \ {pos} : \E x \in S(f) : x.from = <<g, k>>
    BY <1>6, <1>10, <1>12 DEF Complete
  <2>1. PICK f \in Live : \E x \in Samples(f) : x.from = <<g, k>>
    BY DEF Complete
  <2>2. CASE f \in {dst, pos}
    BY <1>2, <1>3, <1>11, <2>1, <2>2
  <2>3. CASE f \notin {dst, pos}
    BY <1>11, <2>1, <2>3
  <2>. QED  BY <2>2, <2>3
<1>18. AllOrdered'
  <2>. SUFFICES ASSUME NEW f \in Live \ {pos} PROVE Ordered(families'[f].metric)
    BY <1>10 DEF AllOrdered
  <2>. QED  BY <1>8, <1>11 DEF AllOrdered
<1>19. Ahead'
  <2>1. ASSUME NEW f \in DOMAIN families', f >= pos'
        PROVE  f \in Live' /\ \A x \in S(f) : x.from[1] = f
    <3>1. f \in DOMAIN families /\ f >= pos /\ f # pos /\ f # dst
      BY <1>1, <1>3, <1>6, <1>7, <2>1
    <3>2. f \in Live \ {dst, pos} /\ \A x \in Samples(f) : x.from[1] = f
      BY <1>2, <3>1
    <3>. QED  BY <1>10, <1>11, <3>2
  <2>2. ASSUME NEW f \in Live \ {pos}, f < pos', NEW x \in S(f) PROVE x.from[1] < pos'
    <3>1. PICK g \in Live : x \in Samples(g) /\ (g = f \/ g = pos)
      BY <1>13
    <3>2. x \in Sample /\ g \in 1..n /\ f \in 1..n
      BY <3>1, <1>1, LiveFamily DEF Live
    <3>3. CASE g = pos
      <4>1. x.from[1] = pos
        BY <1>1, <1>2, <1>3, <3>1, <3>3
      <4>. QED  BY <1>1, <1>3, <1>6, <4>1
    <3>4. CASE g # pos
      <4>1. g < pos
        BY <1>1, <1>6, <2>2, <3>1, <3>2, <3>4
      <4>2. x.from[1] < pos /\ x.from[1] \in Nat
        BY <1>2, <3>1, <3>2, <4>1 DEF Sample
      <4>. QED  BY <1>1, <1>6, <4>2
    <3>. QED  BY <3>3, <3>4
  <2>3. Len(families') = Len(input') /\ pos' <= Len(families') + 1 /\ dst' \in Live'
    BY <1>1, <1>2, <1>3, <1>6, <1>9, <1>10
  <2>. QED  BY <1>10, <1>12, <2>1, <2>2, <2>3 DEF Ahead
<1>20. ZipInv'
  BY DEF ZipInv
<1>21. PackInv'
  BY <1>6 DEF PackInv, packVars
<1>. QED  BY <1>14, <1>15, <1>16, <1>17, <1>18, <1>19, <1>20, <1>21

\* What is known of the two families when they have one name.
LEMMA Pair ==
  ASSUME IndInv, pc \in {"loop", "zip"}, dst # 0, pos <= Len(families)
  PROVE  /\ dst \in Live /\ pos \in Live /\ dst < pos
         /\ Dst.metric \in Seq(Sample) \ {<<>>} /\ Ordered(Dst.metric)
         /\ Src.metric \in Seq(Sample) \ {<<>>} /\ Ordered(Src.metric)
         /\ ToSet(Dst.metric) = Samples(dst) /\ ToSet(Src.metric) = Samples(pos)
         /\ \A k \in DOMAIN Dst.metric : Dst.metric[k].from[1] < pos
         /\ \A k \in DOMAIN Src.metric : Src.metric[k].from[1] = pos
<1>. USE DEF IndInv, Dst, Src
<1>1. /\ pos \in Nat \ {0} /\ dst \in 0..(pos - 1) /\ DOMAIN families = 1..Len(families)
      /\ Len(families) \in Nat
  BY LenProperties DEF TypeOK
<1>2. dst \in Live /\ pos \in Live /\ dst < pos
  BY <1>1 DEF Ahead
<1>3. /\ families[dst].metric \in Seq(Sample) \ {<<>>} /\ families[pos].metric \in Seq(Sample) \ {<<>>}
  BY <1>2, LiveFamily
<1>4. Ordered(families[dst].metric) /\ Ordered(families[pos].metric)
  BY <1>2 DEF AllOrdered
<1>5. \A x \in Samples(dst) : x.from[1] < pos
  BY <1>1, <1>2 DEF Ahead
<1>6. \A x \in Samples(pos) : x.from[1] = pos
  BY <1>1, <1>2 DEF Ahead, Live
<1>. QED  BY <1>2, <1>3, <1>4, <1>5, <1>6 DEF Samples, ToSet

LEMMA BlockIndInv == ASSUME IndInv, MergeBlock PROVE IndInv'
<1>1. /\ pc = "loop" /\ pos <= Len(families) /\ dst # 0 /\ Dst.name = Src.name
      /\ pc' = "loop" /\ zip' = zip
  BY DEF MergeBlock, SameName
<1>2. /\ Dst.metric \in Seq(Sample) \ {<<>>} /\ Ordered(Dst.metric)
      /\ Src.metric \in Seq(Sample) \ {<<>>} /\ Ordered(Src.metric)
      /\ ToSet(Dst.metric) = Samples(dst) /\ ToSet(Src.metric) = Samples(pos)
  BY <1>1, Pair
<1>3. CASE Last(Dst.metric).time < Head(Src.metric).time /\ Merged(Dst.metric \o Src.metric)
  <2>. DEFINE m == Dst.metric \o Src.metric
  <2>1. m \in Seq(Sample) /\ ToSet(m) = Samples(dst) \cup Samples(pos)
    BY <1>2, ConcatSamples
  <2>2. Ordered(m)
    BY <1>2, <1>3, BlocksInOrder
  <2>. QED  BY <1>1, <1>3, <2>1, <2>2, MergedIndInv
<1>4. CASE Last(Src.metric).time < Head(Dst.metric).time /\ Merged(Src.metric \o Dst.metric)
  <2>. DEFINE m == Src.metric \o Dst.metric
  <2>1. m \in Seq(Sample) /\ ToSet(m) = Samples(dst) \cup Samples(pos)
    BY <1>2, ConcatSamples
  <2>2. Ordered(m)
    BY <1>2, <1>4, BlocksInOrder
  <2>. QED  BY <1>1, <1>4, <2>1, <2>2, MergedIndInv
<1>. QED  BY <1>3, <1>4 DEF MergeBlock

\* A step that changes nothing but the zip: the rest of the invariant holds.
LEMMA ZipStep ==
  ASSUME IndInv, pc \in {"loop", "zip"}, pc' = "zip", zip' \in [dst : Nat \ {0}, src : Nat \ {0}, result : Seq(Sample)],
         UNCHANGED <<input, families, pos, dst, packVars>>, ZipInv'
  PROVE  IndInv'
<1>. USE DEF IndInv
<1>1. Authentic' /\ Together' /\ Complete' /\ AllOrdered' /\ Live' = Live
  BY SameFamilies
<1>2. TypeOK'
  BY DEF TypeOK
<1>3. Ahead'
  <2>1. \A f : Samples(f)' = Samples(f)
    BY DEF Samples
  <2>. QED  BY <1>1, <2>1 DEF Ahead
<1>4. PackInv'
  BY DEF PackInv, packVars
<1>. QED  BY <1>1, <1>2, <1>3, <1>4

LEMMA BeginZipIndInv == ASSUME IndInv, BeginZip PROVE IndInv'
<1>1. /\ pc = "loop" /\ pos <= Len(families) /\ dst # 0 /\ Dst.name = Src.name
      /\ pc' = "zip" /\ zip' = [dst |-> 1, src |-> 1, result |-> <<>>]
      /\ UNCHANGED <<input, families, pos, dst, packVars>>
  BY DEF BeginZip, SameName, NoZip
<1>2. Dst.metric \in Seq(Sample) /\ Src.metric \in Seq(Sample)
  BY <1>1, Pair
<1>3. zip' \in [dst : Nat \ {0}, src : Nat \ {0}, result : Seq(Sample)]
  BY <1>1
<1>4. ZipInv'
  <2>1. zip'.dst = 1 /\ zip'.src = 1 /\ zip'.result = <<>> /\ ToSet(<<>>) = {} /\ Ordered(<<>>)
    BY <1>1 DEF ToSet, Ordered
  <2>2. Dst' = Dst /\ Src' = Src
    BY <1>1 DEF Dst, Src
  <2>3. {Dst.metric[k] : k \in 1..(1 - 1)} = {} /\ {Src.metric[k] : k \in 1..(1 - 1)} = {}
    OBVIOUS
  <2>4. 1 <= Len(Dst.metric) + 1 /\ 1 <= Len(Src.metric) + 1
    BY <1>2, LenProperties
  <2>. QED  BY <1>1, <2>1, <2>2, <2>3, <2>4 DEF ZipInv
<1>. QED  BY <1>1, <1>3, <1>4, ZipStep

\* The positions of one side of the zip move on by one.
LEMMA OneMore ==
  ASSUME NEW a, NEW k \in Nat \ {0}
  PROVE  {a[l] : l \in 1..k} = {a[l] : l \in 1..(k - 1)} \cup {a[k]}
  OBVIOUS

\* A sample taken from one side may stand after all that are in the result, and
\* before all that are left on the other side, if its time is not later than
\* theirs, or the same and its family is the first.
LEMMA TakeFromDstIndInv == ASSUME IndInv, TakeFromDst PROVE IndInv'
<1>. DEFINE a == Dst.metric
            b == Src.metric
            r == zip.result
            x == a[zip.dst]
<1>1. /\ pc = "zip" /\ DstFirst /\ pc' = "zip"
      /\ zip' = [zip EXCEPT !.dst = @ + 1, !.result = Append(@, Dst.metric[zip.dst])]
      /\ UNCHANGED <<input, families, pos, dst, packVars>>
  BY DEF TakeFromDst
<1>2. zip \in [dst : Nat \ {0}, src : Nat \ {0}, result : Seq(Sample)] /\ pos \in Nat
  BY DEF IndInv, TypeOK
<1>3. /\ dst # 0 /\ pos <= Len(families) /\ Dst.name = Src.name
      /\ zip.dst <= Len(a) + 1 /\ zip.src <= Len(b) + 1
      /\ ToSet(r) = {a[k] : k \in 1..(zip.dst - 1)} \cup {b[k] : k \in 1..(zip.src - 1)}
      /\ Ordered(r)
      /\ \A y \in ToSet(r) : \A k \in zip.dst..Len(a) : InOrder(y, a[k])
      /\ \A y \in ToSet(r) : \A k \in zip.src..Len(b) : InOrder(y, b[k])
  BY <1>1 DEF IndInv, ZipInv
<1>4. /\ a \in Seq(Sample) /\ Ordered(a) /\ b \in Seq(Sample) /\ Ordered(b)
      /\ \A k \in DOMAIN a : a[k].from[1] < pos
      /\ \A k \in DOMAIN b : b[k].from[1] = pos
      /\ DOMAIN a = 1..Len(a) /\ DOMAIN b = 1..Len(b) /\ Len(a) \in Nat /\ Len(b) \in Nat
  BY <1>1, <1>3, Pair, LenProperties
<1>5. Dst' = Dst /\ Src' = Src
  BY <1>1 DEF Dst, Src
<1>6. /\ zip.dst \in DOMAIN a
      /\ zip.src <= Len(b) => x.time <= b[zip.src].time
  BY <1>1, <1>2, <1>4 DEF DstFirst, DstLeft, SrcLeft
<1>. HIDE DEF a, b, r, x
<1>7. x \in Sample /\ x.time \in Int /\ x = a[zip.dst] /\ zip.dst \in Nat \ {0} /\ zip.src \in Nat \ {0}
  BY <1>2, <1>4, <1>6, ElementIsSample DEF x
<1>8. /\ Append(r, x) \in Seq(Sample) /\ Ordered(Append(r, x))
      /\ ToSet(Append(r, x)) = ToSet(r) \cup {x}
  <2>1. r \in Seq(Sample)
    BY <1>2 DEF r
  <2>2. \A y \in ToSet(r) : InOrder(y, x)
    <3>1. zip.dst \in zip.dst..Len(a)
      BY <1>4, <1>6
    <3>2. \A y \in ToSet(r) : InOrder(y, a[zip.dst])
      BY ONLY <1>3, <3>1
    <3>. QED  BY ONLY <1>7, <3>2
  <2>. QED  BY <1>3, <1>7, <2>1, <2>2, AppendOrdered
<1>9. /\ zip'.dst = zip.dst + 1 /\ zip'.src = zip.src /\ zip'.result = Append(r, x)
      /\ zip' \in [dst : Nat \ {0}, src : Nat \ {0}, result : Seq(Sample)]
  <2>1. zip' = [zip EXCEPT !.dst = zip.dst + 1, !.result = Append(r, x)]
    BY <1>1 DEF a, r, x
  <2>2. zip' = [dst |-> zip.dst + 1, src |-> zip.src, result |-> Append(r, x)]
    BY ONLY <1>2, <2>1
  <2>3. zip.dst + 1 \in Nat \ {0}
    BY <1>7
  <2>. QED  BY <1>7, <1>8, <2>2, <2>3
<1>10. ASSUME NEW k \in (zip.dst + 1)..Len(a) PROVE InOrder(x, a[k])
  BY <1>4, <1>6, <1>7 DEF Ordered
<1>11. ASSUME NEW k \in zip.src..Len(b) PROVE InOrder(x, b[k])
  <2>1. k \in DOMAIN b /\ zip.src \in DOMAIN b /\ zip.src <= k /\ zip.src <= Len(b)
    BY <1>4, <1>7
  <2>2. x.time <= b[zip.src].time /\ b[zip.src].time <= b[k].time
    BY <1>4, <1>6, <2>1, OrderedTimes
  <2>3. b[k].time \in Int /\ b[zip.src].time \in Int
    BY <1>4, <2>1, ElementIsSample
  <2>4. x.from[1] < pos /\ b[k].from[1] = pos
    BY <1>4, <1>6, <1>7, <2>1
  <2>. QED  BY <1>7, <2>2, <2>3, <2>4 DEF InOrder
<1>12. ZipInv'
  <2>1. ToSet(Append(r, x)) = {a[k] : k \in 1..((zip.dst + 1) - 1)} \cup {b[k] : k \in 1..(zip.src - 1)}
    <3>1. {a[k] : k \in 1..zip.dst} = {a[k] : k \in 1..(zip.dst - 1)} \cup {x}
      BY <1>7, OneMore
    <3>2. (zip.dst + 1) - 1 = zip.dst
      BY <1>7
    <3>. QED  BY <1>3, <1>8, <3>1, <3>2
  <2>2. \A y \in ToSet(Append(r, x)) : \A k \in (zip.dst + 1)..Len(a) : InOrder(y, a[k])
    <3>1. \A k \in (zip.dst + 1)..Len(a) : k \in zip.dst..Len(a)
      BY <1>4, <1>7
    <3>2. \A y \in ToSet(r) : \A k \in (zip.dst + 1)..Len(a) : InOrder(y, a[k])
      BY ONLY <1>3, <3>1
    <3>. QED  BY ONLY <1>8, <1>10, <3>2
  <2>3. \A y \in ToSet(Append(r, x)) : \A k \in zip.src..Len(b) : InOrder(y, b[k])
    BY <1>3, <1>8, <1>11
  <2>4. zip.dst + 1 <= Len(a) + 1
    BY <1>4, <1>6
  <2>5. /\ Dst'.metric = a /\ Src'.metric = b /\ Dst'.name = Src'.name
        /\ dst' # 0 /\ pos' <= Len(families')
    BY <1>1, <1>3, <1>5 DEF a, b
  <2>6. /\ zip.dst + 1 <= Len(a) + 1 /\ zip.src <= Len(b) + 1
        /\ ToSet(zip'.result) = ToSet(Append(r, x)) /\ Ordered(zip'.result)
    BY <1>3, <1>8, <1>9, <2>4
  <2>. QED  BY ONLY <1>9, <2>1, <2>2, <2>3, <2>5, <2>6 DEF ZipInv
<1>. QED  BY <1>1, <1>9, <1>12, ZipStep

\* The same for src, whose samples are taken only if they are the earlier ones.
LEMMA TakeFromSrcIndInv == ASSUME IndInv, TakeFromSrc PROVE IndInv'
<1>. DEFINE a == Dst.metric
            b == Src.metric
            r == zip.result
            x == b[zip.src]
<1>1. /\ pc = "zip" /\ SrcLeft /\ ~DstFirst /\ pc' = "zip"
      /\ zip' = [zip EXCEPT !.src = @ + 1, !.result = Append(@, Src.metric[zip.src])]
      /\ UNCHANGED <<input, families, pos, dst, packVars>>
  BY DEF TakeFromSrc
<1>2. zip \in [dst : Nat \ {0}, src : Nat \ {0}, result : Seq(Sample)] /\ pos \in Nat
  BY DEF IndInv, TypeOK
<1>3. /\ dst # 0 /\ pos <= Len(families) /\ Dst.name = Src.name
      /\ zip.dst <= Len(a) + 1 /\ zip.src <= Len(b) + 1
      /\ ToSet(r) = {a[k] : k \in 1..(zip.dst - 1)} \cup {b[k] : k \in 1..(zip.src - 1)}
      /\ Ordered(r)
      /\ \A y \in ToSet(r) : \A k \in zip.dst..Len(a) : InOrder(y, a[k])
      /\ \A y \in ToSet(r) : \A k \in zip.src..Len(b) : InOrder(y, b[k])
  BY <1>1 DEF IndInv, ZipInv
<1>4. /\ a \in Seq(Sample) /\ Ordered(a) /\ b \in Seq(Sample) /\ Ordered(b)
      /\ DOMAIN a = 1..Len(a) /\ DOMAIN b = 1..Len(b) /\ Len(a) \in Nat /\ Len(b) \in Nat
  BY <1>1, <1>3, Pair, LenProperties
<1>5. Dst' = Dst /\ Src' = Src
  BY <1>1 DEF Dst, Src
<1>6. /\ zip.src \in DOMAIN b
      /\ zip.dst <= Len(a) => ~(a[zip.dst].time <= x.time)
  BY <1>1, <1>2, <1>4 DEF DstFirst, DstLeft, SrcLeft
<1>. HIDE DEF a, b, r, x
<1>7. x \in Sample /\ x.time \in Int /\ x = b[zip.src] /\ zip.dst \in Nat \ {0} /\ zip.src \in Nat \ {0}
  BY <1>2, <1>4, <1>6, ElementIsSample DEF x
<1>8. /\ Append(r, x) \in Seq(Sample) /\ Ordered(Append(r, x))
      /\ ToSet(Append(r, x)) = ToSet(r) \cup {x}
  <2>1. r \in Seq(Sample)
    BY <1>2 DEF r
  <2>2. \A y \in ToSet(r) : InOrder(y, x)
    <3>1. zip.src \in zip.src..Len(b)
      BY <1>4, <1>6
    <3>2. \A y \in ToSet(r) : InOrder(y, b[zip.src])
      BY ONLY <1>3, <3>1
    <3>. QED  BY ONLY <1>7, <3>2
  <2>. QED  BY <1>3, <1>7, <2>1, <2>2, AppendOrdered
<1>9. /\ zip'.dst = zip.dst /\ zip'.src = zip.src + 1 /\ zip'.result = Append(r, x)
      /\ zip' \in [dst : Nat \ {0}, src : Nat \ {0}, result : Seq(Sample)]
  <2>1. zip' = [zip EXCEPT !.src = zip.src + 1, !.result = Append(r, x)]
    BY <1>1 DEF b, r, x
  <2>2. zip' = [dst |-> zip.dst, src |-> zip.src + 1, result |-> Append(r, x)]
    BY ONLY <1>2, <2>1
  <2>3. zip.src + 1 \in Nat \ {0}
    BY <1>7
  <2>. QED  BY <1>7, <1>8, <2>2, <2>3
<1>10. ASSUME NEW k \in (zip.src + 1)..Len(b) PROVE InOrder(x, b[k])
  BY <1>4, <1>6, <1>7 DEF Ordered
<1>11. ASSUME NEW k \in zip.dst..Len(a) PROVE InOrder(x, a[k])
  <2>1. k \in DOMAIN a /\ zip.dst \in DOMAIN a /\ zip.dst <= k /\ zip.dst <= Len(a)
    BY <1>4, <1>7
  <2>2. ~(a[zip.dst].time <= x.time) /\ a[zip.dst].time <= a[k].time
    BY <1>4, <1>6, <2>1, OrderedTimes
  <2>3. a[k].time \in Int /\ a[zip.dst].time \in Int
    BY <1>4, <2>1, ElementIsSample
  <2>. QED  BY <1>7, <2>2, <2>3 DEF InOrder
<1>12. ZipInv'
  <2>1. ToSet(Append(r, x)) = {a[k] : k \in 1..(zip.dst - 1)} \cup {b[k] : k \in 1..((zip.src + 1) - 1)}
    <3>1. {b[k] : k \in 1..zip.src} = {b[k] : k \in 1..(zip.src - 1)} \cup {x}
      BY <1>7, OneMore
    <3>2. (zip.src + 1) - 1 = zip.src
      BY <1>7
    <3>. QED  BY <1>3, <1>8, <3>1, <3>2
  <2>2. \A y \in ToSet(Append(r, x)) : \A k \in (zip.src + 1)..Len(b) : InOrder(y, b[k])
    <3>1. \A k \in (zip.src + 1)..Len(b) : k \in zip.src..Len(b)
      BY <1>4, <1>7
    <3>2. \A y \in ToSet(r) : \A k \in (zip.src + 1)..Len(b) : InOrder(y, b[k])
      BY ONLY <1>3, <3>1
    <3>. QED  BY ONLY <1>8, <1>10, <3>2
  <2>3. \A y \in ToSet(Append(r, x)) : \A k \in zip.dst..Len(a) : InOrder(y, a[k])
    BY <1>3, <1>8, <1>11
  <2>4. zip.src + 1 <= Len(b) + 1
    BY <1>4, <1>6
  <2>5. /\ Dst'.metric = a /\ Src'.metric = b /\ Dst'.name = Src'.name
        /\ dst' # 0 /\ pos' <= Len(families')
    BY <1>1, <1>3, <1>5 DEF a, b
  <2>6. /\ zip.dst <= Len(a) + 1 /\ zip.src + 1 <= Len(b) + 1
        /\ ToSet(zip'.result) = ToSet(Append(r, x)) /\ Ordered(zip'.result)
    BY <1>3, <1>8, <1>9, <2>4
  <2>. QED  BY ONLY <1>9, <2>1, <2>2, <2>3, <2>5, <2>6 DEF ZipInv
<1>. QED  BY <1>1, <1>9, <1>12, ZipStep

\* When both sides are used up, the result has all their samples.
LEMMA EndZipIndInv == ASSUME IndInv, EndZip PROVE IndInv'
<1>. DEFINE a == Dst.metric
            b == Src.metric
            r == zip.result
<1>1. /\ pc = "zip" /\ ~DstLeft /\ ~SrcLeft /\ Merged(r) /\ pc' = "loop" /\ zip' = zip
  BY DEF EndZip
<1>2. zip.dst \in Nat /\ zip.src \in Nat /\ r \in Seq(Sample)
  BY DEF IndInv, TypeOK
<1>3. /\ dst # 0 /\ pos <= Len(families) /\ Dst.name = Src.name
      /\ zip.dst <= Len(a) + 1 /\ zip.src <= Len(b) + 1
      /\ ToSet(r) = {a[k] : k \in 1..(zip.dst - 1)} \cup {b[k] : k \in 1..(zip.src - 1)}
      /\ Ordered(r)
  BY <1>1 DEF IndInv, ZipInv
<1>4. /\ a \in Seq(Sample) /\ b \in Seq(Sample)
      /\ DOMAIN a = 1..Len(a) /\ DOMAIN b = 1..Len(b) /\ Len(a) \in Nat /\ Len(b) \in Nat
      /\ ToSet(a) = Samples(dst) /\ ToSet(b) = Samples(pos)
  BY <1>1, <1>3, Pair, LenProperties
<1>5. zip.dst - 1 = Len(a) /\ zip.src - 1 = Len(b)
  <2>1. ~(zip.dst <= Len(a)) /\ ~(zip.src <= Len(b))
    BY <1>1 DEF DstLeft, SrcLeft
  <2>2. /\ zip.dst \in Nat /\ zip.src \in Nat /\ Len(a) \in Nat /\ Len(b) \in Nat
        /\ zip.dst <= Len(a) + 1 /\ zip.src <= Len(b) + 1
    BY <1>2, <1>3, <1>4
  <2>. QED  BY ONLY <2>1, <2>2
<1>6. ToSet(r) = Samples(dst) \cup Samples(pos)
  <2>1. ToSet(r) = {a[k] : k \in 1..Len(a)} \cup {b[k] : k \in 1..Len(b)}
    BY <1>3, <1>5
  <2>. QED  BY <1>4, <2>1 DEF ToSet
<1>. QED  BY <1>1, <1>2, <1>3, <1>6, MergedIndInv

-----------------------------------------------------------------------------
(* Pack, for slices of every length.                                       *)

CONSTANT MaxLength  \* the length of the longest slice that Pack may be given

PK == INSTANCE Pack WITH pc <- packing

\* Positions are their own entries at first.
LEMMA PackInitIndInv == PK!Init => PK!IndInv
<1> SUFFICES ASSUME PK!Init PROVE PK!IndInv
  OBVIOUS
<1>1. /\ j \in Nat /\ live \subseteq 0..(j - 1)
      /\ i = 0 /\ next = 0 /\ packing = "scan" /\ length = j
  BY DEF PK!Init
<1>2. /\ DOMAIN slice = 0..(j - 1)
      /\ \A p \in 0..(j - 1) : slice[p] = IF p \in live THEN p ELSE PK!Nil
  BY DEF PK!Init
<1>3. slice \in [0..(j - 1) -> live \cup {PK!Nil}]
  BY <1>2 DEF PK!Init
<1>4. PK!TypeOK BY <1>1, <1>3 DEF PK!TypeOK
<1>5. PK!NothingLost BY <1>1, <1>2 DEF PK!Nil, PK!NothingLost
<1>6. PK!Scanned BY <1>1, <1>2 DEF PK!Scanned
<1>7. PK!Returned BY <1>1 DEF PK!Returned
<1> QED BY <1>4, <1>5, <1>6, <1>7 DEF PK!IndInv

\* Every step keeps it; Fill is the one that moves an entry.
LEMMA PackNextIndInv == PK!IndInv /\ [PK!Next]_PK!vars => PK!IndInv'
<1> SUFFICES ASSUME PK!IndInv, [PK!Next]_PK!vars PROVE PK!IndInv'
  OBVIOUS
<1> USE DEF PK!Nil, PK!IndInv
<1>1. CASE PK!Keep
  <2>1. PK!TypeOK' BY <1>1 DEF PK!Keep, PK!TypeOK
  <2>2. PK!NothingLost' BY <1>1 DEF PK!Keep, PK!NothingLost
  <2>3. PK!Scanned' BY <1>1 DEF PK!Keep, PK!Scanned, PK!TypeOK
  <2>4. PK!Returned' BY <1>1 DEF PK!Keep, PK!Returned
  <2> QED BY <2>1, <2>2, <2>3, <2>4
<1>2. CASE PK!Fill
  <2>1. PICK k \in PK!Start..(j - 1) :
          /\ slice[k] # PK!Nil
          /\ \A m \in PK!Start..(k - 1) : slice[m] = PK!Nil
          /\ slice' = [slice EXCEPT ![i] = slice[k], ![k] = PK!Nil]
          /\ next' = k + 1
    BY <1>2 DEF PK!Fill
  <2>2. /\ i \in Nat /\ j \in Nat /\ next \in Nat /\ k \in Nat
        /\ i < k /\ k < j /\ next <= k
        /\ i' = i + 1 /\ j' = j /\ live' = live /\ packing' = packing /\ length' = length
        /\ slice[i] = PK!Nil
    BY <1>2, <2>1 DEF PK!Fill, PK!Start, PK!TypeOK
  \* From i on, k is the first entry.
  <2>3. \A m \in DOMAIN slice : i <= m /\ m < k => slice[m] = PK!Nil
    BY <2>1, <2>2 DEF PK!Start, PK!Scanned, PK!TypeOK
  <2>4. /\ DOMAIN slice = 0..(j - 1) /\ DOMAIN slice' = 0..(j - 1)
        /\ slice'[i] = slice[k] /\ slice'[k] = PK!Nil
        /\ \A p \in 0..(j - 1) : p # i /\ p # k => slice'[p] = slice[p]
    BY <2>1, <2>2 DEF PK!TypeOK
  <2>5. PK!TypeOK'
    BY <2>1, <2>2, <1>2 DEF PK!Fill, PK!TypeOK
  <2>6. PK!NothingLost'
    <3>1. \A e \in live : \E p \in 0..(j - 1) : slice'[p] = e
      <4> SUFFICES ASSUME NEW e \in live PROVE \E p \in 0..(j - 1) : slice'[p] = e
        OBVIOUS
      <4>1. PICK p \in 0..(j - 1) : slice[p] = e
        BY <2>4 DEF PK!NothingLost
      <4>2. e # PK!Nil BY DEF PK!TypeOK
      <4>3. p # i BY <2>2, <4>1, <4>2
      <4>4. CASE p = k BY <2>2, <2>4, <4>1, <4>4
      <4>5. CASE p # k BY <2>4, <4>1, <4>3, <4>5
      <4> QED BY <4>4, <4>5
    <3>2. ASSUME NEW p \in 0..(j - 1), NEW q \in 0..(j - 1), p < q,
                 slice'[p] # PK!Nil, slice'[q] # PK!Nil
          PROVE  slice'[p] < slice'[q]
      <4>1. p # k /\ q # k BY <2>4, <3>2
      <4>2. CASE p = i
        <5>1. q > k BY <2>2, <2>3, <2>4, <3>2, <4>1, <4>2
        <5> QED BY <2>1, <2>2, <2>4, <3>2, <4>1, <4>2, <5>1 DEF PK!NothingLost
      <4>3. CASE q = i
        <5> QED BY <2>1, <2>2, <2>4, <3>2, <4>1, <4>3 DEF PK!NothingLost
      <4>4. CASE p # i /\ q # i
        BY <2>4, <3>2, <4>1, <4>4 DEF PK!NothingLost
      <4> QED BY <4>2, <4>3, <4>4
    <3> QED BY <2>2, <2>4, <3>1, <3>2 DEF PK!NothingLost
  <2>7. PK!Scanned'
    <3>1. \A p \in 0..(j - 1) : p < i + 1 => slice'[p] # PK!Nil
      BY <2>1, <2>2, <2>4 DEF PK!Scanned
    <3>2. \A p \in 0..(j - 1) : i + 1 <= p /\ p < k + 1 => slice'[p] = PK!Nil
      BY <2>2, <2>3, <2>4
    <3> QED BY <2>1, <2>2, <2>4, <3>1, <3>2 DEF PK!Scanned
  <2>8. PK!Returned' BY <1>2, <2>2 DEF PK!Fill, PK!Returned
  <2> QED BY <2>5, <2>6, <2>7, <2>8
<1>3. CASE PK!Cut
  <2>1. PK!TypeOK' BY <1>3 DEF PK!Cut, PK!TypeOK
  <2>2. PK!NothingLost' BY <1>3 DEF PK!Cut, PK!NothingLost
  <2>3. PK!Scanned' BY <1>3 DEF PK!Cut, PK!Scanned
  <2>4. PK!Returned' BY <1>3 DEF PK!Cut, PK!Returned, PK!Start, PK!Scanned, PK!TypeOK
  <2> QED BY <2>1, <2>2, <2>3, <2>4
<1>4. CASE PK!End
  <2>1. PK!TypeOK' BY <1>4 DEF PK!End, PK!TypeOK
  <2>2. PK!NothingLost' BY <1>4 DEF PK!End, PK!NothingLost
  <2>3. PK!Scanned' BY <1>4 DEF PK!End, PK!Scanned
  <2>4. length = j BY <1>4 DEF PK!End, PK!Returned
  <2>5. PK!Returned' BY <1>4, <2>4 DEF PK!End, PK!Returned, PK!TypeOK
  <2> QED BY <2>1, <2>2, <2>3, <2>5
<1>5. CASE UNCHANGED PK!vars
  BY <1>5 DEF PK!vars, PK!TypeOK, PK!NothingLost, PK!Scanned, PK!Returned
<1> QED BY <1>1, <1>2, <1>3, <1>4, <1>5 DEF PK!Next

\* The strengthening holds for every length and every choice of entries: all
\* entries to keep are in the array, once, in order, and i separates the dense
\* part from the holes.
THEOREM PackInvariance == PK!Spec => []PK!IndInv
<1>1. PK!Init => PK!IndInv BY PackInitIndInv
<1>2. PK!IndInv /\ [PK!Next]_PK!vars => PK!IndInv' BY PackNextIndInv
<1> QED BY <1>1, <1>2, PTL DEF PK!Spec

\* While the loop runs, each entry to keep is in the array exactly once, and in
\* its order (PackMetrics, Pack, PackLabels).
THEOREM NoEntryLost == PK!Spec => []PK!NothingLost
<1>1. PK!IndInv => PK!NothingLost BY DEF PK!IndInv
<1> QED BY PackInvariance, <1>1, PTL

\* What PackMetrics, Pack and PackLabels return is exactly the entries to keep,
\* in the order of the original slice.
THEOREM PacksInOrder == PK!Spec => []PK!ReturnsLiveInOrder
<1>1. ASSUME PK!IndInv PROVE PK!ReturnsLiveInOrder
  <2> SUFFICES ASSUME packing = "returned" PROVE PK!ReturnsLiveInOrder
    BY DEF PK!ReturnsLiveInOrder
  <2>1. /\ DOMAIN slice = 0..(j - 1) /\ i \in Nat /\ length = i
        /\ \A p \in 0..(j - 1) : p < i <=> slice[p] # PK!Nil
    BY <1>1 DEF PK!IndInv, PK!TypeOK, PK!Scanned, PK!Returned
  <2>2. \A e \in live : e # PK!Nil
    BY <1>1 DEF PK!IndInv, PK!TypeOK, PK!Nil
  <2> QED BY <1>1, <2>1, <2>2 DEF PK!IndInv, PK!NothingLost, PK!ReturnsLiveInOrder
<1> QED BY PackInvariance, <1>1, PTL

-----------------------------------------------------------------------------
(* The call of Pack.                                                       *)

\* The invariant of Pack holds as long as Pack runs.
LEMMA PackNext == P!IndInv /\ P!Next => P!IndInv' /\ j' = j /\ live' = live
<1>1. P!IndInv <=> PK!IndInv
  BY DEF P!IndInv, PK!IndInv, P!TypeOK, PK!TypeOK, P!NothingLost, PK!NothingLost,
         P!Scanned, PK!Scanned, P!Returned, PK!Returned, P!Nil, PK!Nil
<1>2. P!IndInv' <=> PK!IndInv'
  BY DEF P!IndInv, PK!IndInv, P!TypeOK, PK!TypeOK, P!NothingLost, PK!NothingLost,
         P!Scanned, PK!Scanned, P!Returned, PK!Returned, P!Nil, PK!Nil
<1>3. P!Next <=> PK!Next
  BY DEF P!Next, PK!Next, P!Keep, PK!Keep, P!Fill, PK!Fill, P!Cut, PK!Cut, P!End, PK!End,
         P!Start, PK!Start, P!Nil, PK!Nil
<1>4. PK!IndInv /\ PK!Next => PK!IndInv'
  BY PackNextIndInv
<1>5. P!Next => j' = j /\ live' = live
  BY DEF P!Next, P!Keep, P!Fill, P!Cut, P!End
<1>. QED  BY <1>1, <1>2, <1>3, <1>4, <1>5

LEMMA CallPackIndInv == ASSUME IndInv, CallPack PROVE IndInv'
<1>. USE DEF IndInv
<1>1. /\ pc = "loop" /\ pc' = "pack" /\ UNCHANGED <<input, families, pos, dst, zip>>
      /\ j' = Len(families) /\ i' = 0 /\ next' = 0 /\ length' = j' /\ packing' = "scan"
      /\ live' = {p \in 0..(j' - 1) : families[p + 1] # NilFamily}
      /\ slice' = [p \in 0..(j' - 1) |-> IF p \in live' THEN p ELSE P!Nil]
  BY DEF CallPack
<1>2. Len(families) \in Nat /\ DOMAIN families = 1..Len(families)
  BY LenProperties DEF TypeOK
<1>3. Authentic' /\ Together' /\ Complete' /\ AllOrdered' /\ Live' = Live
  BY <1>1, SameFamilies
<1>4. TypeOK'
  BY <1>1 DEF TypeOK
<1>5. Ahead' /\ ZipInv'
  BY <1>1 DEF Ahead, ZipInv
<1>6. \A p \in 0..(j' - 1) : p + 1 \in Live <=> families[p + 1] # NilFamily
  BY <1>1, <1>2 DEF Live
<1>7. P!IndInv'
  <2>1. j' \in Nat /\ live' \subseteq 0..(j' - 1)
    BY <1>1, <1>2
  <2>2. /\ DOMAIN slice' = 0..(j' - 1)
        /\ \A p \in 0..(j' - 1) : slice'[p] = IF p \in live' THEN p ELSE P!Nil
    BY <1>1
  <2>3. slice' \in [0..(j' - 1) -> live' \cup {P!Nil}]
    BY <1>1
  <2>4. P!TypeOK'
    BY <1>1, <2>1, <2>3 DEF P!TypeOK, P!Nil
  <2>5. P!NothingLost'
    BY <2>1, <2>2 DEF P!NothingLost, P!Nil
  <2>6. P!Scanned' /\ P!Returned'
    BY <1>1, <2>1, <2>2 DEF P!Scanned, P!Returned, P!Nil
  <2>. QED  BY <2>4, <2>5, <2>6 DEF P!IndInv
<1>8. PackInv'
  BY <1>1, <1>3, <1>6, <1>7 DEF PackInv
<1>. QED  BY <1>3, <1>4, <1>5, <1>8

LEMMA PackStepIndInv == ASSUME IndInv, PackStep PROVE IndInv'
<1>. USE DEF IndInv
<1>1. pc = "pack" /\ P!Next /\ UNCHANGED <<input, families, pos, dst, pc, zip>>
  BY DEF PackStep, mergeVars
<1>2. Authentic' /\ Together' /\ Complete' /\ AllOrdered' /\ Live' = Live
  BY <1>1, SameFamilies
<1>3. TypeOK'
  BY <1>1 DEF TypeOK
<1>4. Ahead' /\ ZipInv'
  BY <1>1 DEF Ahead, ZipInv
<1>5. P!IndInv /\ j = Len(families) /\ live = {p \in 0..(j - 1) : p + 1 \in Live}
  BY <1>1 DEF PackInv
<1>6. P!IndInv' /\ j' = j /\ live' = live
  BY <1>1, <1>5, PackNext
<1>7. PackInv'
  BY <1>1, <1>2, <1>5, <1>6 DEF PackInv
<1>. QED  BY <1>2, <1>3, <1>4, <1>7

\* What a finished Pack leaves in the slice.
LEMMA Packed ==
  ASSUME P!IndInv, packing = "returned"
  PROVE  /\ length \in Nat /\ DOMAIN slice = 0..(j - 1) /\ length <= j /\ j \in Nat
         /\ \A p \in 0..(length - 1) : p \in DOMAIN slice /\ slice[p] # P!Nil /\ slice[p] \in live
         /\ \A e \in live : \E p \in 0..(length - 1) : slice[p] = e
         /\ \A p, q \in 0..(length - 1) : p < q => slice[p] < slice[q]
<1>1. /\ j \in Nat /\ live \subseteq 0..(j - 1) /\ slice \in [0..(j - 1) -> live \cup {P!Nil}]
      /\ i \in 0..j /\ length = i
  BY DEF P!IndInv, P!TypeOK, P!Returned
<1>2. /\ \A p \in DOMAIN slice : p < i => slice[p] # P!Nil
      /\ \A p \in DOMAIN slice : i <= p => slice[p] = P!Nil
      /\ \A e \in live : \E p \in DOMAIN slice : slice[p] = e
      /\ \A p, q \in DOMAIN slice : p < q /\ slice[p] # P!Nil /\ slice[q] # P!Nil => slice[p] < slice[q]
  BY DEF P!IndInv, P!Scanned, P!Returned, P!NothingLost
<1>3. \A e \in live : e # P!Nil
  BY <1>1 DEF P!Nil
<1>4. length \in Nat /\ DOMAIN slice = 0..(j - 1) /\ length <= j
  BY <1>1
<1>5. \A p \in 0..(length - 1) : p \in DOMAIN slice /\ slice[p] # P!Nil /\ slice[p] \in live
  BY <1>1, <1>2
<1>6. ASSUME NEW e \in live PROVE \E p \in 0..(length - 1) : slice[p] = e
  <2>1. PICK p \in DOMAIN slice : slice[p] = e
    BY <1>2
  <2>2. p < i
    BY <1>1, <1>2, <1>3, <2>1
  <2>. QED  BY <1>1, <2>1, <2>2
<1>7. \A p, q \in 0..(length - 1) : p < q => slice[p] < slice[q]
  BY <1>2, <1>5
<1>. QED  BY <1>1, <1>4, <1>5, <1>6, <1>7

\* The slice that is returned has the families that are left, in their order.
LEMMA ReturnIndInv == ASSUME IndInv, Return PROVE IndInv'
<1>. USE DEF IndInv
<1>. DEFINE h(f) == slice[f - 1] + 1
<1>1. /\ pc = "pack" /\ packing = "returned" /\ pc' = "returned"
      /\ families' = [f \in 1..length |->
                        IF slice[f - 1] = P!Nil THEN NilFamily ELSE families[slice[f - 1] + 1]]
      /\ UNCHANGED <<input, pos, dst, zip, packVars>>
  BY DEF Return
<1>2. P!IndInv /\ j = Len(families) /\ live = {p \in 0..(j - 1) : p + 1 \in Live}
  BY <1>1 DEF PackInv
<1>3. /\ length \in Nat
      /\ \A p \in 0..(length - 1) : p \in DOMAIN slice /\ slice[p] # P!Nil /\ slice[p] \in live
      /\ \A e \in live : \E p \in 0..(length - 1) : slice[p] = e
      /\ \A p, q \in 0..(length - 1) : p < q => slice[p] < slice[q]
  BY <1>1, <1>2, Packed
<1>4. Len(families) \in Nat /\ DOMAIN families = 1..Len(families) /\ families \in Seq(Family \cup {NilFamily})
  BY LenProperties DEF TypeOK
\* h maps the positions of the new slice to those of the families that are left.
<1>5. ASSUME NEW f \in 1..length
      PROVE  h(f) \in Live /\ families'[f] = families[h(f)] /\ f - 1 \in 0..(length - 1)
  <2>1. f - 1 \in 0..(length - 1)
    BY <1>3
  <2>2. slice[f - 1] # P!Nil /\ slice[f - 1] \in live
    BY <1>3, <2>1
  <2>. QED  BY <1>1, <1>2, <2>1, <2>2
<1>6. ASSUME NEW g \in Live PROVE \E f \in 1..length : h(f) = g
  <2>1. g \in 1..Len(families)
    BY <1>4 DEF Live
  <2>2. g - 1 \in live /\ (g - 1) + 1 = g
    BY <1>2, <2>1
  <2>3. PICK p \in 0..(length - 1) : slice[p] = g - 1
    BY <1>3, <2>2
  <2>4. p + 1 \in 1..length /\ (p + 1) - 1 = p
    BY <1>3
  <2>. QED  BY <2>2, <2>3, <2>4
<1>7. ASSUME NEW f \in 1..length, NEW g \in 1..length, h(f) = h(g) PROVE f = g
  <2>1. f - 1 \in 0..(length - 1) /\ g - 1 \in 0..(length - 1)
    BY <1>5
  <2>2. slice[f - 1] \in live /\ slice[g - 1] \in live
    BY <1>3, <2>1
  <2>3. slice[f - 1] \in Int /\ slice[g - 1] \in Int /\ slice[f - 1] = slice[g - 1]
    BY <1>2, <1>7, <2>2
  <2>4. ~(f - 1 < g - 1) /\ ~(g - 1 < f - 1)
    BY <1>3, <2>1, <2>3
  <2>. QED  BY <2>4
<1>. HIDE DEF h
<1>8. DOMAIN families' = 1..length /\ Live' = 1..length
  BY <1>1, <1>5 DEF Live
<1>9. \A f \in 1..length : Samples(f)' = Samples(h(f))
  BY <1>5 DEF Samples
<1>10. TypeOK'
  <2>1. \A f \in 1..length : families'[f] \in Family
    BY <1>5, LiveFamily
  <2>2. families' \in [1..length -> Family \cup {NilFamily}]
    BY <1>1, <2>1
  <2>3. families' \in Seq(Family \cup {NilFamily})
    BY <1>3, <2>2, FunctionIsSeq
  <2>. QED  BY <1>1, <2>3 DEF TypeOK
<1>11. Authentic'
  <2>1. input' = input
    BY <1>1
  <2>2. \A f \in 1..length : h(f) \in Live /\ families'[f].name = families[h(f)].name
    BY <1>5
  <2>3. \A f \in 1..length : \A x \in Samples(h(f)) :
          /\ x.from[1] \in DOMAIN input
          /\ x.from[2] \in DOMAIN input[x.from[1]].times
          /\ x.time = input[x.from[1]].times[x.from[2]]
          /\ families'[f].name = input[x.from[1]].name
    BY <2>2 DEF Authentic
  <2>. QED  BY <1>8, <1>9, <2>1, <2>3 DEF Authentic
<1>12. Together'
  <2>. SUFFICES ASSUME NEW f \in 1..length, NEW g \in 1..length,
                       NEW x \in Samples(h(f)), NEW y \in Samples(h(g)), x.from[1] = y.from[1]
                PROVE  f = g
    BY <1>8, <1>9 DEF Together
  <2>1. h(f) = h(g)
    BY <1>5 DEF Together
  <2>. QED  BY <1>7, <2>1
<1>13. Complete'
  <2>. SUFFICES ASSUME NEW g \in DOMAIN input, NEW k \in DOMAIN input[g].times
                PROVE  \E f \in 1..length : \E x \in Samples(h(f)) : x.from = <<g, k>>
    <3>1. input' = input
      BY <1>1
    <3>2. Complete' <=> \A g \in DOMAIN input : \A k \in DOMAIN input[g].times :
                          \E f \in 1..length : \E x \in Samples(f)' : x.from = <<g, k>>
      BY <1>8, <3>1 DEF Complete
    <3>. QED  BY <1>9, <3>2
  <2>1. PICK f0 \in Live : \E x \in Samples(f0) : x.from = <<g, k>>
    BY DEF Complete
  <2>2. PICK f \in 1..length : h(f) = f0
    BY <1>6
  <2>. QED  BY <2>1, <2>2
<1>14. AllOrdered'
  BY <1>5, <1>8 DEF AllOrdered
<1>15. Ahead' /\ ZipInv'
  BY <1>1 DEF Ahead, ZipInv
<1>16. PackInv'
  <2>1. P!IndInv'
    BY <1>1, <1>2 DEF packVars, P!IndInv, P!TypeOK, P!NothingLost, P!Scanned, P!Returned
  <2>. QED  BY <1>1, <2>1 DEF PackInv
<1>. QED  BY <1>10, <1>11, <1>12, <1>13, <1>14, <1>15, <1>16

LEMMA NextIndInv == IndInv /\ [Next]_vars => IndInv'
<1>. SUFFICES ASSUME IndInv, [Next]_vars PROVE IndInv'
  OBVIOUS
<1>1. CASE Begin
  BY <1>1, PassIndInv DEF Begin
<1>2. CASE Differ
  BY <1>2, PassIndInv DEF Differ
<1>3. CASE MergeBlock
  BY <1>3, BlockIndInv
<1>4. CASE BeginZip
  BY <1>4, BeginZipIndInv
<1>5. CASE TakeFromDst
  BY <1>5, TakeFromDstIndInv
<1>6. CASE TakeFromSrc
  BY <1>6, TakeFromSrcIndInv
<1>7. CASE EndZip
  BY <1>7, EndZipIndInv
<1>8. CASE CallPack
  BY <1>8, CallPackIndInv
<1>9. CASE PackStep
  BY <1>9, PackStepIndInv
<1>10. CASE Return
  BY <1>10, ReturnIndInv
<1>11. CASE UNCHANGED vars
  <2>1. /\ UNCHANGED <<input, families, pos, dst, pc, zip>>
        /\ UNCHANGED <<j, live, slice, i, next, length, packing>>
    BY <1>11 DEF vars, mergeVars, packVars
  <2>2. Authentic' /\ Together' /\ Complete' /\ AllOrdered' /\ Live' = Live
    BY <2>1, SameFamilies
  <2>3. TypeOK'
    BY <2>1 DEF IndInv, TypeOK
  <2>4. Ahead'
    BY <2>1, <2>2 DEF IndInv, Ahead, Samples
  <2>5. ZipInv'
    BY <2>1 DEF IndInv, ZipInv, Dst, Src
  <2>6. P!IndInv => P!IndInv'
    BY <2>1 DEF P!IndInv, P!TypeOK, P!NothingLost, P!Scanned, P!Returned
  <2>7. PackInv'
    BY <2>1, <2>2, <2>6 DEF IndInv, PackInv
  <2>. QED  BY <2>2, <2>3, <2>4, <2>5, <2>7 DEF IndInv
<1>. QED  BY <1>1, <1>2, <1>3, <1>4, <1>5, <1>6, <1>7, <1>8, <1>9, <1>10, <1>11 DEF Next

-----------------------------------------------------------------------------
(* The theorems.                                                           *)

\* Of every slice that keeps to the comment of MergeSortedWithTimestamps: the
\* samples that came in are in the families that are left, sorted, and the zip
\* and the compaction are where they should be.
THEOREM Invariance == Spec => []IndInv
<1>1. Init => IndInv
  BY InitIndInv
<1>2. IndInv /\ [Next]_vars => IndInv'
  BY NextIndInv
<1>. QED  BY <1>1, <1>2, PTL DEF Spec

\* Merging keeps samples sorted, those of equal times in the order of their
\* families, in all families and at every step (MergeSortedWithTimestamps).
THEOREM MergesInOrder == Spec => []StaysSorted
<1>1. ASSUME IndInv PROVE StaysSorted
  <2>. SUFFICES ASSUME NEW f \in Live, NEW k \in 2..Len(families[f].metric)
                PROVE  InOrder(families[f].metric[k - 1], families[f].metric[k])
    BY DEF StaysSorted
  <2>1. families[f].metric \in Seq(Sample)
    BY <1>1, LiveFamily DEF IndInv
  <2>2. k - 1 \in DOMAIN families[f].metric /\ k \in DOMAIN families[f].metric /\ k - 1 < k
    BY <2>1, LenProperties
  <2>. QED  BY <1>1, <2>2 DEF IndInv, AllOrdered, Ordered
<1>. QED  BY Invariance, <1>1, PTL

\* No sample is lost or doubled or gets another name, wherever it is moved by
\* the blocks, the zip and the compaction (MergeSortedWithTimestamps).
THEOREM KeepsSamples == Spec => []NoSampleLost
<1>1. ASSUME IndInv PROVE NoSampleLost
  <2>. DEFINE places == UNION {{f} \X DOMAIN families[f].metric : f \in Live}
              sample(p) == families[p[1]].metric[p[2]].from
  <2>. SUFFICES ASSUME NEW s \in UNION {{f} \X DOMAIN input[f].times : f \in DOMAIN input}
                PROVE  \E p \in places : /\ families[p[1]].name = input[s[1]].name
                                         /\ {q \in places : sample(q) = s} = {p}
    BY DEF NoSampleLost
  <2>1. PICK g \in DOMAIN input : s \in {g} \X DOMAIN input[g].times
    OBVIOUS
  <2>2. PICK k \in DOMAIN input[g].times : s = <<g, k>>
    BY <2>1
  <2>3. PICK f \in Live : \E x \in Samples(f) : x.from = <<g, k>>
    BY <1>1 DEF IndInv, Complete
  <2>4. PICK l \in DOMAIN families[f].metric : families[f].metric[l].from = <<g, k>>
    BY <2>3 DEF Samples, ToSet
  <2>5. families[f].metric[l] \in Samples(f)
    BY <2>4 DEF Samples, ToSet
  <2>6. families[f].name = input[g].name
    BY <1>1, <2>4, <2>5 DEF IndInv, Authentic
  <2>7. ASSUME NEW q \in places, sample(q) = s PROVE q = <<f, l>>
    <3>1. PICK e \in Live : q \in {e} \X DOMAIN families[e].metric
      OBVIOUS
    <3>2. PICK m \in DOMAIN families[e].metric : q = <<e, m>>
      BY <3>1
    <3>3. families[e].metric[m].from = <<g, k>> /\ families[e].metric[m] \in Samples(e)
      BY <2>2, <2>7, <3>2 DEF Samples, ToSet
    <3>4. e = f
      BY <1>1, <2>4, <2>5, <3>3 DEF IndInv, Together
    <3>5. /\ Ordered(families[f].metric) /\ families[f].metric \in Seq(Sample)
      BY <1>1, LiveFamily DEF IndInv, AllOrdered
    <3>6. families[f].metric[l].time = families[f].metric[m].time
      BY <1>1, <2>4, <2>5, <3>3, <3>4 DEF IndInv, Authentic
    <3>7. ~InOrder(families[f].metric[l], families[f].metric[m]) /\ ~InOrder(families[f].metric[m], families[f].metric[l])
      <4>1. families[f].metric[l].time \in Int /\ g \in Int /\ k \in Int
        BY <2>4, <3>5, ElementIsSample
      <4>. QED  BY <2>4, <3>3, <3>4, <3>6, <4>1 DEF InOrder
    <3>8. l \in Nat /\ m \in Nat
      BY <3>4, <3>5, LenProperties
    <3>9. l = m
      BY <3>4, <3>5, <3>7, <3>8 DEF Ordered
    <3>. QED  BY <3>2, <3>4, <3>9
  <2>8. <<f, l>> \in places
    OBVIOUS
  <2>9. sample(<<f, l>>) = s
    BY <2>2, <2>4
  <2>10. {q \in places : sample(q) = s} = {<<f, l>>}
    <3>. HIDE DEF places, sample
    <3>. QED  BY <2>7, <2>8, <2>9
  <2>11. families[<<f, l>>[1]].name = input[s[1]].name
    BY <2>2, <2>6
  <2>. QED  BY <2>8, <2>10, <2>11
<1>. QED  BY Invariance, <1>1, PTL

\* What the call returns is exactly the families that are left, in their order
\* (`return Pack(families)`).
THEOREM ReturnsInOrder == Spec => []ReturnsLiveInOrder
<1>1. ASSUME IndInv PROVE ReturnsLiveInOrder
  <2>. SUFFICES ASSUME packing = "returned" PROVE ReturnsLiveInOrder
    BY DEF ReturnsLiveInOrder, P!ReturnsLiveInOrder
  <2>1. P!IndInv
    BY <1>1 DEF IndInv, PackInv
  <2>2. /\ length \in Nat /\ DOMAIN slice = 0..(j - 1) /\ length <= j /\ j \in Nat
        /\ \A p \in 0..(length - 1) : p \in DOMAIN slice /\ slice[p] # P!Nil /\ slice[p] \in live
        /\ \A e \in live : \E p \in 0..(length - 1) : slice[p] = e
        /\ \A p, q \in 0..(length - 1) : p < q => slice[p] < slice[q]
    BY <2>1, Packed
  <2>3. \A p \in DOMAIN slice : p < length => p \in 0..(length - 1)
    BY <2>2
  <2>. QED  BY <2>2, <2>3 DEF ReturnsLiveInOrder, P!ReturnsLiveInOrder
<1>. QED  BY Invariance, <1>1, PTL
=============================================================================
