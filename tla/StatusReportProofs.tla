------------------------- MODULE StatusReportProofs -------------------------
(***************************************************************************)
(* Proofs about StatusReport, for any conditions that the object may have  *)
(* at first and any sequence of reports, conflicts and failures.           *)
(*                                                                         *)
(* The loop of UpdateStatus is a recursive function.  What it computes is  *)
(* proved by induction in the form "a set of natural numbers that contains *)
(* 0 and is closed under + 1 is Nat", which has no operator as parameter.  *)
(***************************************************************************)
EXTENDS StatusReport, SequenceTheorems, WellFoundedInduction, TLAPS

-----------------------------------------------------------------------------
(* Induction and recursion.                                                *)

LEMMA LeastNatural ==
  ASSUME NEW T \in SUBSET Nat, T # {}
  PROVE  \E x \in T : \A y \in T : x <= y
<1>. DEFINE R == OpToRel(<, Nat)
<1>1. IsWellFoundedOn(R, Nat)
  BY NatLessThanWellFounded
<1>2. \A x, y \in Nat : <<y, x>> \in R <=> y < x
  BY DEF OpToRel
<1>. HIDE DEF R
<1>3. PICK x \in T : \A y \in T : ~ (<<y, x>> \in R)
  BY <1>1, WFMin
<1>4. ASSUME NEW y \in T PROVE x <= y
  <2>1. x \in Nat /\ y \in Nat
    OBVIOUS
  <2>2. ~ (y < x)
    BY <1>2, <1>3, <2>1
  <2>. QED  BY <2>1, <2>2
<1>. QED  BY <1>4

LEMMA Induction ==
  ASSUME NEW T \in SUBSET Nat, 0 \in T, \A k \in T : k + 1 \in T
  PROVE  T = Nat
<1>. SUFFICES ASSUME Nat \ T # {} PROVE FALSE
  OBVIOUS
<1>1. PICK x \in Nat \ T : \A y \in Nat \ T : x <= y
  BY LeastNatural
<1>2. x - 1 \in Nat /\ x - 1 \in T
  BY <1>1
<1>. QED  BY <1>1, <1>2

\* A function can be defined by what it does at 0 and how it goes on.
LEMMA Recursion ==
  ASSUME NEW S, NEW a \in S, NEW n \in Nat, NEW step \in [1..n -> [S -> S]]
  PROVE  \E g \in [0..n -> S] : g[0] = a /\ \A k \in 1..n : g[k] = step[k][g[k - 1]]
<1>. DEFINE Goes(g, k) == g[0] = a /\ \A l \in 1..k : g[l] = step[l][g[l - 1]]
            T == {k \in Nat : k <= n => \E g \in [0..k -> S] : Goes(g, k)}
<1>1. 0 \in T
  <2>. DEFINE g == [l \in 0..0 |-> a]
  <2>1. g \in [0..0 -> S] /\ Goes(g, 0)
    OBVIOUS
  <2>. HIDE DEF g
  <2>. QED  BY <2>1
<1>2. ASSUME NEW k \in T PROVE k + 1 \in T
  <2>. SUFFICES ASSUME k + 1 <= n PROVE \E h \in [0..(k + 1) -> S] : Goes(h, k + 1)
    <3>. HIDE DEF Goes
    <3>. QED  OBVIOUS
  <2>1. PICK g \in [0..k -> S] : Goes(g, k)
    BY <1>2
  <2>2. k \in Nat /\ k + 1 \in 1..n /\ g[k] \in S
    BY <2>1
  <2>. DEFINE h == [l \in 0..(k + 1) |-> IF l = k + 1 THEN step[k + 1][g[k]] ELSE g[l]]
  <2>3. h \in [0..(k + 1) -> S]
    BY <2>1, <2>2
  <2>4. h[k + 1] = step[k + 1][g[k]] /\ \A l \in 0..k : h[l] = g[l]
    BY <2>2
  <2>. HIDE DEF h
  <2>5. ASSUME NEW l \in 1..(k + 1) PROVE h[l] = step[l][h[l - 1]]
    <3>1. CASE l = k + 1
      BY <2>2, <2>4, <3>1
    <3>2. CASE l # k + 1
      <4>1. l \in 1..k /\ l \in 0..k /\ l - 1 \in 0..k
        BY <2>2, <3>2
      <4>. QED  BY <2>1, <2>4, <4>1
    <3>. QED  BY <3>1, <3>2
  <2>6. Goes(h, k + 1)
    BY <2>1, <2>2, <2>4, <2>5
  <2>. QED  BY <2>3, <2>6
<1>. HIDE DEF Goes
<1>3. n \in T
  <2>1. T \in SUBSET Nat
    OBVIOUS
  <2>. HIDE DEF T
  <2>. QED  BY <1>1, <1>2, <2>1, Induction
<1>. QED  BY <1>3 DEF Goes

-----------------------------------------------------------------------------
(* The loop of UpdateStatus.                                               *)

LEMMA ReportedType ==
  ASSUME NEW m \in Messages
  PROVE  Reported(m) \in Condition /\ Reported(m).type = TypeOf(m) /\ Reported(m).status
  BY DEF Reported, Condition, Types, TypeOf

LEMMA LoweredType ==
  ASSUME NEW c \in Condition, NEW m
  PROVE  /\ Lowered(c, m) \in Condition /\ Lowered(c, m).type = c.type
         /\ c.type # TypeOf(m) => ~Lowered(c, m).status
  BY DEF Lowered, Condition

\* The recursive function Kept satisfies its definition.
LEMMA KeptRecursion ==
  ASSUME NEW cs, cs \in Seq(Condition), NEW m \in Messages
  PROVE  /\ Kept(cs, m)[0] = <<>>
         /\ \A k \in 1..Len(cs) :
              Kept(cs, m)[k] = IF Stays(cs[k], m)
                               THEN Append(Kept(cs, m)[k - 1], Lowered(cs[k], m))
                               ELSE Kept(cs, m)[k - 1]
<1>. DEFINE n == Len(cs)
            S == Seq(Condition)
            round(k, s) == IF Stays(cs[k], m) THEN Append(s, Lowered(cs[k], m)) ELSE s
            step == [k \in 1..n |-> [s \in S |-> round(k, s)]]
            Body(f) == [k \in 0..n |-> IF k = 0 THEN <<>>
                                       ELSE IF Stays(cs[k], m)
                                            THEN Append(f[k - 1], Lowered(cs[k], m))
                                            ELSE f[k - 1]]
<1>0. n \in Nat /\ <<>> \in S
  OBVIOUS
<1>1. \A k \in 1..n : cs[k] \in Condition
  OBVIOUS
<1>2. step \in [1..n -> [S -> S]]
  BY <1>1, LoweredType
<1>3. PICK g \in [0..n -> S] : g[0] = <<>> /\ \A k \in 1..n : g[k] = step[k][g[k - 1]]
  <2>. HIDE DEF step, n, S, Body
  <2>. QED  BY ONLY <1>0, <1>2, Recursion
<1>4. ASSUME NEW k \in 1..n PROVE g[k] = round(k, g[k - 1])
  <2>1. k - 1 \in 0..n /\ g[k - 1] \in S
    BY <1>0
  <2>. QED  BY <1>3, <2>1
<1>5. g = Body(g)
  <2>2. ASSUME NEW k \in 0..n PROVE g[k] = IF k = 0 THEN <<>> ELSE round(k, g[k - 1])
    <3>1. CASE k = 0
      BY <1>3, <3>1
    <3>2. CASE k # 0
      <4>1. k \in 1..n
        BY <1>0, <3>2
      <4>. QED  BY <1>4, <3>2, <4>1
    <3>. QED  BY <3>1, <3>2
  <2>3. g = [k \in 0..n |-> g[k]]
    BY <1>3
  <2>. HIDE DEF n
  <2>. QED  BY <2>2, <2>3
<1>6. Kept(cs, m) = CHOOSE f : f = Body(f)
  BY DEF Kept
<1>. DEFINE K == Kept(cs, m)
<1>7. K = Body(K)
  <2>. HIDE DEF Body
  <2>. QED  BY <1>5, <1>6
<1>. HIDE DEF K
<1>8. K[0] = <<>> /\ \A k \in 1..n : K[k] = round(k, K[k - 1])
  <2>1. K[0] = <<>>
    BY <1>0, <1>7
  <2>2. ASSUME NEW k \in 1..n PROVE K[k] = round(k, K[k - 1])
    <3>1. k \in 0..n /\ k # 0
      BY <1>0
    <3>. QED  BY <1>7, <3>1
  <2>. QED  BY <2>1, <2>2
<1>. QED  BY <1>8 DEF K

\* If the reported condition is not there, what the loop leaves are conditions of
\* other types, each of them once and none of them True.
LEMMA KeptIsLowered ==
  ASSUME NEW cs \in Seq(Condition), NEW m \in Messages, OneEach(cs), ~UpToDate(cs, m)
  PROVE  LET kept == Kept(cs, m)[Len(cs)] IN
         /\ kept \in Seq(Condition)
         /\ OneEach(kept)
         /\ \A j \in DOMAIN kept : kept[j].type # TypeOf(m) /\ ~kept[j].status
<1>. DEFINE K == Kept(cs, m)
            Good(s, k) ==
              /\ s \in Seq(Condition)
              /\ OneEach(s)
              /\ \A j \in 1..Len(s) : s[j].type # TypeOf(m) /\ ~s[j].status
              /\ \A j \in 1..Len(s) : \E l \in 1..k : s[j].type = cs[l].type
            T == {k \in Nat : k <= Len(cs) => Good(K[k], k)}
<1>1. Len(cs) \in Nat /\ DOMAIN cs = 1..Len(cs) /\ \A k \in 1..Len(cs) : cs[k] \in Condition
  OBVIOUS
<1>2. \A k \in 1..Len(cs) : Stays(cs[k], m) => cs[k].type # TypeOf(m)
  <2>. SUFFICES ASSUME NEW k \in 1..Len(cs), cs[k] = Reported(m) PROVE FALSE
    BY DEF Stays
  <2>1. \A l \in DOMAIN cs : cs[l].type = TypeOf(m) => l = k
    BY <1>1, ReportedType DEF OneEach
  <2>. QED  BY <1>1, <2>1 DEF UpToDate
<1>3. 0 \in T
  <2>1. K[0] = <<>>
    BY KeptRecursion
  <2>. HIDE DEF K
  <2>2. Good(K[0], 0)
    BY <2>1 DEF OneEach
  <2>. QED  BY <2>2
<1>4. ASSUME NEW k \in T PROVE k + 1 \in T
  <2>. SUFFICES ASSUME k + 1 <= Len(cs) PROVE Good(K[k + 1], k + 1)
    OBVIOUS
  <2>. DEFINE s == K[k]
              c == cs[k + 1]
  <2>1. k \in Nat /\ k + 1 \in 1..Len(cs) /\ Good(s, k) /\ c \in Condition
    BY <1>1
  <2>2. K[k + 1] = IF Stays(c, m) THEN Append(s, Lowered(c, m)) ELSE s
    BY <2>1, KeptRecursion
  <2>. HIDE DEF K, s
  <2>3. CASE ~Stays(c, m)
    <3>1. K[k + 1] = s
      BY <2>2, <2>3
    <3>2. \A l \in 1..k : l \in 1..(k + 1)
      BY <2>1
    <3>. QED  BY <2>1, <3>1, <3>2
  <2>4. CASE Stays(c, m)
    <3>. DEFINE d == Lowered(c, m)
                t == K[k + 1]
    <3>1. t = Append(s, d) /\ d \in Condition /\ d.type = cs[k + 1].type
          /\ d.type # TypeOf(m) /\ ~d.status
      BY <1>2, <2>1, <2>2, <2>4, LoweredType
    <3>. HIDE DEF d, t
    <3>2. /\ t \in Seq(Condition) /\ Len(t) = Len(s) + 1 /\ Len(s) \in Nat
          /\ t[Len(s) + 1] = d /\ \A j \in 1..Len(s) : t[j] = s[j]
          /\ DOMAIN t = 1..Len(t) /\ DOMAIN s = 1..Len(s)
      BY <2>1, <3>1, AppendProperties
    <3>3. ASSUME NEW j \in 1..Len(t)
          PROVE  t[j].type # TypeOf(m) /\ ~t[j].status /\ \E l \in 1..(k + 1) : t[j].type = cs[l].type
      <4>1. CASE j \in 1..Len(s)
        <5>1. PICK l \in 1..k : s[j].type = cs[l].type
          BY <2>1, <4>1
        <5>2. l \in 1..(k + 1)
          BY <2>1
        <5>. QED  BY <2>1, <3>2, <4>1, <5>1, <5>2
      <4>2. CASE j = Len(s) + 1
        <5>1. k + 1 \in 1..(k + 1)
          BY <2>1
        <5>. QED  BY <3>1, <3>2, <4>2, <5>1
      <4>. QED  BY <3>2, <4>1, <4>2
    <3>4. \A j \in 1..Len(s) : s[j].type # d.type
      <4>. SUFFICES ASSUME NEW j \in 1..Len(s), s[j].type = d.type PROVE FALSE
        OBVIOUS
      <4>1. PICK l \in 1..k : s[j].type = cs[l].type
        BY <2>1
      <4>2. l \in DOMAIN cs /\ k + 1 \in DOMAIN cs /\ l # k + 1 /\ cs[l].type = cs[k + 1].type
        BY <1>1, <2>1, <3>1, <4>1
      <4>. QED  BY <4>2 DEF OneEach
    <3>5. OneEach(t)
      <4>. SUFFICES ASSUME NEW i \in 1..Len(t), NEW j \in 1..Len(t), t[i].type = t[j].type
                    PROVE  i = j
        BY <3>2 DEF OneEach
      <4>1. CASE i \in 1..Len(s) /\ j \in 1..Len(s)
        <5>1. i \in DOMAIN s /\ j \in DOMAIN s /\ s[i].type = s[j].type
          BY <2>1, <3>2, <4>1
        <5>. QED  BY <2>1, <5>1 DEF OneEach
      <4>2. CASE i = Len(s) + 1 \/ j = Len(s) + 1
        BY <3>2, <3>4, <4>2
      <4>. QED  BY <3>2, <4>1, <4>2
    <3>. QED  BY <3>2, <3>3, <3>5 DEF t
  <2>. QED  BY <2>3, <2>4
<1>5. Good(K[Len(cs)], Len(cs))
  <2>1. T \in SUBSET Nat
    OBVIOUS
  <2>2. T = Nat
    <3>. HIDE DEF T
    <3>. QED  BY <1>3, <1>4, <2>1, Induction
  <2>. QED  BY <1>1, <2>2
<1>. HIDE DEF K
<1>6. DOMAIN K[Len(cs)] = 1..Len(K[Len(cs)])
  BY <1>5
<1>. QED  BY <1>5, <1>6 DEF K

\* The list that UpdateStatus writes.
LEMMA UpdatedFacts ==
  ASSUME NEW cs \in Seq(Condition), NEW m \in Messages, OneEach(cs), ~UpToDate(cs, m)
  PROVE  /\ Updated(cs, m) \in Seq(Condition)
         /\ OneEach(Updated(cs, m)) /\ OnlyLastTrue(Updated(cs, m))
         /\ Updated(cs, m) # <<>> /\ Updated(cs, m)[Len(Updated(cs, m))] = Reported(m)
<1>. DEFINE s == Kept(cs, m)[Len(cs)]
            u == Updated(cs, m)
<1>1. /\ s \in Seq(Condition) /\ OneEach(s)
      /\ \A j \in DOMAIN s : s[j].type # TypeOf(m) /\ ~s[j].status
  BY KeptIsLowered
<1>2. u = Append(s, Reported(m))
  BY DEF Updated
<1>. HIDE DEF s, u
<1>3. Reported(m) \in Condition /\ Reported(m).type = TypeOf(m)
  BY ReportedType
<1>4. /\ u \in Seq(Condition) /\ Len(u) = Len(s) + 1 /\ Len(s) \in Nat
      /\ u[Len(s) + 1] = Reported(m) /\ \A j \in 1..Len(s) : u[j] = s[j]
      /\ DOMAIN u = 1..Len(u) /\ DOMAIN s = 1..Len(s)
  BY <1>1, <1>2, <1>3, AppendProperties
<1>5. OneEach(u)
  <2>. SUFFICES ASSUME NEW i \in 1..Len(u), NEW j \in 1..Len(u), u[i].type = u[j].type
                PROVE  i = j
    BY <1>4 DEF OneEach
  <2>1. CASE i \in 1..Len(s) /\ j \in 1..Len(s)
    BY <1>1, <1>4, <2>1 DEF OneEach
  <2>2. \A k \in 1..Len(s) : u[k].type # u[Len(s) + 1].type
    BY <1>1, <1>3, <1>4
  <2>3. CASE i = Len(s) + 1 \/ j = Len(s) + 1
    BY <1>4, <2>2, <2>3
  <2>. QED  BY <1>4, <2>1, <2>3
<1>6. OnlyLastTrue(u)
  <2>. SUFFICES ASSUME NEW i \in 1..Len(u), u[i].status, i # Len(u) PROVE FALSE
    BY <1>4 DEF OnlyLastTrue
  <2>1. i \in 1..Len(s)
    BY <1>4
  <2>. QED  BY <1>1, <1>4, <2>1
<1>7. u # <<>> /\ u[Len(u)] = Reported(m)
  BY <1>4
<1>. QED  BY <1>4, <1>5, <1>6, <1>7 DEF u

-----------------------------------------------------------------------------
(* The inductive invariant.                                                *)

LEMMA InitIndInv == Init => IndInv
<1>. SUFFICES ASSUME Init PROVE IndInv
  OBVIOUS
<1>1. /\ conditions \in Seq(Condition) /\ Len(conditions) \in 0..1
      /\ DOMAIN conditions = 1..Len(conditions)
  <2>1. CASE conditions = <<>>
    BY <2>1
  <2>2. CASE conditions # <<>>
    <3>1. PICK t \in Foreign : conditions = <<[type |-> t, status |-> TRUE, message |-> "other"]>>
      BY <2>2 DEF Init
    <3>2. [type |-> t, status |-> TRUE, message |-> "other"] \in Condition
      BY DEF Condition, Types
    <3>. QED  BY <3>1, <3>2
  <2>. QED  BY <2>1, <2>2
<1>2. TypeOK
  <2>1. computed \in Seq(Condition)
    BY DEF Init
  <2>. QED  BY <1>1, <2>1 DEF Init, TypeOK
<1>3. OneConditionPerType /\ TrueIsLast
  BY <1>1 DEF OneConditionPerType, TrueIsLast, OneEach, OnlyLastTrue
<1>4. WriteInv
  BY DEF Init, WriteInv
<1>. QED  BY <1>2, <1>3, <1>4 DEF IndInv

\* Whoever reports, only Get and a successful write touch the lists.
LEMMA GetIndInv ==
  ASSUME IndInv, Get
  PROVE  IndInv'
<1>1. /\ conditions \in Seq(Condition) /\ OneEach(conditions) /\ message \in Messages
      /\ ~UpToDate(conditions, message) /\ computed' = Updated(conditions, message)
      /\ UNCHANGED <<conditions, message>>
  BY DEF Get, IndInv, TypeOK, OneConditionPerType
<1>2. /\ computed' \in Seq(Condition) /\ OneEach(computed') /\ OnlyLastTrue(computed')
      /\ computed' # <<>> /\ computed'[Len(computed')] = Reported(message)
  BY <1>1, UpdatedFacts
<1>3. TypeOK'
  BY <1>1, <1>2 DEF Get, IndInv, TypeOK
<1>4. OneConditionPerType' /\ TrueIsLast'
  BY <1>1 DEF IndInv, OneConditionPerType, TrueIsLast
<1>5. WriteInv'
  BY <1>1, <1>2 DEF WriteInv
<1>. QED  BY <1>3, <1>4, <1>5 DEF IndInv

LEMMA NextIndInv == IndInv /\ [Next]_vars => IndInv'
<1>. SUFFICES ASSUME IndInv, [Next]_vars PROVE IndInv'
  OBVIOUS
<1>. USE DEF IndInv, TypeOK, OneConditionPerType, TrueIsLast, WriteInv
<1>0. ASSUME NEW m \in Messages, Call(m)
      PROVE  IndInv'
  BY <1>0 DEF Call
<1>1. CASE GetFails \/ GetIsEnough
  BY <1>1 DEF GetFails, GetIsEnough, Return
<1>2. CASE UpdateSucceeds
  BY <1>2 DEF UpdateSucceeds, Return
<1>3. CASE UpdateConflicts
  BY <1>3 DEF UpdateConflicts, Return
<1>4. CASE UpdateFails
  <2>1. conditions' = conditions \/ conditions' = computed
    BY <1>4 DEF UpdateFails
  <2>. QED  BY <1>4, <2>1 DEF UpdateFails, Return
<1>5. CASE OtherWrites
  BY <1>5 DEF OtherWrites
<1>6. CASE UNCHANGED vars
  BY <1>6 DEF vars
<1>. QED  BY <1>0, <1>1, <1>2, <1>3, <1>4, <1>5, <1>6, GetIndInv DEF Next

\* The inductive invariant holds in every reachable state.
THEOREM Invariance == Spec => []IndInv
  BY InitIndInv, NextIndInv, PTL DEF Spec

\* The list of conditions never has two of one type, however many reports there
\* are and whichever of them are rejected or lost.
THEOREM ListDoesNotGrow == Spec => []OneConditionPerType
<1>1. IndInv => OneConditionPerType
  BY DEF IndInv
<1>. QED  BY <1>1, Invariance, PTL

\* At most one condition is True, and it is the last one.
THEOREM OneIsTrue == Spec => []TrueIsLast
<1>1. IndInv => TrueIsLast
  BY DEF IndInv
<1>. QED  BY <1>1, Invariance, PTL

-----------------------------------------------------------------------------
(* UpdateStatus keeps the promise of AddonStatus.                          *)

\* The message in force, if the last condition is one that is reported.
LEMMA StatusOf ==
  ASSUME NEW m \in Messages, NEW i \in DOMAIN conditions, conditions[i] = Reported(m), TrueIsLast
  PROVE  Status = m
<1>. DEFINE true == {l \in DOMAIN conditions :
                       conditions[l].status /\ conditions[l].type \in {"Degraded", "Available"}}
<1>1. i \in true
  BY DEF Reported, TypeOf
<1>2. \A l \in true : l = i
  BY <1>1 DEF TrueIsLast, OnlyLastTrue
<1>3. true = {i}
  BY <1>1, <1>2
<1>4. Status = IF true = {} THEN "unset" ELSE conditions[CHOOSE l \in true : TRUE].message
  BY DEF Status
<1>. HIDE DEF true
<1>5. Status = conditions[i].message
  BY <1>3, <1>4
<1>. QED  BY <1>5 DEF Reported

LEMMA InitRefines == Init => Abstract!Init
<1>. SUFFICES ASSUME Init PROVE Status = "unset"
  BY DEF Init, Abstract!Init
<1>1. \A i \in DOMAIN conditions : conditions[i].type \notin {"Degraded", "Available"}
  BY StatusReportAssumption DEF Init
<1>. QED  BY <1>1 DEF Status

\* What is written is the report.
LEMMA WriteRefines ==
  ASSUME IndInv, IndInv', pc = "update", conditions' = computed
  PROVE  Status' = message /\ message \in Messages
<1>. DEFINE n == Len(computed)
<1>1. n \in DOMAIN computed /\ computed[n] = Reported(message) /\ message \in Messages
  <2>1. computed \in Seq(Condition) /\ computed # <<>>
    BY DEF IndInv, TypeOK, WriteInv
  <2>2. Len(computed) \in Nat \ {0} /\ DOMAIN computed = 1..Len(computed)
    BY <2>1, EmptySeq, LenProperties
  <2>. QED  BY <2>2 DEF IndInv, TypeOK, WriteInv
<1>2. OnlyLastTrue(computed)
  BY DEF IndInv, WriteInv
<1>. DEFINE true == {l \in DOMAIN computed :
                       computed[l].status /\ computed[l].type \in {"Degraded", "Available"}}
<1>3. n \in true
  BY <1>1 DEF Reported, TypeOf
<1>4. \A l \in true : l = n
  BY <1>2, <1>3 DEF OnlyLastTrue
<1>5. true = {n}
  BY <1>3, <1>4
<1>6. Status' = IF true = {} THEN "unset" ELSE computed[CHOOSE l \in true : TRUE].message
  BY DEF Status
<1>. HIDE DEF true
<1>7. Status' = computed[n].message
  BY <1>5, <1>6
<1>. QED  BY <1>1, <1>7 DEF Reported

LEMMA MessagesAreCalls == \A m \in Messages : m # "none"
  BY DEF Messages, Degraded, Available

LEMMA NextRefines ==
  ASSUME IndInv, IndInv', [Next]_vars
  PROVE  [Abstract!Next]_(Abstract!vars)
<1>. USE DEF Abstract!Next, Abstract!vars
<1>0. message \in Messages /\ message # "none"
  BY MessagesAreCalls DEF IndInv, TypeOK
<1>1. ASSUME UNCHANGED conditions PROVE Status' = Status
  BY <1>1 DEF Status
<1>2. ASSUME pc \in {"get", "update"}, pc' = "idle",
             \/ Status' = message /\ stale' = FALSE
             \/ Status' \in {Status, message} /\ stale' = TRUE
      PROVE  Abstract!Return
  BY <1>0, <1>2 DEF Abstract!Return
<1>3. ASSUME NEW m \in Messages, Call(m)
      PROVE  Abstract!Call(m)
  BY <1>1, <1>3 DEF Call, Abstract!Call
<1>4. CASE GetFails
  BY <1>1, <1>2, <1>4 DEF GetFails, Return
<1>5. CASE GetIsEnough
  <2>1. Status = message
    <3>1. PICK i \in DOMAIN conditions : conditions[i] = Reported(message)
      BY <1>5 DEF GetIsEnough, UpToDate
    <3>. QED  BY <1>0, <3>1, StatusOf DEF IndInv
  <2>. QED  BY <1>1, <1>2, <1>5, <2>1 DEF GetIsEnough, Return
<1>6. CASE Get
  BY <1>1, <1>6 DEF Get
<1>7. CASE UpdateSucceeds
  <2>1. Status' = message
    BY <1>7, WriteRefines DEF UpdateSucceeds
  <2>. QED  BY <1>2, <1>7, <2>1 DEF UpdateSucceeds, Return
<1>8. CASE UpdateConflicts
  BY <1>1, <1>2, <1>8 DEF UpdateConflicts, Return
<1>9. CASE UpdateFails
  <2>1. Status' \in {Status, message}
    BY <1>1, <1>9, WriteRefines DEF UpdateFails
  <2>. QED  BY <1>2, <1>9, <2>1 DEF UpdateFails, Return
<1>10. CASE OtherWrites \/ UNCHANGED vars
  BY <1>1, <1>10 DEF OtherWrites, vars
<1>. QED  BY <1>3, <1>4, <1>5, <1>6, <1>7, <1>8, <1>9, <1>10 DEF Next

\* For its caller UpdateStatus is a call with one message that is in force when
\* the call returns without an error, although it reads, recomputes and writes a
\* list in an object that others write to: an error that were swallowed, or a
\* report that were lost, would leave another message in force.
THEOREM Refinement == Spec => ImplementsAddonStatus
  BY InitRefines, NextRefines, Invariance, PTL
  DEF Spec, ImplementsAddonStatus, Abstract!Spec
=============================================================================
