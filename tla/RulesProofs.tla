----------------------------- MODULE RulesProofs -----------------------------
(***************************************************************************)
(* Proofs about Rules, for any flags, any match file and any number of     *)
(* reloads.                                                                *)
(*                                                                         *)
(* What is forwarded of the recording rules needs no assumption about the  *)
(* arrays.  That the rules in use stay, and are those that the flags and   *)
(* the file give, is proved if no file fits behind the flags (NoRoom);     *)
(* otherwise it fails.                                                     *)
(***************************************************************************)
EXTENDS Rules, SequenceTheorems, WellFoundedInduction, TLAPS

-----------------------------------------------------------------------------
(* Induction and recursion.                                                *)

LEMMA LeastNatural ==
  ASSUME NEW T \in SUBSET Nat, T # {}
  PROVE  \E x \in T : \A y \in T : x <= y
<1>. DEFINE R == OpToRel(<, Nat)
<1>1. IsWellFoundedOn(R, Nat)
  BY NatLessThanWellFounded
<1>2. \A x, y \in Nat : <<y, x>> \in R <=> y < x
  BY DEF OpToRel
<1>. HIDE DEF R
<1>3. PICK x \in T : \A y \in T : ~ (<<y, x>> \in R)
  BY <1>1, WFMin
<1>4. ASSUME NEW y \in T PROVE x <= y
  <2>1. x \in Nat /\ y \in Nat
    OBVIOUS
  <2>2. ~ (y < x)
    BY <1>2, <1>3, <2>1
  <2>. QED  BY <2>1, <2>2
<1>. QED  BY <1>4

LEMMA Induction ==
  ASSUME NEW T \in SUBSET Nat, 0 \in T, \A m \in T : m + 1 \in T
  PROVE  T = Nat
<1>. SUFFICES ASSUME Nat \ T # {} PROVE FALSE
  OBVIOUS
<1>1. PICK x \in Nat \ T : \A y \in Nat \ T : x <= y
  BY LeastNatural
<1>2. x - 1 \in Nat /\ x - 1 \in T
  BY <1>1
<1>. QED  BY <1>1, <1>2

\* A function can be defined by what it does at 0 and how it goes on.
IsDefined(S, a, n, step) ==
  \E g \in [0..n -> S] : g[0] = a /\ \A m \in 1..n : g[m] = step[m][g[m - 1]]

LEMMA Recursion ==
  ASSUME NEW S, NEW a \in S, NEW n \in Nat, NEW step \in [1..n -> [S -> S]]
  PROVE  IsDefined(S, a, n, step)
<1>. DEFINE Goes(g, m) == g[0] = a /\ \A l \in 1..m : g[l] = step[l][g[l - 1]]
            T == {m \in Nat : m <= n => \E g \in [0..m -> S] : Goes(g, m)}
<1>1. 0 \in T
  <2>. DEFINE g == [l \in 0..0 |-> a]
  <2>1. g \in [0..0 -> S] /\ Goes(g, 0)
    OBVIOUS
  <2>. HIDE DEF g
  <2>. QED  BY <2>1
<1>2. ASSUME NEW m \in T PROVE m + 1 \in T
  <2>. SUFFICES ASSUME m + 1 <= n PROVE \E h \in [0..(m + 1) -> S] : Goes(h, m + 1)
    <3>. HIDE DEF Goes
    <3>. QED  OBVIOUS
  <2>1. PICK g \in [0..m -> S] : Goes(g, m)
    BY <1>2
  <2>2. m \in Nat /\ m + 1 \in 1..n /\ g[m] \in S
    BY <2>1
  <2>. DEFINE h == [l \in 0..(m + 1) |-> IF l = m + 1 THEN step[m + 1][g[m]] ELSE g[l]]
  <2>3. h \in [0..(m + 1) -> S]
    BY <2>1, <2>2
  <2>4. h[m + 1] = step[m + 1][g[m]] /\ \A l \in 0..m : h[l] = g[l]
    BY <2>2
  <2>. HIDE DEF h
  <2>5. ASSUME NEW l \in 1..(m + 1) PROVE h[l] = step[l][h[l - 1]]
    <3>1. CASE l = m + 1
      BY <2>2, <2>4, <3>1
    <3>2. CASE l # m + 1
      <4>1. l \in 1..m /\ l \in 0..m /\ l - 1 \in 0..m
        BY <2>2, <3>2
      <4>. QED  BY <2>1, <2>4, <4>1
    <3>. QED  BY <3>1, <3>2
  <2>6. Goes(h, m + 1)
    BY <2>1, <2>2, <2>4, <2>5
  <2>. QED  BY <2>3, <2>6
<1>. HIDE DEF Goes
<1>3. n \in T
  <2>1. T \in SUBSET Nat
    OBVIOUS
  <2>. HIDE DEF T
  <2>. QED  BY <1>1, <1>2, <2>1, Induction
<1>. QED  BY <1>3 DEF Goes, IsDefined

-----------------------------------------------------------------------------
(* The strings that are not dropped.                                       *)

LEMMA UpToRecursion ==
  ASSUME NEW S, NEW strings, strings \in Seq(S), NEW drop
  PROVE  /\ UpTo(strings, drop)[0] = <<>>
         /\ \A n \in 1..Len(strings) :
              UpTo(strings, drop)[n] = IF strings[n] \in drop THEN UpTo(strings, drop)[n - 1]
                                       ELSE Append(UpTo(strings, drop)[n - 1], strings[n])
<1>. DEFINE size == Len(strings)
            Q == Seq(S)
            round(n, s) == IF strings[n] \in drop THEN s ELSE Append(s, strings[n])
            step == [n \in 1..size |-> [s \in Q |-> round(n, s)]]
            Body(f) == [n \in 0..size |-> IF n = 0 THEN <<>>
                                       ELSE IF strings[n] \in drop THEN f[n - 1]
                                            ELSE Append(f[n - 1], strings[n])]
<1>0. size \in Nat /\ <<>> \in Q
  OBVIOUS
<1>1. \A n \in 1..size : strings[n] \in S
  OBVIOUS
<1>2. step \in [1..size -> [Q -> Q]]
  BY <1>1
<1>3. PICK g \in [0..size -> Q] : g[0] = <<>> /\ \A n \in 1..size : g[n] = step[n][g[n - 1]]
  <2>. HIDE DEF step, size, Q, Body
  <2>1. IsDefined(Q, <<>>, size, step)
    BY ONLY <1>0, <1>2, Recursion
  <2>. QED  BY ONLY <2>1 DEF IsDefined
<1>4. ASSUME NEW n \in 1..size PROVE g[n] = round(n, g[n - 1])
  <2>1. n - 1 \in 0..size /\ g[n - 1] \in Q
    BY <1>0
  <2>. QED  BY <1>3, <2>1
<1>5. g = Body(g)
  <2>1. ASSUME NEW n \in 0..size PROVE g[n] = IF n = 0 THEN <<>> ELSE round(n, g[n - 1])
    <3>1. CASE n = 0
      BY <1>3, <3>1
    <3>2. CASE n # 0
      <4>1. n \in 1..size
        BY <1>0, <3>2
      <4>. QED  BY <1>4, <3>2, <4>1
    <3>. QED  BY <3>1, <3>2
  <2>2. g = [n \in 0..size |-> g[n]]
    BY <1>3
  <2>. HIDE DEF size
  <2>. QED  BY <2>1, <2>2
<1>6. UpTo(strings, drop) = CHOOSE f : f = Body(f)
  BY DEF UpTo
<1>. DEFINE U == UpTo(strings, drop)
<1>7. U = Body(U)
  <2>. HIDE DEF Body
  <2>. QED  BY <1>5, <1>6
<1>. HIDE DEF U
<1>8. U[0] = <<>> /\ \A n \in 1..size : U[n] = round(n, U[n - 1])
  <2>1. U[0] = <<>>
    BY <1>0, <1>7
  <2>2. ASSUME NEW n \in 1..size PROVE U[n] = round(n, U[n - 1])
    <3>1. n \in 0..size /\ n # 0
      BY <1>0
    <3>. QED  BY <1>7, <3>1
  <2>. QED  BY <2>1, <2>2
<1>. QED  BY <1>8 DEF U

LEMMA UpToType ==
  ASSUME NEW S, NEW strings \in Seq(S), NEW drop, NEW n \in 0..Len(strings)
  PROVE  UpTo(strings, drop)[n] \in Seq(S \ drop) /\ Len(UpTo(strings, drop)[n]) <= n
<1>. DEFINE U == UpTo(strings, drop)
            Good(l) == U[l] \in Seq(S \ drop) /\ Len(U[l]) <= l
            T == {l \in Nat : l <= Len(strings) => Good(l)}
<1>1. U[0] = <<>> /\ \A l \in 1..Len(strings) :
        U[l] = IF strings[l] \in drop THEN U[l - 1] ELSE Append(U[l - 1], strings[l])
  BY UpToRecursion
<1>. HIDE DEF U
<1>2. 0 \in T
  <2>1. <<>> \in Seq(S \ drop) /\ Len(<<>>) <= 0
    OBVIOUS
  <2>2. Good(0)
    BY ONLY <1>1, <2>1
  <2>. QED  BY <2>2
<1>3. ASSUME NEW l \in T PROVE l + 1 \in T
  <2>. SUFFICES ASSUME l + 1 <= Len(strings) PROVE Good(l + 1)
    OBVIOUS
  <2>1. l \in Nat /\ l + 1 \in 1..Len(strings) /\ (l + 1) - 1 = l /\ Good(l) /\ strings[l + 1] \in S
    OBVIOUS
  <2>2. U[l + 1] = IF strings[l + 1] \in drop THEN U[l] ELSE Append(U[l], strings[l + 1])
    BY <1>1, <2>1
  <2>. QED  BY <2>1, <2>2
<1>4. T = Nat
  <2>1. T \in SUBSET Nat
    OBVIOUS
  <2>. HIDE DEF T
  <2>. QED  BY <1>2, <1>3, <2>1, Induction
<1>5. n \in T /\ n <= Len(strings)
  BY <1>4
<1>. QED  BY <1>5 DEF U

\* The last string, if it stays, is the last of those that stay.
LEMMA LastStays ==
  ASSUME NEW S, NEW strings \in Seq(S), strings # <<>>, NEW drop, Last(strings) \notin drop
  PROVE  /\ Without(strings, drop) \in Seq(S) /\ Without(strings, drop) # <<>>
         /\ Last(Without(strings, drop)) = Last(strings)
<1>. DEFINE n == Len(strings)
            s == UpTo(strings, drop)[n - 1]
<1>1. n \in 1..Len(strings) /\ n - 1 \in 0..Len(strings) /\ strings[n] \in S
  OBVIOUS
<1>2. s \in Seq(S)
  <2>1. s \in Seq(S \ drop)
    BY <1>1, UpToType
  <2>. HIDE DEF s
  <2>. QED  BY <2>1
<1>3. UpTo(strings, drop)[n] = IF strings[n] \in drop THEN s ELSE Append(s, strings[n])
  BY <1>1, UpToRecursion
<1>. DEFINE w == Append(s, strings[n])
<1>4. Without(strings, drop) = w
  BY <1>3 DEF Without, Last
<1>. HIDE DEF s
<1>5. w \in Seq(S) /\ Len(w) = Len(s) + 1 /\ w[Len(s) + 1] = strings[n] /\ Len(s) \in Nat
  BY <1>1, <1>2
<1>. HIDE DEF w
<1>6. w # <<>>
  BY <1>5
<1>. QED  BY <1>4, <1>5, <1>6 DEF Last

LEMMA WithoutType ==
  ASSUME NEW S, NEW strings \in Seq(S), NEW drop
  PROVE  Without(strings, drop) \in Seq(S \ drop) /\ Len(Without(strings, drop)) <= Len(strings)
<1>1. Len(strings) \in 0..Len(strings)
  OBVIOUS
<1>. QED  BY <1>1, UpToType DEF Without

LEMMA TrimmedType ==
  ASSUME NEW strings \in Seq(Strings)
  PROVE  /\ Trimmed(strings) \in Seq({s \in Strings : Trim[s] = s})
         /\ Trimmed(strings) \in Seq(Strings)
         /\ Len(Trimmed(strings)) = Len(strings)
         /\ \A p \in 1..Len(strings) : Trimmed(strings)[p] = Trim[strings[p]]
<1>1. \A p \in 1..Len(strings) : strings[p] \in Strings
  OBVIOUS
<1>2. \A p \in 1..Len(strings) : Trim[strings[p]] \in {s \in Strings : Trim[s] = s}
  BY <1>1, RulesAssumption
<1>3. DOMAIN strings = 1..Len(strings) /\ Len(strings) \in Nat
  OBVIOUS
<1>. QED  BY <1>2, <1>3 DEF Trimmed

\* The rules that should be there, of the first n.
LEMMA KeptRecursion ==
  ASSUME NEW strings \in Seq(Strings)
  PROVE  /\ KeptUpTo(strings)[0] = <<>>
         /\ \A n \in 1..Len(strings) :
              /\ Trim[strings[n]] = Blank => KeptUpTo(strings)[n] = KeptUpTo(strings)[n - 1]
              /\ Trim[strings[n]] # Blank =>
                   KeptUpTo(strings)[n] = Append(KeptUpTo(strings)[n - 1], Trim[strings[n]])
<1>. DEFINE T == Trimmed(strings)
            B == {Blank}
<1>1. T \in Seq(Strings) /\ Len(T) = Len(strings) /\ \A n \in 1..Len(strings) : T[n] = Trim[strings[n]]
  BY TrimmedType
<1>2. \A s : s \in B <=> s = Blank
  OBVIOUS
<1>3. KeptUpTo(strings) = UpTo(T, B)
  BY DEF KeptUpTo
<1>. HIDE DEF T, B
<1>4. /\ UpTo(T, B)[0] = <<>>
      /\ \A n \in 1..Len(strings) :
           UpTo(T, B)[n] = IF T[n] \in B THEN UpTo(T, B)[n - 1] ELSE Append(UpTo(T, B)[n - 1], T[n])
  BY <1>1, UpToRecursion
<1>. QED  BY <1>1, <1>2, <1>3, <1>4

\* They are trimmed and not blank.
LEMMA KeptUpToType ==
  ASSUME NEW strings \in Seq(Strings), NEW n \in 0..Len(strings)
  PROVE  /\ KeptUpTo(strings)[n] \in Seq(Strings) /\ Len(KeptUpTo(strings)[n]) <= n
         /\ \A p \in 1..Len(KeptUpTo(strings)[n]) :
              KeptUpTo(strings)[n][p] # Blank
              /\ Trim[KeptUpTo(strings)[n][p]] = KeptUpTo(strings)[n][p]
<1>. DEFINE S == {s \in Strings : Trim[s] = s}
            K == KeptUpTo(strings)[n]
            T == Trimmed(strings)
            B == {Blank}
<1>1. T \in Seq(S) /\ Len(T) = Len(strings)
  BY TrimmedType
<1>2. K = UpTo(T, B)[n]
  BY DEF KeptUpTo
<1>3. UpTo(T, B)[n] \in Seq(S \ B) /\ Len(UpTo(T, B)[n]) <= n
  <2>. HIDE DEF S, T, B
  <2>. QED  BY <1>1, UpToType
<1>. HIDE DEF K, T
<1>4. \A p \in 1..Len(K) : K[p] \in S \ B
  BY <1>2, <1>3
<1>5. K \in Seq(Strings)
  BY <1>2, <1>3
<1>. QED  BY <1>2, <1>3, <1>4, <1>5 DEF K

LEMMA KeptType ==
  ASSUME NEW strings \in Seq(Strings)
  PROVE  /\ Kept(strings) \in Seq(Strings) /\ Len(Kept(strings)) <= Len(strings)
         /\ Len(strings) \in Nat /\ Len(Kept(strings)) \in Nat
         /\ \A p \in 1..Len(Kept(strings)) :
              Kept(strings)[p] \in Strings
              /\ Kept(strings)[p] # Blank /\ Trim[Kept(strings)[p]] = Kept(strings)[p]
<1>1. Len(strings) \in 0..Len(strings)
  OBVIOUS
<1>2. /\ Kept(strings) \in Seq(Strings) /\ Len(Kept(strings)) <= Len(strings)
      /\ \A p \in 1..Len(Kept(strings)) :
           Kept(strings)[p] # Blank /\ Trim[Kept(strings)[p]] = Kept(strings)[p]
  BY <1>1, KeptUpToType DEF Kept
<1>. QED  BY <1>1, <1>2

\* If the last rule is not blank, it is the last of those that should be there.
LEMMA LastKept ==
  ASSUME NEW strings \in Seq(Strings), strings # <<>>, Trim[Last(strings)] # Blank
  PROVE  Kept(strings) # <<>> /\ Kept(strings)[Len(Kept(strings))] = Trim[Last(strings)]
<1>. DEFINE n == Len(strings)
            K == KeptUpTo(strings)[n - 1]
            x == Trim[strings[n]]
<1>1. n \in 1..Len(strings) /\ n - 1 \in 0..Len(strings) /\ strings[n] \in Strings
  OBVIOUS
<1>2. K \in Seq(Strings) /\ x \in Strings
  BY <1>1, KeptUpToType, RulesAssumption
<1>3. Kept(strings) = Append(K, x)
  BY <1>1, KeptRecursion DEF Kept, Last
<1>. HIDE DEF K, x
<1>4. Append(K, x) \in Seq(Strings) /\ Len(Append(K, x)) = Len(K) + 1
      /\ Append(K, x)[Len(K) + 1] = x /\ Len(K) \in Nat
  BY <1>2
<1>5. Append(K, x) # <<>>
  BY <1>4
<1>. QED  BY <1>3, <1>4, <1>5 DEF Last, x

-----------------------------------------------------------------------------
(* Sequences that repeat some of the elements of another.                  *)

LEMMA RepeatsItself ==
  ASSUME NEW S, NEW s \in Seq(S)
  PROVE  RepeatsOf(s, s)
BY DEF RepeatsOf, IsPrefix

LEMMA RepeatsMore ==
  ASSUME NEW S, NEW s \in Seq(S), NEW t \in Seq(S), RepeatsOf(s, t),
         NEW p \in 1..Len(t)
  PROVE  RepeatsOf(Append(s, t[p]), t)
<1>. DEFINE x == t[p]
            w == Append(s, x)
<1>1. x \in S /\ x \in ToSet(t)
  BY DEF ToSet
<1>2. Len(s) \in Nat /\ Len(t) \in Nat /\ Len(t) <= Len(s)
      /\ SubSeq(t, 1, Len(t)) = SubSeq(s, 1, Len(t)) /\ ToSet(s) = ToSet(t)
  BY DEF RepeatsOf, IsPrefix
<1>. HIDE DEF x
<1>3. w \in Seq(S) /\ Len(w) = Len(s) + 1 /\ w[Len(s) + 1] = x
      /\ \A q \in 1..Len(s) : w[q] = s[q]
  BY <1>1
<1>. HIDE DEF w
<1>4. SubSeq(w, 1, Len(t)) = SubSeq(s, 1, Len(t))
  <2>1. SubSeq(w, 1, Len(t)) \in Seq(S) /\ Len(SubSeq(w, 1, Len(t))) = Len(t)
        /\ SubSeq(s, 1, Len(t)) \in Seq(S) /\ Len(SubSeq(s, 1, Len(t))) = Len(t)
    BY <1>2, <1>3
  <2>2. \A q \in 1..Len(t) : SubSeq(w, 1, Len(t))[q] = SubSeq(s, 1, Len(t))[q]
    BY <1>2, <1>3
  <2>. QED  BY <2>1, <2>2, SeqEqual
<1>5. ToSet(w) = ToSet(s) \cup {x}
  <2>1. DOMAIN w = 1..(Len(s) + 1) /\ DOMAIN s = 1..Len(s)
    BY <1>3
  <2>2. ASSUME NEW q \in 1..(Len(s) + 1) PROVE w[q] \in ToSet(s) \cup {x}
    <3>1. q = Len(s) + 1 \/ q \in 1..Len(s)
      BY <1>2
    <3>. QED  BY <1>3, <2>1, <3>1 DEF ToSet
  <2>3. \A q \in 1..Len(s) : q \in 1..(Len(s) + 1) /\ w[q] = s[q]
    BY <1>2, <1>3
  <2>4. Len(s) + 1 \in 1..(Len(s) + 1)
    BY <1>2
  <2>. QED  BY <1>3, <2>1, <2>2, <2>3, <2>4 DEF ToSet
<1>6. ToSet(w) = ToSet(t)
  BY <1>1, <1>2, <1>5
<1>7. Len(t) <= Len(w)
  BY <1>2, <1>3
<1>. QED  BY <1>2, <1>4, <1>6, <1>7 DEF RepeatsOf, IsPrefix, w, x

\* The rules that are there, if they are clamped to those that should be there.
LEMMA RepeatsClamped ==
  ASSUME NEW S, NEW s \in Seq(S), NEW t \in Seq(S), Len(t) <= Len(s), t = <<>> => s = <<>>,
         \A p \in 1..Len(s) : s[p] = t[Clamp(p, t)]
  PROVE  RepeatsOf(s, t)
<1>1. Len(s) \in Nat /\ Len(t) \in Nat /\ DOMAIN s = 1..Len(s) /\ DOMAIN t = 1..Len(t)
  OBVIOUS
<1>2. SubSeq(t, 1, Len(t)) = SubSeq(s, 1, Len(t))
  <2>1. SubSeq(t, 1, Len(t)) \in Seq(S) /\ Len(SubSeq(t, 1, Len(t))) = Len(t)
        /\ SubSeq(s, 1, Len(t)) \in Seq(S) /\ Len(SubSeq(s, 1, Len(t))) = Len(t)
    BY <1>1
  <2>2. \A p \in 1..Len(t) : s[p] = t[p]
    BY <1>1 DEF Clamp
  <2>3. \A p \in 1..Len(t) : SubSeq(t, 1, Len(t))[p] = SubSeq(s, 1, Len(t))[p]
    BY <1>1, <2>2
  <2>. QED  BY <2>1, <2>3, SeqEqual
<1>3. ToSet(s) \subseteq ToSet(t)
  <2>. SUFFICES ASSUME NEW p \in 1..Len(s) PROVE s[p] \in ToSet(t)
    BY <1>1 DEF ToSet
  <2>1. s # <<>> /\ Len(t) >= 1
    BY <1>1
  <2>2. Clamp(p, t) \in 1..Len(t)
    BY <1>1, <2>1 DEF Clamp
  <2>. QED  BY <1>1, <2>2 DEF ToSet
<1>4. ToSet(t) \subseteq ToSet(s)
  <2>. SUFFICES ASSUME NEW p \in 1..Len(t) PROVE t[p] \in ToSet(s)
    BY <1>1 DEF ToSet
  <2>1. p \in 1..Len(s) /\ Clamp(p, t) = p
    BY <1>1 DEF Clamp
  <2>. QED  BY <1>1, <2>1 DEF ToSet
<1>. QED  BY <1>2, <1>3, <1>4 DEF RepeatsOf, IsPrefix

-----------------------------------------------------------------------------
(* The loop over the rules, alone with its array.                          *)

LEMMA LoopedStart ==
  ASSUME NEW raw \in Seq(Strings), NEW elements \in Seq(Strings),
         \A p \in 1..Len(raw) : elements[p] = raw[p]
  PROVE  Looped(elements, raw, Len(raw), 1)
<1>1. Len(raw) \in Nat
  OBVIOUS
<1>3. KeptUpTo(raw)[0] = <<>>
  BY KeptRecursion
<1>4. 1 + (Len(raw) - Len(raw)) - 1 = 0 /\ Len(<<>>) = 1 - 1
  BY <1>1
<1>5. \A p \in 1..Len(raw) :
        (IF p + (Len(raw) - Len(raw)) <= Len(raw) THEN p + (Len(raw) - Len(raw)) ELSE Len(raw)) = p
  BY <1>1
<1>. QED  BY <1>1, <1>3, <1>4, <1>5 DEF Looped

LEMMA LoopedKeep ==
  ASSUME NEW raw \in Seq(Strings), NEW elements \in Seq(Strings), NEW len \in Nat,
         NEW i \in Nat \ {0}, Len(raw) <= Len(elements),
         Looped(elements, raw, len, i), i <= len, Trim[elements[i]] # Blank
  PROVE  Looped([elements EXCEPT ![i] = Trim[elements[i]]], raw, len, i + 1)
<1>. DEFINE moved == Len(raw) - len
            U == KeptUpTo(raw)
            kept == U[i + moved - 1]
            x == Trim[elements[i]]
            e == [elements EXCEPT ![i] = x]
<1>0. Len(raw) \in Nat
  OBVIOUS
<1>1. /\ len <= Len(raw)
      /\ Len(kept) = i - 1
      /\ \A p \in 1..(i - 1) : elements[p] = kept[p]
      /\ \A p \in i..Len(raw) :
           elements[p] = raw[IF p + moved <= Len(raw) THEN p + moved ELSE Len(raw)]
  BY Zenon DEF Looped
<1>2. U[i + moved] = Append(kept, x) /\ kept \in Seq(Strings)
  <2>0. len <= Len(raw)
    BY <1>1
  <2>. DEFINE j == i + moved
  <2>1. j \in 1..Len(raw)
    BY ONLY <1>0, <2>0, i <= len, i \in Nat \ {0}, len \in Nat
  <2>2. elements[i] = raw[j] /\ j - 1 \in 0..Len(raw)
    <3>1. i \in i..Len(raw) /\ i + moved <= Len(raw) /\ j - 1 \in 0..Len(raw)
      BY ONLY <1>0, <2>0, <2>1, i <= len, i \in Nat \ {0}, len \in Nat
    <3>. QED  BY <1>1, <2>1, <3>1
  <2>3. /\ Trim[raw[j]] # Blank => KeptUpTo(raw)[j] = Append(KeptUpTo(raw)[j - 1], Trim[raw[j]])
        /\ KeptUpTo(raw)[j - 1] \in Seq(Strings)
    BY ONLY <2>1, <2>2, raw \in Seq(Strings), KeptRecursion, KeptUpToType
  <2>4. U[j] = Append(U[j - 1], x) /\ U[j - 1] \in Seq(Strings)
    BY ONLY <2>2, <2>3, Trim[elements[i]] # Blank
  <2>. HIDE DEF U, x
  <2>. QED  BY <2>1, <2>4
<1>3. e[i] = x /\ \A p \in 1..Len(raw) : p # i => e[p] = elements[p]
  BY <1>0, <1>1
<1>4. (i + 1) + moved - 1 = i + moved
  BY <1>0, <1>1
<1>. HIDE DEF e, x, U, kept
<1>5. Len(Append(kept, x)) = i /\ Append(kept, x)[i] = x
      /\ \A p \in 1..(i - 1) : Append(kept, x)[p] = kept[p]
  BY <1>0, <1>1, <1>2
<1>6. \A p \in 1..((i + 1) - 1) : e[p] = U[i + moved][p]
  BY <1>0, <1>1, <1>2, <1>3, <1>5
<1>7. \A p \in (i + 1)..Len(raw) :
        e[p] = raw[IF p + moved <= Len(raw) THEN p + moved ELSE Len(raw)]
  BY <1>0, <1>1, <1>3
<1>8. Len(U[i + moved]) = (i + 1) - 1 /\ i + 1 <= len + 1
  BY <1>2, <1>5
<1>9. Len(U[(i + 1) + moved - 1]) = (i + 1) - 1
      /\ \A p \in 1..((i + 1) - 1) : e[p] = U[(i + 1) + moved - 1][p]
  BY <1>4, <1>6, <1>8
<1>. QED  BY <1>0, <1>1, <1>7, <1>8, <1>9 DEF Looped, e, x, U

LEMMA LoopedDrop ==
  ASSUME NEW raw \in Seq(Strings), NEW elements \in Seq(Strings), NEW len \in Nat,
         NEW i \in Nat \ {0}, Len(raw) <= Len(elements),
         Looped(elements, raw, len, i), i <= len, Trim[elements[i]] = Blank
  PROVE  Looped([p \in DOMAIN elements |-> IF i <= p /\ p < len THEN elements[p + 1]
                                           ELSE elements[p]], raw, len - 1, i)
<1>. DEFINE moved == Len(raw) - len
            U == KeptUpTo(raw)
            kept == U[i + moved - 1]
            e == [p \in DOMAIN elements |-> IF i <= p /\ p < len THEN elements[p + 1]
                                           ELSE elements[p]]
<1>0. Len(raw) \in Nat
  OBVIOUS
<1>1. /\ len <= Len(raw)
      /\ Len(kept) = i - 1
      /\ \A p \in 1..(i - 1) : elements[p] = kept[p]
      /\ \A p \in i..Len(raw) :
           elements[p] = raw[IF p + moved <= Len(raw) THEN p + moved ELSE Len(raw)]
  BY Zenon DEF Looped
<1>2. U[i + moved] = kept
  <2>0. len <= Len(raw)
    BY <1>1
  <2>. DEFINE j == i + moved
  <2>1. j \in 1..Len(raw)
    BY ONLY <1>0, <2>0, i <= len, i \in Nat \ {0}, len \in Nat
  <2>2. elements[i] = raw[j]
    <3>1. i \in i..Len(raw) /\ i + moved <= Len(raw)
      BY ONLY <1>0, <2>0, <2>1, i <= len, i \in Nat \ {0}, len \in Nat
    <3>. QED  BY <1>1, <2>1, <3>1
  <2>3. Trim[raw[j]] = Blank => KeptUpTo(raw)[j] = KeptUpTo(raw)[j - 1]
    BY ONLY <2>1, raw \in Seq(Strings), KeptRecursion
  <2>4. U[j] = U[j - 1]
    BY ONLY <2>2, <2>3, Trim[elements[i]] = Blank
  <2>. HIDE DEF U
  <2>. QED  BY <2>1, <2>4
<1>3. \A p \in 1..Len(raw) :
        e[p] = IF i <= p /\ p < len THEN elements[p + 1] ELSE elements[p]
  <2>1. 1..Len(raw) \subseteq DOMAIN elements
    BY <1>0, <1>1
  <2>. QED  BY <2>1
<1>4. Len(raw) - (len - 1) = moved + 1 /\ i + (moved + 1) - 1 = i + moved
  BY <1>0, <1>1
<1>. HIDE DEF e, U
<1>5. \A p \in 1..(i - 1) : e[p] = kept[p]
  <2>. SUFFICES ASSUME NEW p \in 1..(i - 1) PROVE e[p] = elements[p]
    BY <1>0, <1>1
  <2>1. p \in 1..Len(raw) /\ ~ (i <= p)
    BY <1>0, <1>1
  <2>. QED  BY <1>3, <2>1
<1>6. \A p \in i..Len(raw) :
        e[p] = raw[IF p + (moved + 1) <= Len(raw) THEN p + (moved + 1) ELSE Len(raw)]
  <2>. SUFFICES ASSUME NEW p \in i..Len(raw)
                PROVE  e[p] = raw[IF p + (moved + 1) <= Len(raw) THEN p + (moved + 1) ELSE Len(raw)]
    OBVIOUS
  <2>1. p \in 1..Len(raw) /\ p \in Nat /\ moved \in Nat
    BY <1>0, <1>1
  <2>2. CASE p < len
    <3>1. p + 1 \in i..Len(raw) /\ (p + 1) + moved = p + (moved + 1)
      BY <1>0, <1>1, <2>1, <2>2
    <3>2. e[p] = elements[p + 1]
      BY <1>3, <2>1, <2>2
    <3>. QED  BY <1>0, <1>1, <3>1, <3>2
  <2>3. CASE ~ (p < len)
    <3>1. p + moved >= Len(raw) /\ p + (moved + 1) > Len(raw)
      BY <1>0, <1>1, <2>1, <2>3
    <3>2. e[p] = elements[p]
      BY <1>3, <2>1, <2>3
    <3>3. elements[p] = raw[Len(raw)]
      BY <1>0, <1>1, <2>1, <3>1
    <3>. QED  BY <1>0, <1>1, <2>1, <3>1, <3>2, <3>3
  <2>. QED  BY <2>2, <2>3
<1>7. len - 1 <= Len(raw) /\ i <= (len - 1) + 1
  BY <1>0, <1>1
<1>. HIDE DEF moved
<1>8. Len(U[i + (Len(raw) - (len - 1)) - 1]) = i - 1
      /\ \A p \in 1..(i - 1) : e[p] = U[i + (Len(raw) - (len - 1)) - 1][p]
  BY <1>0, <1>1, <1>2, <1>4, <1>5
<1>9. \A p \in i..Len(raw) :
        e[p] = raw[IF p + (Len(raw) - (len - 1)) <= Len(raw) THEN p + (Len(raw) - (len - 1)) ELSE Len(raw)]
  BY <1>4, <1>6
<1>. QED  BY <1>7, <1>8, <1>9 DEF Looped, e, U

\* At its end the loop has kept what it should, and behind that is the last rule.
LEMMA LoopedEnd ==
  ASSUME NEW raw \in Seq(Strings), NEW elements, NEW len \in Nat, NEW i \in Nat \ {0},
         Looped(elements, raw, len, i), i > len
  PROVE  /\ len = Len(Kept(raw))
         /\ \A p \in 1..len : elements[p] = Kept(raw)[p]
         /\ \A p \in (len + 1)..Len(raw) : elements[p] = Last(raw)
<1>. DEFINE moved == Len(raw) - len
<1>0. Len(raw) \in Nat
  OBVIOUS
<1>1. /\ len <= Len(raw) /\ i <= len + 1
      /\ Len(KeptUpTo(raw)[i + moved - 1]) = i - 1
      /\ \A p \in 1..(i - 1) : elements[p] = KeptUpTo(raw)[i + moved - 1][p]
      /\ \A p \in i..Len(raw) :
           elements[p] = raw[IF p + moved <= Len(raw) THEN p + moved ELSE Len(raw)]
  BY Zenon DEF Looped
<1>2. i + moved - 1 = Len(raw) /\ i - 1 = len
  BY <1>0, <1>1
<1>4. Kept(raw) = KeptUpTo(raw)[i + moved - 1]
  BY <1>2 DEF Kept
<1>5. \A p \in (len + 1)..Len(raw) :
        (IF p + moved <= Len(raw) THEN p + moved ELSE Len(raw)) = Len(raw)
  BY <1>0, <1>1
<1>6. i = len + 1
  BY <1>0, <1>1
<1>. QED  BY <1>0, <1>1, <1>2, <1>4, <1>5, <1>6 DEF Last

-----------------------------------------------------------------------------
(* What the steps of New do.                                               *)

LEMMA CapacityFits ==
  ASSUME NEW s \in Setups, NEW kind \in Kinds
  PROVE  /\ s[kind] \in Seq(Strings) /\ Len(s[kind]) \in Nat
         /\ Capacity(Len(s[kind])) \in Nat /\ Len(s[kind]) <= Capacity(Len(s[kind]))
<1>. DEFINE n == Len(s[kind])
            T == {size \in Sizes : n <= size}
<1>1. s \in [match : Seq(Strings), recording : Seq(Strings), file : BOOLEAN]
  BY RulesAssumption
<1>2. s[kind] \in Seq(Strings)
  BY <1>1 DEF Kinds
<1>3. n \in Nat
  BY <1>2
<1>4. T \in SUBSET Nat /\ T # {}
  BY RulesAssumption
<1>. HIDE DEF n
<1>5. PICK size \in T : \A y \in T : size <= y
  BY <1>4, LeastNatural
<1>6. size \in Sizes /\ size >= n /\ \A d \in Sizes : d >= n => size <= d
  BY <1>3, <1>4, <1>5, RulesAssumption
<1>7. Capacity(n) \in Sizes /\ Capacity(n) >= n
  BY <1>6 DEF Capacity
<1>. QED  BY <1>2, <1>3, <1>7, RulesAssumption DEF n

LEMMA ElementsType ==
  ASSUME TypeOK, NEW kind \in Kinds, NEW slice \in Slice
  PROVE  /\ Elements(kind, slice) \in Seq(Strings)
         /\ array[kind] \in Seq(Strings) /\ slice.copy \in Seq(Strings) /\ slice.len \in Nat
BY DEF TypeOK, Elements, Slice

\* The goroutine c goes on with the job j, and the others are where they were.
Becomes(c, j) ==
  /\ job' \in [Callers \cup {Main} -> Job]
  /\ \A d \in Callers \cup {Main} : d # c => job'[d] = job[d]
  /\ job'[c] = j

LEMMA JobType ==
  ASSUME TypeOK, NEW c \in Callers \cup {Main}
  PROVE  /\ job[c] \in Job /\ job[c].kind \in Kinds /\ job[c].i \in Nat \ {0}
         /\ job[c].text \in Strings /\ job[c].lines \in Seq(Strings)
         /\ job[c].slices \in [Kinds -> Slice] /\ \A kind \in Kinds : job[c].slices[kind] \in Slice
         /\ DOMAIN job = Callers \cup {Main}
BY DEF TypeOK, Job

LEMMA IdleType == Idle \in Job /\ Shared(0) \in Slice
BY RulesAssumption DEF Idle, Job, Slice, Shared, Kinds

LEMMA BecomesType ==
  ASSUME TypeOK, NEW c \in Callers \cup {Main}, NEW j \in Job, job' = [job EXCEPT ![c] = j]
  PROVE  Becomes(c, j)
BY DEF TypeOK, Becomes

LEMMA CallNewDoes ==
  ASSUME TypeOK, NEW c \in Callers \cup {Main}, CallNew(c)
  PROVE  Becomes(c, [Idle EXCEPT !.at = "rules"])
<1>1. [Idle EXCEPT !.at = "rules"] \in Job
  BY IdleType DEF Job
<1>. QED  BY <1>1, BecomesType DEF CallNew

LEMMA NewFailsDoes ==
  ASSUME TypeOK, NEW c \in Callers \cup {Main}, NewFails(c)
  PROVE  Becomes(c, IF c = Main THEN [Idle EXCEPT !.at = "failed"] ELSE Idle)
<1>1. [Idle EXCEPT !.at = "failed"] \in Job
  BY IdleType DEF Job
<1>. QED  BY <1>1, IdleType, BecomesType DEF NewFails

LEMMA TakeFlagsDoes ==
  ASSUME TypeOK, NEW c \in Callers \cup {Main}, TakeFlags(c)
  PROVE  Becomes(c, [job[c] EXCEPT !.at = "trim",
                       !.slices = [job[c].slices EXCEPT !["match"] = Shared(Len(setup.match))]])
<1>1. setup.match = setup["match"] /\ "match" \in Kinds /\ setup \in Setups
  BY DEF Kinds, TypeOK
<1>2. Shared(Len(setup.match)) \in Slice
  BY <1>1, CapacityFits DEF Shared, Slice
<1>. DEFINE j == [job[c] EXCEPT !.at = "trim",
                    !.slices = [job[c].slices EXCEPT !["match"] = Shared(Len(setup.match))]]
<1>3. j \in Job
  BY <1>1, <1>2, JobType DEF Job
<1>4. job \in [Callers \cup {Main} -> Job]
  BY DEF TypeOK
<1>5. job' = [job EXCEPT ![c].at = "trim", ![c].slices["match"] = Shared(Len(setup.match))]
  BY DEF TakeFlags
<1>6. job' = [job EXCEPT ![c] = j]
  BY ONLY <1>4, <1>5
<1>. QED  BY <1>3, <1>6, BecomesType

LEMMA AppendFileDoes ==
  ASSUME TypeOK, Fits, NEW c \in Callers \cup {Main}, AppendFile(c)
  PROVE  \E lines \in Files :
           LET n   == Len(setup.match)
               all == SubSeq(array["match"], 1, n) \o lines
               inPlace == Len(all) <= Len(array["match"])
           IN  /\ all \in Seq(Strings) /\ all # <<>> /\ Len(all) = n + Len(lines)
               /\ array' \in [Kinds -> Seq(Strings)]
               /\ \A kind \in Kinds : Len(array'[kind]) = Len(array[kind])
               /\ inPlace \/ array' = array
               /\ Becomes(c, [job[c] EXCEPT !.at = "trim", !.lines = lines,
                    !.slices = [job[c].slices EXCEPT !["match"] =
                      [copy |-> IF inPlace THEN <<>> ELSE all, len |-> Len(all)]]])
<1>. DEFINE n == Len(setup.match)
            A == array["match"]
            All(lines) == SubSeq(A, 1, n) \o lines
            InPlace(lines) == Len(All(lines)) <= Len(A)
            NewSlice(lines) == [copy |-> IF InPlace(lines) THEN <<>> ELSE All(lines), len |-> Len(All(lines))]
            NewJob(lines) == [job[c] EXCEPT !.at = "trim", !.lines = lines,
                                !.slices = [job[c].slices EXCEPT !["match"] = NewSlice(lines)]]
<1>1. PICK lines \in Files :
        /\ array' = IF InPlace(lines)
                    THEN [array EXCEPT !["match"] =
                            All(lines) \o SubSeq(A, Len(All(lines)) + 1, Len(A))]
                    ELSE array
        /\ job' = [job EXCEPT ![c].at = "trim", ![c].lines = lines,
                     ![c].slices["match"] = NewSlice(lines)]
  BY DEF AppendFile
<1>2. setup.match = setup["match"] /\ "match" \in Kinds /\ setup \in Setups
  BY DEF Kinds, TypeOK
<1>3. n \in Nat /\ A \in Seq(Strings) /\ n <= Len(A) /\ Len(A) \in Nat
  <2>1. Len(A) = Capacity(Len(setup["match"])) /\ A \in Seq(Strings)
    BY <1>2 DEF Fits, TypeOK
  <2>. QED  BY <1>2, <2>1, CapacityFits
<1>4. lines \in Seq(Strings) /\ lines # <<>> /\ Len(lines) \in Nat /\ Len(lines) > 0
  BY RulesAssumption
<1>. DEFINE all == All(lines)
<1>5. all \in Seq(Strings) /\ Len(all) = n + Len(lines) /\ Len(all) \in Nat
  <2>. HIDE DEF A, n
  <2>1. SubSeq(A, 1, n) \in Seq(Strings) /\ Len(SubSeq(A, 1, n)) = n
    BY <1>3
  <2>. QED  BY <1>3, <1>4, <2>1
<1>. HIDE DEF A, n, All
<1>6. all # <<>>
  BY <1>3, <1>4, <1>5
<1>. HIDE DEF all
<1>7. InPlace(lines) =>
        /\ all \o SubSeq(A, Len(all) + 1, Len(A)) \in Seq(Strings)
        /\ Len(all \o SubSeq(A, Len(all) + 1, Len(A))) = Len(A)
  BY <1>3, <1>5 DEF all
<1>8. /\ array' \in [Kinds -> Seq(Strings)]
      /\ \A kind \in Kinds : Len(array'[kind]) = Len(array[kind])
  <2>1. array \in [Kinds -> Seq(Strings)]
    BY DEF TypeOK
  <2>2. CASE InPlace(lines)
    <3>. DEFINE B == all \o SubSeq(A, Len(all) + 1, Len(A))
    <3>1. B \in Seq(Strings) /\ Len(B) = Len(A)
      BY <1>7, <2>2
    <3>2. array' = [array EXCEPT !["match"] = B]
      BY <1>1, <2>2 DEF all
    <3>. HIDE DEF B
    <3>. QED  BY <1>2, <2>1, <3>1, <3>2 DEF A
  <2>3. CASE ~InPlace(lines)
    BY <1>1, <2>1, <2>3
  <2>. QED  BY <2>2, <2>3
<1>9. Becomes(c, NewJob(lines))
  <2>. DEFINE sl == NewSlice(lines)
  <2>1. sl \in Slice
    BY <1>5 DEF Slice, all
  <2>2. job \in [Callers \cup {Main} -> Job]
    BY DEF TypeOK
  <2>. HIDE DEF NewSlice
  <2>3. [job[c] EXCEPT !.at = "trim", !.lines = lines,
                       !.slices = [job[c].slices EXCEPT !["match"] = sl]] \in Job
    BY <1>2, <1>4, <2>1, JobType DEF Job
  <2>4. job' = [job EXCEPT ![c].at = "trim", ![c].lines = lines, ![c].slices["match"] = sl]
    BY <1>1
  <2>. HIDE DEF sl
  <2>5. job' = [job EXCEPT ![c] = [job[c] EXCEPT !.at = "trim", !.lines = lines,
                       !.slices = [job[c].slices EXCEPT !["match"] = sl]]]
    BY ONLY <2>2, <2>4
  <2>6. Becomes(c, [job[c] EXCEPT !.at = "trim", !.lines = lines,
                       !.slices = [job[c].slices EXCEPT !["match"] = sl]])
    BY <2>3, <2>5, BecomesType
  <2>. QED  BY <2>6 DEF sl
<1>10. InPlace(lines) \/ array' = array
  BY <1>1
<1>. QED  BY <1>5, <1>6, <1>8, <1>9, <1>10 DEF all, All, A, n

LEMMA TrimRuleDoes ==
  ASSUME TypeOK, Fits, NEW c \in Callers \cup {Main}, TrimRule(c)
  PROVE  LET elements == Elements(job[c].kind, job[c].slices[job[c].kind]) IN
         Becomes(c, [job[c] EXCEPT !.at = "store", !.text = Trim[elements[job[c].i]]])
<1>. DEFINE slice == job[c].slices[job[c].kind]
            elements == Elements(job[c].kind, slice)
            text == Trim[elements[job[c].i]]
<1>1. job[c].i <= slice.len /\ slice.len <= Len(elements) /\ elements \in Seq(Strings)
      /\ job[c].i \in Nat \ {0} /\ slice.len \in Nat
  BY JobType, ElementsType DEF Fits, TrimRule
<1>2. job' = [job EXCEPT ![c].at = "store", ![c].text = text]
  BY DEF TrimRule
<1>. HIDE DEF elements
<1>3. elements[job[c].i] \in Strings
  BY <1>1
<1>4. text \in Strings
  BY <1>3, RulesAssumption
<1>. HIDE DEF text
<1>5. job \in [Callers \cup {Main} -> Job]
  BY DEF TypeOK
<1>6. job' = [job EXCEPT ![c] = [job[c] EXCEPT !.at = "store", !.text = text]]
  BY ONLY <1>2, <1>5
<1>7. [job[c] EXCEPT !.at = "store", !.text = text] \in Job
  BY <1>4, JobType DEF Job
<1>8. Becomes(c, [job[c] EXCEPT !.at = "store", !.text = text])
  BY <1>6, <1>7, BecomesType
<1>. QED  BY <1>8 DEF text, elements

\* The assignments of KeepRule and DropRule.
Stores(c, elements, n, i) ==
  LET kind == job[c].kind
      own  == job[c].slices[kind].copy # <<>>
  IN  /\ Becomes(c, [job[c] EXCEPT !.at = "trim", !.i = i,
           !.slices = [job[c].slices EXCEPT ![kind] =
             [copy |-> IF own THEN elements ELSE <<>>, len |-> n]]])
      /\ array' \in [Kinds -> Seq(Strings)]
      /\ \A other \in Kinds : own \/ other # kind => array'[other] = array[other]
      /\ ~own => array'[kind] = elements

LEMMA StoreDoes ==
  ASSUME TypeOK, NEW c \in Callers \cup {Main}, NEW elements \in Seq(Strings),
         NEW n \in Nat, NEW i \in Nat \ {0}, Store(c, elements, n, i)
  PROVE  Stores(c, elements, n, i)
<1>. DEFINE kind == job[c].kind
            own  == job[c].slices[kind].copy # <<>>
            sl   == [copy |-> IF own THEN elements ELSE <<>>, len |-> n]
<1>1. kind \in Kinds
  BY JobType
<1>2. array' = IF own THEN array ELSE [array EXCEPT ![kind] = elements]
  BY DEF Store
<1>3. job' = [job EXCEPT ![c].at = "trim", ![c].i = i, ![c].slices[kind] = sl]
  BY DEF Store
<1>4. sl \in Slice
  BY DEF Slice
<1>. HIDE DEF sl, own, kind
<1>5. job \in [Callers \cup {Main} -> Job]
  BY DEF TypeOK
<1>6. job' = [job EXCEPT ![c] = [job[c] EXCEPT !.at = "trim", !.i = i,
                                  !.slices = [job[c].slices EXCEPT ![kind] = sl]]]
  BY ONLY <1>3, <1>5
<1>7. [job[c] EXCEPT !.at = "trim", !.i = i,
                     !.slices = [job[c].slices EXCEPT ![kind] = sl]] \in Job
  BY <1>1, <1>4, JobType DEF Job
<1>8. Becomes(c, [job[c] EXCEPT !.at = "trim", !.i = i,
                     !.slices = [job[c].slices EXCEPT ![kind] = sl]])
  BY <1>6, <1>7, BecomesType
<1>9. array \in [Kinds -> Seq(Strings)]
  BY DEF TypeOK
<1>10. /\ array' \in [Kinds -> Seq(Strings)]
       /\ \A other \in Kinds : own \/ other # kind => array'[other] = array[other]
       /\ ~own => array'[kind] = elements
  BY <1>1, <1>2, <1>9
<1>. QED  BY <1>8, <1>10 DEF Stores, sl, own, kind

LEMMA TakeRecordingRulesDoes ==
  ASSUME TypeOK, NEW c \in Callers \cup {Main}, TakeRecordingRules(c)
  PROVE  Becomes(c, [job[c] EXCEPT !.kind = "recording", !.i = 1,
           !.slices = [job[c].slices EXCEPT !["recording"] = Shared(Len(setup.recording))]])
<1>. DEFINE sl == Shared(Len(setup.recording))
<1>1. setup.recording = setup["recording"] /\ "recording" \in Kinds /\ setup \in Setups
  BY DEF Kinds, TypeOK
<1>2. sl \in Slice
  BY <1>1, CapacityFits DEF Shared, Slice
<1>3. job' = [job EXCEPT ![c].kind = "recording", ![c].i = 1, ![c].slices["recording"] = sl]
  BY DEF TakeRecordingRules
<1>. HIDE DEF sl
<1>4. job \in [Callers \cup {Main} -> Job]
  BY DEF TypeOK
<1>5. job' = [job EXCEPT ![c] = [job[c] EXCEPT !.kind = "recording", !.i = 1,
                !.slices = [job[c].slices EXCEPT !["recording"] = sl]]]
  BY ONLY <1>3, <1>4
<1>6. [job[c] EXCEPT !.kind = "recording", !.i = 1,
                !.slices = [job[c].slices EXCEPT !["recording"] = sl]] \in Job
  <2>1. [job[c].slices EXCEPT !["recording"] = sl] \in [Kinds -> Slice]
    BY <1>1, <1>2, JobType
  <2>2. 1 \in Nat \ {0} /\ job[c] \in Job
    BY JobType
  <2>. DEFINE slices == [job[c].slices EXCEPT !["recording"] = sl]
  <2>. HIDE DEF slices
  <2>3. \A j \in Job, kd \in Kinds, n \in Nat \ {0}, ss \in [Kinds -> Slice] :
          [j EXCEPT !.kind = kd, !.i = n, !.slices = ss] \in Job
    BY DEF Job
  <2>4. [job[c] EXCEPT !.kind = "recording", !.i = 1, !.slices = slices] \in Job
    BY <1>1, <2>1, <2>2, <2>3 DEF slices
  <2>. QED  BY <2>4 DEF slices
<1>7. Becomes(c, [job[c] EXCEPT !.kind = "recording", !.i = 1,
                !.slices = [job[c].slices EXCEPT !["recording"] = sl]])
  BY <1>5, <1>6, BecomesType
<1>. QED  BY <1>7 DEF sl

LEMMA EndRulesDoes ==
  ASSUME TypeOK, NEW c \in Callers \cup {Main}, EndRules(c)
  PROVE  Becomes(c, [job[c] EXCEPT !.at = "status"])
<1>1. job \in [Callers \cup {Main} -> Job] /\ job' = [job EXCEPT ![c].at = "status"]
  BY DEF TypeOK, EndRules
<1>2. job' = [job EXCEPT ![c] = [job[c] EXCEPT !.at = "status"]]
  BY ONLY <1>1
<1>3. [job[c] EXCEPT !.at = "status"] \in Job
  BY JobType DEF Job
<1>. QED  BY <1>2, <1>3, BecomesType

LEMMA InstallDoes ==
  ASSUME TypeOK, NEW c \in Callers \cup {Main}, Install(c)
  PROVE  Becomes(c, Idle)
BY IdleType, BecomesType DEF Install

\* The loop of c is at a rule that is there.
LEMMA AtRule ==
  ASSUME TypeOK, Fits, NEW c \in Callers \cup {Main}, job[c].at = "store"
  PROVE  LET kind     == job[c].kind
             slice    == job[c].slices[kind]
             elements == Elements(kind, slice)
         IN  /\ kind \in Kinds /\ slice \in Slice /\ elements \in Seq(Strings)
             /\ slice.len \in Nat /\ Len(elements) \in Nat /\ job[c].i \in Nat \ {0}
             /\ job[c].i <= slice.len /\ slice.len <= Len(elements)
<1>1. job[c].kind \in Kinds /\ job[c].slices[job[c].kind] \in Slice /\ job[c].i \in Nat \ {0}
      /\ c \in DOMAIN job
  BY JobType
<1>2. Elements(job[c].kind, job[c].slices[job[c].kind]) \in Seq(Strings)
      /\ job[c].slices[job[c].kind].len \in Nat
  BY <1>1, ElementsType
<1>. QED  BY <1>1, <1>2 DEF Fits

LEMMA KeepRuleDoes ==
  ASSUME TypeOK, Fits, NEW c \in Callers \cup {Main}, KeepRule(c)
  PROVE  LET slice    == job[c].slices[job[c].kind]
             elements == Elements(job[c].kind, slice)
             kept     == [elements EXCEPT ![job[c].i] = job[c].text]
         IN  /\ kept \in Seq(Strings) /\ Len(kept) = Len(elements)
             /\ Stores(c, kept, slice.len, job[c].i + 1)
<1>. DEFINE slice    == job[c].slices[job[c].kind]
            elements == Elements(job[c].kind, slice)
            i        == job[c].i
            kept     == [elements EXCEPT ![i] = job[c].text]
<1>1. job[c].at = "store" /\ Store(c, kept, slice.len, i + 1)
  BY DEF KeepRule
<1>2. elements \in Seq(Strings) /\ slice.len \in Nat /\ i \in Nat \ {0}
  BY <1>1, AtRule
<1>3. job[c].text \in Strings
  BY JobType
<1>. HIDE DEF elements, slice, i
<1>4. kept \in Seq(Strings) /\ Len(kept) = Len(elements)
  <2>1. i \in 1..Len(elements)
    BY <1>1, <1>2, AtRule DEF elements, slice, i
  <2>. QED  BY <1>2, <1>3, <2>1, ExceptSeq
<1>5. i + 1 \in Nat \ {0}
  BY <1>2
<1>. HIDE DEF kept
<1>6. Stores(c, kept, slice.len, i + 1)
  BY <1>1, <1>2, <1>4, <1>5, StoreDoes
<1>. QED  BY <1>4, <1>6 DEF kept, elements, slice, i

LEMMA DropRuleDoes ==
  ASSUME TypeOK, Fits, NEW c \in Callers \cup {Main}, DropRule(c)
  PROVE  LET slice    == job[c].slices[job[c].kind]
             elements == Elements(job[c].kind, slice)
             moved    == [p \in DOMAIN elements |->
                            IF job[c].i <= p /\ p < slice.len THEN elements[p + 1] ELSE elements[p]]
         IN  /\ moved \in Seq(Strings) /\ Len(moved) = Len(elements)
             /\ Stores(c, moved, slice.len - 1, job[c].i)
<1>. DEFINE slice    == job[c].slices[job[c].kind]
            elements == Elements(job[c].kind, slice)
            i        == job[c].i
            moved    == [p \in DOMAIN elements |->
                           IF i <= p /\ p < slice.len THEN elements[p + 1] ELSE elements[p]]
<1>1. job[c].at = "store" /\ Store(c, moved, slice.len - 1, i)
  BY DEF DropRule
<1>2. elements \in Seq(Strings) /\ slice.len \in Nat /\ i \in Nat \ {0} /\ i <= slice.len
      /\ slice.len <= Len(elements) /\ Len(elements) \in Nat
  BY <1>1, AtRule
<1>. HIDE DEF elements, slice, i
<1>3. moved \in Seq(Strings) /\ Len(moved) = Len(elements)
  <2>1. DOMAIN elements = 1..Len(elements)
    BY <1>2
  <2>2. ASSUME NEW p \in 1..Len(elements)
        PROVE  (IF i <= p /\ p < slice.len THEN elements[p + 1] ELSE elements[p]) \in Strings
    <3>1. elements[p] \in Strings
      BY <1>2
    <3>2. p < slice.len => p + 1 \in 1..Len(elements)
      BY <1>2
    <3>3. p < slice.len => elements[p + 1] \in Strings
      BY <1>2, <3>2
    <3>. QED  BY <3>1, <3>3
  <2>3. moved \in [1..Len(elements) -> Strings]
    BY <2>1, <2>2
  <2>. HIDE DEF moved
  <2>. QED  BY <1>2, <2>3
<1>4. slice.len - 1 \in Nat
  BY <1>2
<1>. HIDE DEF moved
<1>5. Stores(c, moved, slice.len - 1, i)
  BY <1>1, <1>2, <1>3, <1>4, StoreDoes
<1>. QED  BY <1>3, <1>5 DEF moved, elements, slice, i

-----------------------------------------------------------------------------
(* The invariant that holds whether or not there is room in the arrays.    *)

\* What a step of New may change.
Changes(c) ==
  /\ setup' = setup
  /\ pc' = pc /\ k' = k /\ params' = params /\ url' = url /\ sent' = sent /\ recorded' = recorded
  /\ array' \in [Kinds -> Seq(Strings)]
  /\ \A kind \in Kinds : Len(array'[kind]) = Len(array[kind])
  /\ job' \in [Callers \cup {Main} -> Job]
  /\ \A d \in Callers \cup {Main} : d # c => job'[d] = job[d]
  /\ \A kind \in Kinds :
       job'[c].slices[kind].len
         <= Len(IF job'[c].slices[kind].copy = <<>> THEN array'[kind] ELSE job'[c].slices[kind].copy)
  /\ job'[c].at = "store" => job'[c].i <= job'[c].slices[job'[c].kind].len

\* A step that leaves the arrays and their lengths alone.
LEMMA JobChanges ==
  ASSUME TypeOK, Fits, NEW c \in Callers \cup {Main}, NEW j, Becomes(c, j),
         setup' = setup, UNCHANGED forwardVars, array' = array,
         j.at = "store" => j.i <= j.slices[j.kind].len,
         \A kind \in Kinds : \/ j.slices[kind] = job[c].slices[kind]
                             \/ j.slices[kind].len <= Len(Elements(kind, j.slices[kind]))
  PROVE  Changes(c)
<1>1. pc' = pc /\ k' = k /\ params' = params /\ url' = url /\ sent' = sent /\ recorded' = recorded
  BY DEF forwardVars
<1>2. array' \in [Kinds -> Seq(Strings)] /\ DOMAIN job = Callers \cup {Main}
  BY DEF TypeOK
<1>3. ASSUME NEW kind \in Kinds
      PROVE  j.slices[kind].len <= Len(IF j.slices[kind].copy = <<>> THEN array[kind] ELSE j.slices[kind].copy)
  <2>1. j.slices[kind].len <= Len(Elements(kind, j.slices[kind]))
    BY <1>2 DEF Fits
  <2>. QED  BY <2>1 DEF Elements
<1>. QED  BY <1>1, <1>2, <1>3 DEF Becomes, Changes

\* A round of the loop.
LEMMA StoresChanges ==
  ASSUME TypeOK, Fits, NEW c \in Callers \cup {Main}, NEW elements \in Seq(Strings),
         Len(elements) = Len(Elements(job[c].kind, job[c].slices[job[c].kind])),
         NEW n \in Nat, n <= Len(elements), NEW i \in Nat \ {0}, Stores(c, elements, n, i),
         setup' = setup, UNCHANGED forwardVars
  PROVE  Changes(c)
<1>. DEFINE kind == job[c].kind
            own  == job[c].slices[kind].copy # <<>>
            sl   == [copy |-> IF own THEN elements ELSE <<>>, len |-> n]
            j    == [job[c] EXCEPT !.at = "trim", !.i = i,
                       !.slices = [job[c].slices EXCEPT ![kind] = sl]]
<1>1. pc' = pc /\ k' = k /\ params' = params /\ url' = url /\ sent' = sent /\ recorded' = recorded
  BY DEF forwardVars
<1>2. /\ Becomes(c, j)
      /\ array' \in [Kinds -> Seq(Strings)]
      /\ \A other \in Kinds : own \/ other # kind => array'[other] = array[other]
      /\ ~own => array'[kind] = elements
  BY DEF Stores
<1>3. kind \in Kinds /\ job[c].slices \in [Kinds -> Slice] /\ job[c] \in Job
      /\ DOMAIN job = Callers \cup {Main}
  BY JobType
<1>4. Len(elements) = Len(IF own THEN job[c].slices[kind].copy ELSE array[kind])
  BY DEF Elements
<1>. HIDE DEF kind, own
<1>5. \A other \in Kinds : Len(array'[other]) = Len(array[other])
  <2>. SUFFICES ASSUME NEW other \in Kinds PROVE Len(array'[other]) = Len(array[other])
    OBVIOUS
  <2>1. CASE own \/ other # kind
    BY <1>2, <2>1
  <2>2. CASE ~own /\ other = kind
    BY <1>2, <1>4, <2>2
  <2>. QED  BY <2>1, <2>2
<1>6. j.slices = [job[c].slices EXCEPT ![kind] = sl] /\ j.at = "trim"
  BY <1>3 DEF Job
<1>7. ASSUME NEW other \in Kinds
      PROVE  j.slices[other].len
               <= Len(IF j.slices[other].copy = <<>> THEN array'[other] ELSE j.slices[other].copy)
  <2>1. CASE other = kind
    <3>1. j.slices[other] = sl
      BY <1>3, <1>6, <2>1
    <3>2. own => elements # <<>>
      <4>. SUFFICES ASSUME own, elements = <<>> PROVE FALSE
        OBVIOUS
      <4>1. job[c].slices[kind].copy \in Seq(Strings)
        BY <1>3 DEF Slice
      <4>2. Len(job[c].slices[kind].copy) = 0
        BY <1>4
      <4>. QED  BY <4>1, <4>2 DEF own
    <3>. QED  BY <1>2, <2>1, <3>1, <3>2
  <2>2. CASE other # kind
    <3>1. j.slices[other] = job[c].slices[other] /\ array'[other] = array[other]
      BY <1>2, <1>3, <1>6, <2>2
    <3>2. job[c].slices[other].len <= Len(Elements(other, job[c].slices[other]))
      BY <1>3 DEF Fits
    <3>. QED  BY <3>1, <3>2 DEF Elements
  <2>. QED  BY <2>1, <2>2
<1>. HIDE DEF j, sl
<1>. QED  BY <1>1, <1>2, <1>5, <1>6, <1>7 DEF Becomes, Changes

LEMMA NewStepChanges ==
  ASSUME TypeOK, Fits, NEW c \in Callers \cup {Main}, NewStep(c)
  PROVE  Changes(c) /\ (Install(c) \/ UNCHANGED <<worker, wanted>>)
<1>0. /\ setup' = setup /\ UNCHANGED forwardVars
      /\ Install(c) \/ UNCHANGED <<worker, wanted>>
  BY DEF NewStep, NewFrame, CallNew, NewFails, TakeFlags, AppendFile, TrimRule, KeepRule, DropRule,
         Store, TakeRecordingRules, EndRules, Install
<1>. SUFFICES Changes(c)
  BY <1>0
<1>1. setup \in Setups /\ \A kind \in Kinds : setup[kind] \in Seq(Strings) /\ Len(setup[kind]) \in Nat
      /\ Len(setup[kind]) <= Len(array[kind])
  BY CapacityFits DEF TypeOK, Fits
<1>2. /\ setup.match = setup["match"] /\ setup.recording = setup["recording"]
      /\ "match" \in Kinds /\ "recording" \in Kinds
  BY DEF Kinds
<1>3. \A kind \in Kinds : /\ Idle.slices[kind].len <= Len(Elements(kind, Idle.slices[kind]))
                          /\ Idle.slices[kind] = Shared(0)
  BY DEF TypeOK, Idle, Shared, Elements
<1>4. ASSUME NEW n \in Nat, NEW kind \in Kinds, n <= Len(array[kind])
      PROVE  Shared(n).len <= Len(Elements(kind, Shared(n)))
  BY <1>4 DEF Shared, Elements
<1>5. job[c] \in Job /\ job[c].slices \in [Kinds -> Slice]
  BY JobType
<1>6. CASE CallNew(c)
  <2>1. array' = array
    BY <1>6 DEF CallNew
  <2>2. [Idle EXCEPT !.at = "rules"].slices = Idle.slices /\ [Idle EXCEPT !.at = "rules"].at = "rules"
    BY DEF Idle
  <2>. HIDE DEF Changes
  <2>. QED  BY <1>0, <1>3, <1>6, <2>1, <2>2, CallNewDoes, JobChanges
<1>7. CASE NewFails(c)
  <2>1. array' = array
    BY <1>7 DEF NewFails
  <2>. DEFINE j == IF c = Main THEN [Idle EXCEPT !.at = "failed"] ELSE Idle
  <2>2. j.slices = Idle.slices /\ j.at # "store"
    BY DEF Idle
  <2>3. Becomes(c, j)
    BY <1>7, NewFailsDoes
  <2>. HIDE DEF j
  <2>. QED  BY <1>0, <1>3, <2>1, <2>2, <2>3, JobChanges
<1>8. CASE TakeFlags(c)
  <2>1. array' = array
    BY <1>8 DEF TakeFlags
  <2>. DEFINE j == [job[c] EXCEPT !.at = "trim",
                      !.slices = [job[c].slices EXCEPT !["match"] = Shared(Len(setup.match))]]
  <2>2. /\ j.slices["match"] = Shared(Len(setup.match)) /\ j.at # "store"
        /\ \A kind \in Kinds : kind # "match" => j.slices[kind] = job[c].slices[kind]
    BY <1>2, <1>5 DEF Job
  <2>3. Becomes(c, j)
    BY <1>8, TakeFlagsDoes
  <2>. HIDE DEF j
  <2>4. \A kind \in Kinds : \/ j.slices[kind] = job[c].slices[kind]
                            \/ j.slices[kind].len <= Len(Elements(kind, j.slices[kind]))
    BY <1>1, <1>2, <1>4, <2>2
  <2>. QED  BY <1>0, <2>1, <2>2, <2>3, <2>4, JobChanges
<1>9. CASE AppendFile(c)
  <2>1. PICK lines \in Files :
           LET n   == Len(setup.match)
               all == SubSeq(array["match"], 1, n) \o lines
               inPlace == Len(all) <= Len(array["match"])
           IN  /\ all \in Seq(Strings) /\ all # <<>> /\ Len(all) = n + Len(lines)
               /\ array' \in [Kinds -> Seq(Strings)]
               /\ \A kind \in Kinds : Len(array'[kind]) = Len(array[kind])
               /\ inPlace \/ array' = array
               /\ Becomes(c, [job[c] EXCEPT !.at = "trim", !.lines = lines,
                    !.slices = [job[c].slices EXCEPT !["match"] =
                      [copy |-> IF inPlace THEN <<>> ELSE all, len |-> Len(all)]]])
    BY <1>9, AppendFileDoes
  <2>. DEFINE all == SubSeq(array["match"], 1, Len(setup.match)) \o lines
              inPlace == Len(all) <= Len(array["match"])
              sl == [copy |-> IF inPlace THEN <<>> ELSE all, len |-> Len(all)]
              j == [job[c] EXCEPT !.at = "trim", !.lines = lines,
                      !.slices = [job[c].slices EXCEPT !["match"] = sl]]
  <2>2. /\ j.slices["match"] = sl /\ j.at = "trim"
        /\ \A kind \in Kinds : kind # "match" => j.slices[kind] = job[c].slices[kind]
    <3>. HIDE DEF sl
    <3>. QED  BY <1>2, <1>5 DEF Job
  <2>3. /\ Becomes(c, j) /\ all \in Seq(Strings) /\ all # <<>>
        /\ array' \in [Kinds -> Seq(Strings)]
        /\ \A kind \in Kinds : Len(array'[kind]) = Len(array[kind])
    BY <2>1
  <2>. HIDE DEF j, all
  <2>4. sl.len <= Len(IF sl.copy = <<>> THEN array'["match"] ELSE sl.copy)
    BY <1>2, <2>3
  <2>. HIDE DEF sl
  <2>5. ASSUME NEW kind \in Kinds
        PROVE  j.slices[kind].len <= Len(IF j.slices[kind].copy = <<>> THEN array'[kind] ELSE j.slices[kind].copy)
    <3>1. CASE kind = "match"
      BY <2>2, <2>4, <3>1
    <3>2. CASE kind # "match"
      <4>1. kind = "recording"
        BY <3>2 DEF Kinds
      <4>2. job[c].slices[kind].len <= Len(Elements(kind, job[c].slices[kind]))
            /\ Len(array'[kind]) = Len(array[kind])
        BY <2>3 DEF Fits, TypeOK
      <4>. QED  BY <2>2, <3>2, <4>2 DEF Elements
    <3>. QED  BY <3>1, <3>2
  <2>6. pc' = pc /\ k' = k /\ params' = params /\ url' = url /\ sent' = sent /\ recorded' = recorded
    BY <1>0 DEF forwardVars
  <2>. QED  BY <1>0, <2>2, <2>3, <2>5, <2>6 DEF Becomes, Changes
<1>10. CASE TrimRule(c)
  <2>1. array' = array /\ job[c].i <= job[c].slices[job[c].kind].len
    BY <1>10 DEF TrimRule
  <2>. DEFINE text == Trim[Elements(job[c].kind, job[c].slices[job[c].kind])[job[c].i]]
              j == [job[c] EXCEPT !.at = "store", !.text = text]
  <2>2. j.slices = job[c].slices /\ j.i = job[c].i /\ j.kind = job[c].kind
    BY <1>5 DEF Job
  <2>3. Becomes(c, j)
    BY <1>10, TrimRuleDoes
  <2>. HIDE DEF j
  <2>. QED  BY <1>0, <2>1, <2>2, <2>3, JobChanges
<1>11. CASE KeepRule(c)
  <2>. DEFINE slice    == job[c].slices[job[c].kind]
              elements == Elements(job[c].kind, slice)
              kept     == [elements EXCEPT ![job[c].i] = job[c].text]
  <2>1. /\ kept \in Seq(Strings) /\ Len(kept) = Len(elements)
        /\ Stores(c, kept, slice.len, job[c].i + 1)
    BY <1>11, KeepRuleDoes
  <2>2. slice.len \in Nat /\ slice.len <= Len(elements) /\ job[c].i \in Nat \ {0}
    BY <1>11, AtRule DEF KeepRule
  <2>3. slice.len <= Len(kept) /\ job[c].i + 1 \in Nat \ {0}
    BY <2>1, <2>2
  <2>. HIDE DEF kept
  <2>. QED  BY <1>0, <2>1, <2>2, <2>3, StoresChanges
<1>12. CASE DropRule(c)
  <2>. DEFINE slice    == job[c].slices[job[c].kind]
              elements == Elements(job[c].kind, slice)
              moved    == [p \in DOMAIN elements |->
                             IF job[c].i <= p /\ p < slice.len THEN elements[p + 1] ELSE elements[p]]
  <2>1. /\ moved \in Seq(Strings) /\ Len(moved) = Len(elements)
        /\ Stores(c, moved, slice.len - 1, job[c].i)
    BY <1>12, DropRuleDoes
  <2>2. slice.len \in Nat /\ slice.len <= Len(elements) /\ job[c].i \in Nat \ {0}
        /\ job[c].i <= slice.len /\ Len(elements) \in Nat
    BY <1>12, AtRule DEF DropRule
  <2>. HIDE DEF moved
  <2>3. slice.len - 1 \in Nat /\ slice.len - 1 <= Len(moved)
    <3>. HIDE DEF slice, elements
    <3>. QED  BY <2>1, <2>2
  <2>. QED  BY <1>0, <2>1, <2>2, <2>3, StoresChanges
<1>13. CASE TakeRecordingRules(c)
  <2>1. array' = array
    BY <1>13 DEF TakeRecordingRules
  <2>. DEFINE j == [job[c] EXCEPT !.kind = "recording", !.i = 1,
                      !.slices = [job[c].slices EXCEPT !["recording"] = Shared(Len(setup.recording))]]
  <2>2. /\ j.slices["recording"] = Shared(Len(setup.recording)) /\ j.at = job[c].at
        /\ \A kind \in Kinds : kind # "recording" => j.slices[kind] = job[c].slices[kind]
    BY <1>2, <1>5 DEF Job
  <2>3. Becomes(c, j) /\ job[c].at = "trim"
    BY <1>13, TakeRecordingRulesDoes DEF TakeRecordingRules
  <2>. HIDE DEF j
  <2>4. \A kind \in Kinds : \/ j.slices[kind] = job[c].slices[kind]
                            \/ j.slices[kind].len <= Len(Elements(kind, j.slices[kind]))
    BY <1>1, <1>2, <1>4, <2>2
  <2>. QED  BY <1>0, <2>1, <2>2, <2>3, <2>4, JobChanges
<1>14. CASE EndRules(c)
  <2>1. array' = array
    BY <1>14 DEF EndRules
  <2>2. [job[c] EXCEPT !.at = "status"].slices = job[c].slices
        /\ [job[c] EXCEPT !.at = "status"].at = "status"
    BY <1>5 DEF Job
  <2>. QED  BY <1>0, <1>14, <2>1, <2>2, EndRulesDoes, JobChanges
<1>15. CASE Install(c)
  <2>1. array' = array
    BY <1>15 DEF Install
  <2>2. Idle.at # "store"
    BY DEF Idle
  <2>. QED  BY <1>0, <1>3, <1>15, <2>1, <2>2, InstallDoes, JobChanges
<1>. QED  BY <1>6, <1>7, <1>8, <1>9, <1>10, <1>11, <1>12, <1>13, <1>14, <1>15 DEF NewStep

\* What a step of New keeps, whatever it does to the rules.
LEMMA NewStepKeepsType ==
  ASSUME TypeOK, Fits, NEW c \in Callers \cup {Main}, NewStep(c)
  PROVE  TypeOK'
<1>1. Changes(c) /\ (Install(c) \/ UNCHANGED <<worker, wanted>>)
  BY NewStepChanges
<1>2. setup' \in Setups /\ array' \in [Kinds -> Seq(Strings)] /\ job' \in [Callers \cup {Main} -> Job]
  BY <1>1 DEF Changes, TypeOK
<1>3. worker' \in [Kinds -> Slice] \cup {None} /\ wanted' \in [Kinds -> Seq(Strings)]
  <2>1. CASE Install(c)
    <3>1. worker' = job[c].slices /\ job[c].slices \in [Kinds -> Slice]
      BY <2>1, JobType DEF Install
    <3>. DEFINE m == Kept(setup.match \o job[c].lines)
                r == Kept(setup.recording)
    <3>2. setup.match = setup["match"] /\ setup.recording = setup["recording"]
          /\ "match" \in Kinds /\ "recording" \in Kinds /\ setup \in Setups
      BY DEF TypeOK, Kinds
    <3>3. setup.match \in Seq(Strings) /\ setup.recording \in Seq(Strings)
          /\ job[c].lines \in Seq(Strings)
      BY <3>2, CapacityFits, JobType
    <3>4. setup.match \o job[c].lines \in Seq(Strings)
      BY <3>3
    <3>5. m \in Seq(Strings) /\ r \in Seq(Strings)
      BY <3>3, <3>4, KeptType
    <3>6. wanted' = [match |-> m, recording |-> r]
      BY <2>1 DEF Install
    <3>. HIDE DEF m, r
    <3>7. wanted' \in [Kinds -> Seq(Strings)]
      BY <3>5, <3>6 DEF Kinds
    <3>. QED  BY <3>1, <3>7
  <2>2. CASE UNCHANGED <<worker, wanted>>
    BY <2>2 DEF TypeOK
  <2>. QED  BY <1>1, <2>1, <2>2
<1>4. /\ pc' \in {"idle", "match", "recording"}
      /\ k' \in Nat \ {0}
      /\ params' \in Seq(Strings)
      /\ url' \in [path : {"federate", "query"}, query : Seq(Strings)]
      /\ sent' \in Seq([path : {"federate", "query"}, query : Seq(Strings)])
      /\ recorded' \in [answers : Seq(Answer), error : BOOLEAN, origin : {"federate", "query"}]
  <2>1. /\ pc' = pc /\ k' = k /\ params' = params /\ url' = url /\ sent' = sent
        /\ recorded' = recorded
    BY <1>1 DEF Changes
  <2>. QED  BY <2>1 DEF TypeOK
<1>. QED  BY ONLY <1>2, <1>3, <1>4 DEF TypeOK

LEMMA NewStepKeepsFits ==
  ASSUME TypeOK, Fits, NEW c \in Callers \cup {Main}, NewStep(c)
  PROVE  Fits'
<1>1. Changes(c) /\ (Install(c) \/ UNCHANGED <<worker, wanted>>)
  BY NewStepChanges
<1>2. DOMAIN job = Callers \cup {Main} /\ DOMAIN job' = Callers \cup {Main}
  BY <1>1 DEF TypeOK, Changes
<1>3. \A kind \in Kinds : Len(array'[kind]) = Len(array[kind])
  BY <1>1 DEF Changes
<1>4. \A kind \in Kinds : Len(array'[kind]) = Capacity(Len(setup'[kind]))
  BY <1>1, <1>3 DEF Changes, Fits
<1>5. ASSUME NEW d \in Callers \cup {Main}
      PROVE  /\ \A kind \in Kinds :
                  job'[d].slices[kind].len
                    <= Len(IF job'[d].slices[kind].copy = <<>> THEN array'[kind]
                           ELSE job'[d].slices[kind].copy)
             /\ job'[d].at = "store" => job'[d].i <= job'[d].slices[job'[d].kind].len
  <2>1. CASE d = c
    BY <1>1, <2>1 DEF Changes
  <2>2. CASE d # c
    <3>1. job'[d] = job[d]
      BY <1>1, <2>2 DEF Changes
    <3>2. \A kind \in Kinds : job[d].slices[kind].len
                    <= Len(IF job[d].slices[kind].copy = <<>> THEN array[kind]
                           ELSE job[d].slices[kind].copy)
      BY <1>2 DEF Fits, Elements
    <3>3. job[d].at = "store" => job[d].i <= job[d].slices[job[d].kind].len
      BY <1>2 DEF Fits
    <3>. QED  BY <1>3, <3>1, <3>2, <3>3
  <2>. QED  BY <2>1, <2>2
<1>6. /\ worker' # None => \A kind \in Kinds :
           worker'[kind].len <= Len(IF worker'[kind].copy = <<>> THEN array'[kind] ELSE worker'[kind].copy)
      /\ pc' # "idle" => worker' # None
  <2>1. CASE Install(c)
    <3>1. worker' = job[c].slices /\ array' = array /\ job[c].slices \in [Kinds -> Slice]
      BY <2>1, JobType DEF Install
    <3>2. worker' # None
      BY <3>1, RulesAssumption DEF Slice
    <3>. QED  BY <1>2, <3>1, <3>2 DEF Fits, Elements
  <2>2. CASE UNCHANGED <<worker, wanted>>
    BY <1>1, <1>3, <2>2 DEF Changes, Fits, Elements
  <2>. QED  BY <1>1, <2>1, <2>2
<1>. QED  BY <1>2, <1>4, <1>5, <1>6 DEF Fits, Elements

LEMMA NewStepKeepsBase ==
  ASSUME BaseInv, NEW c \in Callers \cup {Main}, NewStep(c)
  PROVE  BaseInv'
<1>1. TypeOK /\ Fits /\ RecordedInv
  BY DEF BaseInv
<1>2. Changes(c)
  BY <1>1, NewStepChanges
<1>3. RecordedInv'
  BY <1>1, <1>2 DEF Changes, RecordedInv, AllAnswered, Queries
<1>. QED  BY <1>1, <1>3, NewStepKeepsType, NewStepKeepsFits DEF BaseInv

LEMMA InstalledRuleType ==
  ASSUME TypeOK, Fits, NEW kind \in Kinds, pc # "idle", k <= worker[kind].len
  PROVE  /\ worker # None /\ worker[kind] \in Slice /\ worker[kind].len \in Nat
         /\ k \in 1..Len(Elements(kind, worker[kind])) /\ InstalledRule(kind) \in Strings
<1>1. worker # None /\ worker[kind] \in Slice /\ k \in Nat \ {0}
  BY DEF Fits, TypeOK
<1>2. worker[kind].len <= Len(Elements(kind, worker[kind]))
  BY <1>1 DEF Fits
<1>3. Elements(kind, worker[kind]) \in Seq(Strings) /\ worker[kind].len \in Nat
  BY <1>1, ElementsType
<1>4. k \in 1..Len(Elements(kind, worker[kind]))
  BY <1>1, <1>2, <1>3
<1>. QED  BY <1>1, <1>3, <1>4 DEF InstalledRule

\* One more request is one more query.
LEMMA QueriesGrow ==
  ASSUME NEW R, NEW q \in Seq(R), q # <<>>, NEW r \in R, sent = q, sent' = Append(q, r)
  PROVE  /\ Len(Queries) = Len(q) - 1 /\ Queries' = Append(Queries, r.query[1])
         /\ \E S : Queries \in Seq(S) /\ r.query[1] \in S
<1>. DEFINE x == r.query[1]
            S == {q[n].query[1] : n \in 1..Len(q)} \cup {x}
            Q == [n \in 1..(Len(q) - 1) |-> q[n + 1].query[1]]
            w == Append(q, r)
            W == [n \in 1..(Len(w) - 1) |-> w[n + 1].query[1]]
<1>1. Queries = Q /\ Queries' = W
  BY DEF Queries
<1>2. Len(q) \in Nat /\ Len(q) >= 1
  OBVIOUS
<1>3. Q \in Seq(S) /\ Len(Q) = Len(q) - 1
  <2>1. \A n \in 1..(Len(q) - 1) : n + 1 \in 1..Len(q)
    BY <1>2
  <2>2. \A n \in 1..(Len(q) - 1) : Q[n] \in S
    BY <2>1
  <2>3. Len(q) - 1 \in Nat
    BY <1>2
  <2>4. Q \in [1..(Len(q) - 1) -> S]
    BY <2>2
  <2>. HIDE DEF Q, S
  <2>. QED  BY <2>3, <2>4
<1>4. x \in S
  OBVIOUS
<1>5. w \in Seq(R) /\ Len(w) = Len(q) + 1 /\ w[Len(q) + 1] = r /\ \A n \in 1..Len(q) : w[n] = q[n]
  BY <1>2
<1>6. W = Append(Q, x)
  <2>. HIDE DEF w
  <2>1. ASSUME NEW n \in 1..Len(q) PROVE W[n] \in S /\ W[n] = IF n = Len(q) THEN x ELSE Q[n]
    <3>1. W[n] = w[n + 1].query[1]
      BY <1>2, <1>5
    <3>2. CASE n = Len(q)
      BY <1>5, <3>1, <3>2
    <3>3. CASE n # Len(q)
      <4>1. n + 1 \in 1..Len(q) /\ n \in 1..(Len(q) - 1)
        BY <1>2, <3>3
      <4>. QED  BY <1>5, <3>1, <3>3, <4>1
    <3>. QED  BY <3>2, <3>3
  <2>2. W = [n \in 1..Len(q) |-> W[n]]
    BY <1>2, <1>5
  <2>. HIDE DEF W, S, Q, x
  <2>3. W \in [1..Len(q) -> S]
    BY <2>1, <2>2
  <2>4. W \in Seq(S) /\ Len(W) = Len(q)
    BY <1>2, <2>3
  <2>. DEFINE A == Append(Q, x)
  <2>5. A \in Seq(S) /\ Len(A) = Len(q)
        /\ \A n \in 1..Len(q) : A[n] = IF n = Len(q) THEN x ELSE Q[n]
    BY <1>2, <1>3, <1>4
  <2>. HIDE DEF A
  <2>6. W = A
    BY <2>1, <2>4, <2>5, SeqEqual
  <2>. QED  BY <2>6 DEF A
<1>. HIDE DEF S, Q, W
<1>. QED  BY <1>1, <1>3, <1>4, <1>6

LEMMA ForwardStepKeepsType ==
  ASSUME TypeOK, Fits, ForwardStep
  PROVE  TypeOK' /\ Fits'
<1>0. setup' = setup /\ array' = array /\ job' = job /\ worker' = worker /\ wanted' = wanted
  BY DEF ForwardStep, ForwardFrame, BeginForward, AddMatch, FederateFails, FederateSucceeds,
         SkipMalformed, QueryRule, EndRecording
<1>. DEFINE Url == [path : {"federate", "query"}, query : Seq(Strings)]
            Rec == [answers : Seq(Answer), error : BOOLEAN, origin : {"federate", "query"}]
            Q   == Seq(Strings)
            SU  == Seq(Url)
<1>1. /\ params \in Q /\ url \in Url /\ sent \in SU /\ recorded \in Rec /\ k \in Nat \ {0}
      /\ <<>> \in Q /\ <<>> \in SU
      /\ url.path \in {"federate", "query"} /\ url.query \in Q
      /\ recorded.answers \in Seq(Answer) /\ recorded.origin \in {"federate", "query"}
  BY DEF TypeOK
<1>2. ASSUME NEW q \in Q, NEW p \in {"federate", "query"} PROVE [path |-> p, query |-> q] \in Url
  OBVIOUS
<1>3. \A u \in Url : Append(sent, u) \in SU
  BY <1>1
<1>4. \A s \in Strings : Append(params, s) \in Q /\ <<s>> \in Q
  BY <1>1
<1>5. "match" \in Kinds /\ "recording" \in Kinds
  BY DEF Kinds
<1>6. k + 1 \in Nat \ {0} /\ 1 \in Nat \ {0}
  BY <1>1
<1>. DEFINE Typed == /\ pc' \in {"idle", "match", "recording"} /\ k' \in Nat \ {0}
                     /\ params' \in Q /\ url' \in Url /\ sent' \in SU /\ recorded' \in Rec
                     /\ pc' # "idle" => worker # None
<1>14. SUFFICES Typed
  <2>1. setup' \in Setups /\ array' \in [Kinds -> Seq(Strings)] /\ job' \in [Callers \cup {Main} -> Job]
        /\ worker' \in [Kinds -> Slice] \cup {None} /\ wanted' \in [Kinds -> Seq(Strings)]
    BY <1>0 DEF TypeOK
  <2>. SUFFICES ASSUME Typed PROVE TypeOK' /\ Fits'
    OBVIOUS
  <2>2. TypeOK'
    BY ONLY Typed, <2>1 DEF TypeOK
  <2>3. Fits'
    BY <1>0, Typed DEF Fits, Elements
  <2>. QED  BY <2>2, <2>3
<1>. DEFINE As == Seq(Answer)
<1>15. Rec = [answers : As, error : BOOLEAN, origin : {"federate", "query"}] /\ <<>> \in As
       /\ recorded.answers \in As
  BY <1>1
<1>16. /\ [recorded EXCEPT !.answers = <<>>, !.error = FALSE] \in Rec
       /\ [recorded EXCEPT !.answers = <<>>] \in Rec
  <2>. HIDE DEF As
  <2>. QED  BY <1>1, <1>15
<1>7. CASE BeginForward
  <2>1. /\ pc' = "match" /\ k' = 1 /\ sent' = <<>> /\ url' = [url EXCEPT !.query = <<>>]
        /\ params' = <<>> /\ worker # None
        /\ recorded' = [recorded EXCEPT !.answers = <<>>, !.error = FALSE]
    BY <1>7 DEF BeginForward
  <2>2. url' \in Url
    BY <1>1, <2>1
  <2>. HIDE DEF Q, Url, SU, Rec
  <2>. QED  BY <1>1, <1>6, <1>16, <2>1, <2>2
<1>8. CASE AddMatch
  <2>1. InstalledRule("match") \in Strings /\ worker # None
    BY <1>5, <1>8, InstalledRuleType DEF AddMatch
  <2>. HIDE DEF Q, Url, SU, Rec
  <2>. QED  BY <1>1, <1>4, <1>6, <1>8, <2>1 DEF AddMatch
<1>9. CASE FederateFails
  <2>1. url' = [url EXCEPT !.query = params] /\ url' \in Url
    BY <1>1, <1>9 DEF FederateFails
  <2>2. Request \in Url
    BY <2>1 DEF Request
  <2>. HIDE DEF Q, Url, SU, Rec
  <2>. QED  BY <1>1, <1>3, <1>9, <2>1, <2>2 DEF FederateFails
<1>10. CASE FederateSucceeds
  <2>1. [path |-> url.path, query |-> params] \in Url /\ [path |-> "query", query |-> params] \in Url
    BY <1>1, <1>2
  <2>2. [answers |-> <<>>, error |-> FALSE, origin |-> url.path] \in Rec
    BY <1>1
  <2>3. worker # None
    BY <1>10 DEF Fits, FederateSucceeds
  <2>. HIDE DEF Q, Url, SU, Rec
  <2>. QED  BY <1>1, <1>3, <1>6, <1>10, <2>1, <2>2, <2>3 DEF FederateSucceeds
<1>11. CASE SkipMalformed
  <2>1. [recorded EXCEPT !.error = TRUE] \in Rec
    BY <1>1
  <2>2. worker # None
    BY <1>11 DEF Fits, SkipMalformed
  <2>. HIDE DEF Q, Url, SU, Rec
  <2>. QED  BY <1>1, <1>6, <1>11, <2>1, <2>2 DEF SkipMalformed
<1>12. CASE QueryRule
  <2>. DEFINE x == InstalledRule("recording")
  <2>1. x \in Strings /\ worker # None
    BY <1>5, <1>12, InstalledRuleType DEF QueryRule
  <2>. HIDE DEF x
  <2>2. <<x>> \in Q /\ \A decoded \in BOOLEAN : Append(recorded.answers, AnswerTo(x, decoded)) \in Seq(Answer)
    <3>1. \A decoded \in BOOLEAN : AnswerTo(x, decoded) \in Answer
      BY <2>1 DEF AnswerTo, Answer
    <3>. HIDE DEF Rec, Url, Q, SU
    <3>. QED  BY <1>1, <1>4, <2>1, <3>1
  <2>3. url' = [url EXCEPT !.query = <<x>>]
    BY <1>12 DEF QueryRule, x
  <2>4. url' \in Url
    BY <1>1, <2>2, <2>3
  <2>5. Request \in Url
    BY <2>4 DEF Request
  <2>6. recorded' \in Rec
    <3>1. \/ \E decoded \in BOOLEAN :
               recorded' = [recorded EXCEPT !.answers = Append(recorded.answers, AnswerTo(x, decoded))]
          \/ recorded' = [recorded EXCEPT !.error = TRUE]
      BY <1>12 DEF QueryRule, x
    <3>. QED  BY <1>1, <2>2, <3>1
  <2>. HIDE DEF Q, Url, SU, Rec
  <2>. QED  BY <1>1, <1>3, <1>6, <1>12, <2>1, <2>4, <2>5, <2>6 DEF QueryRule
<1>13. CASE EndRecording
  <2>1. url' \in Url
    BY <1>1, <1>13 DEF EndRecording
  <2>2. recorded' \in Rec
    <3>1. recorded' = [recorded EXCEPT !.answers = <<>>] \/ recorded' = recorded
      BY <1>13 DEF EndRecording
    <3>. HIDE DEF Rec
    <3>. QED  BY <1>1, <1>16, <3>1
  <2>. HIDE DEF Q, Url, SU, Rec
  <2>. QED  BY <1>1, <1>13, <2>1, <2>2 DEF EndRecording
<1>. QED  BY <1>7, <1>8, <1>9, <1>10, <1>11, <1>12, <1>13 DEF ForwardStep

LEMMA ForwardStepKeepsBase ==
  ASSUME BaseInv, ForwardStep
  PROVE  BaseInv'
<1>1. TypeOK /\ Fits /\ RecordedInv
  BY DEF BaseInv
<1>2. /\ k \in Nat \ {0} /\ pc \in {"idle", "match", "recording"} /\ sent \in Seq([path : {"federate", "query"}, query : Seq(Strings)])
      /\ recorded \in [answers : Seq(Answer), error : BOOLEAN, origin : {"federate", "query"}]
  BY <1>1 DEF TypeOK
<1>. SUFFICES RecordedInv'
  BY <1>1, ForwardStepKeepsType DEF BaseInv
<1>3. CASE BeginForward
  BY <1>2, <1>3 DEF BeginForward, RecordedInv
<1>4. CASE AddMatch
  BY <1>1, <1>4 DEF AddMatch, RecordedInv
<1>5. CASE FederateFails
  BY <1>1, <1>5 DEF FederateFails, RecordedInv
<1>6. CASE FederateSucceeds
  <2>. DEFINE r == [path |-> url.path, query |-> params]
  <2>1. sent' = Append(<<>>, r) /\ pc' = "recording" /\ k' = 1 /\ recorded'.answers = <<>>
    BY <1>1, <1>6 DEF FederateSucceeds, RecordedInv
  <2>. HIDE DEF r
  <2>2. sent' = <<r>>
    BY <2>1
  <2>3. Len(sent') = 1 /\ sent' # <<>>
    BY <2>2
  <2>4. Queries' = <<>>
    BY <2>3 DEF Queries
  <2>5. AllAnswered'
    BY <2>1, <2>4 DEF AllAnswered
  <2>. QED  BY <2>1, <2>3, <2>5 DEF RecordedInv
<1>7. CASE SkipMalformed
  BY <1>1, <1>2, <1>7 DEF SkipMalformed, RecordedInv
<1>8. CASE QueryRule
  <2>. DEFINE x == InstalledRule("recording")
              U == [path : {"federate", "query"}, query : Seq(Strings)]
  <2>1. pc = "recording" /\ pc' = "recording" /\ k' = k + 1 /\ sent # <<>> /\ sent' = Append(sent, Request)
    BY <1>1, <1>8 DEF QueryRule, RecordedInv
  <2>2. url' = [url EXCEPT !.query = <<x>>] /\ url \in U
    BY <1>1, <1>8 DEF QueryRule, TypeOK
  <2>. HIDE DEF x
  <2>3. x \in Strings
    BY <1>1, <1>8, InstalledRuleType DEF x, QueryRule, Kinds
  <2>4. url'.query = <<x>> /\ url' \in U
    <3>. DEFINE q == <<x>>
    <3>1. q \in Seq(Strings)
      BY <2>3
    <3>. HIDE DEF q
    <3>2. [url EXCEPT !.query = q] \in U /\ [url EXCEPT !.query = q].query = q
      BY <2>2, <3>1
    <3>. QED  BY <2>2, <3>2 DEF q
  <2>. DEFINE r == [path |-> url'.path, query |-> url'.query]
  <2>5. r \in U /\ r.query[1] = x
    <3>1. r \in U
      BY <2>4
    <3>2. r.query = <<x>>
      BY <2>4
    <3>. HIDE DEF r
    <3>. QED  BY <3>1, <3>2
  <2>6. sent' = Append(sent, r) /\ sent \in Seq(U)
    BY <1>2, <2>1 DEF Request
  <2>. HIDE DEF r
  <2>7. sent' # <<>>
    <3>. HIDE DEF U
    <3>. QED  BY <2>5, <2>6
  <2>8. Queries' = Append(Queries, x)
    <3>. HIDE DEF U
    <3>. QED  BY <2>1, <2>5, <2>6, QueriesGrow
  <2>9. \/ \E decoded \in BOOLEAN :
             recorded' = [recorded EXCEPT !.answers = Append(recorded.answers, AnswerTo(x, decoded))]
        \/ recorded' = [recorded EXCEPT !.error = TRUE]
    BY <1>8 DEF QueryRule, x
  <2>10. ~recorded'.error => ~recorded.error /\ \E decoded \in BOOLEAN :
           recorded'.answers = Append(recorded.answers, AnswerTo(x, decoded))
    BY <1>2, <2>9
  <2>11. ASSUME ~recorded'.error PROVE AllAnswered'
    <3>1. PICK decoded \in BOOLEAN : recorded'.answers = Append(recorded.answers, AnswerTo(x, decoded))
      BY <2>10, <2>11
    <3>2. AllAnswered
      BY <1>1, <2>1, <2>10, <2>11 DEF RecordedInv
    <3>3. recorded.answers \in Seq(Answer) /\ AnswerTo(x, decoded) \in Answer /\ AnswerTo(x, decoded).rule = x
      BY <1>2, <2>3 DEF AnswerTo, Answer
    <3>4. /\ Len(recorded'.answers) = Len(recorded.answers) + 1
          /\ recorded'.answers[Len(recorded.answers) + 1].rule = x
          /\ \A n \in 1..Len(recorded.answers) : recorded'.answers[n] = recorded.answers[n]
      <4>. DEFINE a == AnswerTo(x, decoded)
                  s == recorded.answers
      <4>1. s \in Seq(Answer) /\ a \in Answer /\ a.rule = x /\ recorded'.answers = Append(s, a)
        BY <3>1, <3>3
      <4>. HIDE DEF a, s
      <4>2. /\ Len(Append(s, a)) = Len(s) + 1 /\ Append(s, a)[Len(s) + 1] = a
            /\ \A n \in 1..Len(s) : Append(s, a)[n] = s[n]
        BY <4>1
      <4>3. /\ Len(recorded'.answers) = Len(s) + 1 /\ recorded'.answers[Len(s) + 1].rule = x
            /\ \A n \in 1..Len(s) : recorded'.answers[n] = s[n]
        BY <4>1, <4>2
      <4>. QED  BY <4>3 DEF s
    <3>5. Queries = [n \in 1..(k - 1) |-> Queries[n]] /\ Len(Queries) = k - 1
      <4>1. Len(sent) \in Nat /\ Len(sent) >= 1
        BY <1>2, <2>1
      <4>2. Queries \in Seq({sent[n + 1].query[1] : n \in 1..(Len(sent) - 1)})
        <5>. DEFINE T == {sent[n + 1].query[1] : n \in 1..(Len(sent) - 1)}
        <5>1. Queries \in [1..(Len(sent) - 1) -> T]
          BY DEF Queries
        <5>. HIDE DEF T
        <5>2. Len(sent) - 1 \in Nat
          BY <4>1
        <5>3. Queries \in Seq(T)
          BY <5>1, <5>2
        <5>. QED  BY <5>3 DEF T
      <4>3. Len(Queries) = k - 1 /\ DOMAIN Queries = 1..Len(Queries)
        BY <3>2, <4>2 DEF AllAnswered
      <4>4. Queries = [n \in DOMAIN Queries |-> Queries[n]]
        BY DEF Queries
      <4>. QED  BY <4>3, <4>4
    <3>6. /\ Len(Queries') = k /\ Queries'[k] = x
          /\ \A n \in 1..(k - 1) : Queries'[n] = Queries[n]
      BY <1>2, <2>8, <3>5
    <3>7. Len(recorded.answers) = k - 1 /\ \A n \in 1..(k - 1) : recorded.answers[n].rule = Queries[n]
      BY <3>2 DEF AllAnswered
    <3>8. Len(recorded'.answers) = k' - 1 /\ Len(Queries') = k' - 1
      BY <1>2, <2>1, <3>4, <3>6, <3>7
    <3>9. ASSUME NEW n \in 1..(k' - 1) PROVE recorded'.answers[n].rule = Queries'[n]
      <4>1. n = k \/ n \in 1..(k - 1)
        BY <1>2, <2>1
      <4>2. Len(recorded.answers) + 1 = k
        BY <1>2, <3>7
      <4>. QED  BY <3>4, <3>6, <3>7, <4>1, <4>2
    <3>. QED  BY <3>8, <3>9 DEF AllAnswered
  <2>. QED  BY <2>1, <2>7, <2>11 DEF RecordedInv
<1>9. CASE EndRecording
  <2>1. pc = "recording" /\ pc' = "idle" /\ k' = k /\ sent' = sent
    BY <1>9 DEF EndRecording
  <2>2. Queries' = Queries
    BY <2>1 DEF Queries
  <2>3. recorded'.answers # <<>> => ~recorded.error /\ recorded'.answers = recorded.answers
    BY <1>2, <1>9 DEF EndRecording
  <2>. QED  BY <1>1, <2>1, <2>2, <2>3 DEF RecordedInv, AllAnswered
<1>. QED  BY <1>3, <1>4, <1>5, <1>6, <1>7, <1>8, <1>9 DEF ForwardStep

LEMMA InitBase == Init => BaseInv
<1>. SUFFICES ASSUME Init PROVE BaseInv
  OBVIOUS
<1>. DEFINE A(kind) == [n \in 1..Capacity(Len(setup[kind])) |->
                          IF n <= Len(setup[kind]) THEN setup[kind][n] ELSE Blank]
<1>1. setup \in Setups /\ \A kind \in Kinds :
        /\ setup[kind] \in Seq(Strings) /\ Len(setup[kind]) \in Nat
        /\ Capacity(Len(setup[kind])) \in Nat /\ Len(setup[kind]) <= Capacity(Len(setup[kind]))
  BY CapacityFits DEF Init
<1>2. ASSUME NEW kind \in Kinds
      PROVE  A(kind) \in Seq(Strings) /\ Len(A(kind)) = Capacity(Len(setup[kind]))
  <2>1. \A n \in 1..Capacity(Len(setup[kind])) :
          (IF n <= Len(setup[kind]) THEN setup[kind][n] ELSE Blank) \in Strings
    BY <1>1, RulesAssumption
  <2>2. A(kind) \in [1..Capacity(Len(setup[kind])) -> Strings]
    BY <2>1
  <2>. HIDE DEF A
  <2>. QED  BY <1>1, <2>2
<1>3. array = [kind \in Kinds |-> A(kind)]
  BY DEF Init
<1>. HIDE DEF A
<1>4. /\ array \in [Kinds -> Seq(Strings)]
      /\ \A kind \in Kinds : Len(array[kind]) = Capacity(Len(setup[kind]))
  BY <1>2, <1>3
<1>5. job = [c \in Callers \cup {Main} |-> Idle] /\ job \in [Callers \cup {Main} -> Job]
  BY IdleType DEF Init
<1>6. setup \in Setups /\ worker = None /\ wanted \in [Kinds -> Seq(Strings)]
  BY <1>1 DEF Init
<1>7. /\ pc = "idle" /\ k = 1 /\ params = <<>> /\ url = [path |-> "federate", query |-> <<>>]
      /\ sent = <<>> /\ recorded = [answers |-> <<>>, error |-> FALSE, origin |-> "federate"]
  BY DEF Init
<1>8. pc \in {"idle", "match", "recording"} /\ k \in Nat \ {0} /\ params \in Seq(Strings)
  BY <1>7
<1>9. /\ url \in [path : {"federate", "query"}, query : Seq(Strings)]
      /\ sent \in Seq([path : {"federate", "query"}, query : Seq(Strings)])
      /\ recorded \in [answers : Seq(Answer), error : BOOLEAN, origin : {"federate", "query"}]
  BY <1>7
<1>10. TypeOK
  BY ONLY <1>4, <1>5, <1>6, <1>8, <1>9 DEF TypeOK
<1>11. Fits
  <2>1. \A kind \in Kinds : Idle.slices[kind] = Shared(0) /\ Len(array[kind]) \in Nat
    BY <1>4 DEF Idle
  <2>2. \A kind \in Kinds : Shared(0).len <= Len(Elements(kind, Shared(0)))
    BY <2>1 DEF Shared, Elements
  <2>3. Idle.at # "store"
    BY DEF Idle
  <2>. QED  BY <1>4, <1>5, <1>6, <1>7, <2>1, <2>2, <2>3 DEF Fits
<1>12. RecordedInv
  BY <1>7 DEF RecordedInv
<1>. QED  BY <1>10, <1>11, <1>12 DEF BaseInv

LEMMA NextBase == BaseInv /\ [Next]_vars => BaseInv'
<1>. SUFFICES ASSUME BaseInv, [Next]_vars PROVE BaseInv'
  OBVIOUS
<1>1. CASE Next
  BY <1>1, NewStepKeepsBase, ForwardStepKeepsBase DEF Next
<1>2. CASE UNCHANGED vars
  <2>1. /\ setup' = setup /\ array' = array /\ job' = job /\ worker' = worker /\ wanted' = wanted
        /\ pc' = pc /\ k' = k /\ params' = params /\ url' = url /\ sent' = sent
        /\ recorded' = recorded
    BY <1>2 DEF vars, forwardVars
  <2>2. TypeOK'
    BY <2>1 DEF BaseInv, TypeOK
  <2>3. Fits'
    BY <2>1 DEF BaseInv, Fits, Elements
  <2>4. RecordedInv'
    BY <2>1 DEF BaseInv, RecordedInv, AllAnswered, Queries
  <2>. QED  BY <2>2, <2>3, <2>4 DEF BaseInv
<1>. QED  BY <1>1, <1>2

\* The slices stay within their arrays, whatever the reloads do to them, and
\* every variable has its type.
THEOREM Invariance == Spec => []BaseInv
<1>1. Init => BaseInv
  BY InitBase
<1>2. BaseInv /\ [Next]_vars => BaseInv'
  BY NextBase
<1>. QED  BY <1>1, <1>2, PTL DEF Spec

\* Something of the answers to the recording rules is forwarded only if every query
\* was answered without an error, and then every answer that can be decoded is: also
\* if the rules are overwritten while they are read.
THEOREM RecordedTogether == Spec => []AllAnsweredOrNone
<1>1. BaseInv => AllAnsweredOrNone
  BY DEF BaseInv, RecordedInv, AllAnsweredOrNone
<1>. QED  BY <1>1, Invariance, PTL

-----------------------------------------------------------------------------
(* What the others know of the arrays stays true.                          *)

\* A round of a later New changes an array at most behind the rules that
\* should be there.
Stable(kind) ==
  LET raw == setup[kind] IN
  \A p \in 1..Len(raw) :
    \/ array'[kind][p] = array[kind][p]
    \/ p > Len(Kept(raw)) /\ array'[kind][p] = Trim[Last(raw)]
    \/ p > Len(Kept(raw)) /\ array'[kind][p] = Last(raw) /\ Trim[Last(raw)] = Blank

AsBefore(kind) ==
  \/ array'[kind] = array[kind]
  \/ worker # None /\ ~Copied(kind) /\ Stable(kind)

LEMMA SetupType ==
  ASSUME TypeOK, Fits, NEW kind \in Kinds
  PROVE  /\ setup[kind] \in Seq(Strings) /\ Len(setup[kind]) \in Nat
         /\ Len(setup[kind]) <= Len(array[kind]) /\ Len(array[kind]) \in Nat
         /\ array[kind] \in Seq(Strings)
<1>1. setup \in Setups /\ array[kind] \in Seq(Strings) /\ Len(array[kind]) = Capacity(Len(setup[kind]))
  BY DEF TypeOK, Fits
<1>. QED  BY <1>1, CapacityFits

LEMMA RawType ==
  ASSUME TypeOK, Fits, NEW kind \in Kinds, NEW lines \in Seq(Strings)
  PROVE  /\ Raw(kind, lines) \in Seq(Strings)
         /\ ~Copied(kind) => Raw(kind, lines) = setup[kind]
<1>1. setup.match = setup["match"] /\ "match" \in Kinds
  BY DEF Kinds
<1>2. setup[kind] \in Seq(Strings) /\ setup.match \in Seq(Strings)
  BY <1>1, SetupType
<1>. QED  BY <1>2 DEF Raw

LEMMA CleanStays ==
  ASSUME TypeOK, Fits, NEW kind \in Kinds, setup' = setup, AsBefore(kind), Clean(kind)
  PROVE  Clean(kind)'
<1>. DEFINE raw == setup[kind]
            m   == Len(Kept(raw))
<1>1. /\ \A p \in 1..m : array[kind][p] = Kept(raw)[p]
      /\ \A p \in (m + 1)..Len(raw) : array[kind][p] \in {Last(raw), Trim[Last(raw)]}
  BY DEF Clean
<1>2. raw \in Seq(Strings) /\ Len(raw) \in Nat /\ m \in Nat /\ m <= Len(raw)
  <2>1. raw \in Seq(Strings)
    BY SetupType
  <2>. QED  BY <2>1, KeptType
<1>3. \A p \in 1..Len(raw) :
         \/ array'[kind][p] = array[kind][p]
         \/ p > m /\ array'[kind][p] = Trim[Last(raw)]
         \/ p > m /\ array'[kind][p] = Last(raw)
  BY DEF AsBefore, Stable
<1>. HIDE DEF m
<1>4. \A p \in 1..m : array'[kind][p] = Kept(raw)[p]
  <2>. SUFFICES ASSUME NEW p \in 1..m PROVE array'[kind][p] = Kept(raw)[p]
    OBVIOUS
  <2>1. p \in 1..Len(raw) /\ ~ (p > m)
    BY <1>2
  <2>. QED  BY <1>1, <1>3, <2>1
<1>5. \A p \in (m + 1)..Len(raw) : array'[kind][p] \in {Last(raw), Trim[Last(raw)]}
  <2>. SUFFICES ASSUME NEW p \in (m + 1)..Len(raw)
                PROVE  array'[kind][p] \in {Last(raw), Trim[Last(raw)]}
    OBVIOUS
  <2>1. p \in 1..Len(raw)
    BY <1>2
  <2>. QED  BY <1>1, <1>3, <2>1
<1>. QED  BY <1>4, <1>5 DEF Clean, m

LEMMA AgainStays ==
  ASSUME TypeOK, Fits, NEW kind \in Kinds, setup' = setup, AsBefore(kind),
         NEW slice \in Slice, NEW i \in Nat \ {0}, Again(kind, slice, i)
  PROVE  Again(kind, slice, i)'
<1>. DEFINE raw == setup[kind]
            m   == Len(Kept(raw))
<1>1. /\ Clean(kind)
      /\ m <= slice.len /\ slice.len <= Len(raw) /\ i <= slice.len + 1
      /\ raw # <<>> /\ Trim[Last(raw)] = Blank => i <= m + 1
      /\ \A p \in (m + 1)..(i - 1) : array[kind][p] = Trim[Last(raw)]
  BY DEF Again
<1>2. raw \in Seq(Strings) /\ Len(raw) \in Nat /\ m \in Nat /\ m <= Len(raw) /\ slice.len \in Nat
  <2>1. raw \in Seq(Strings)
    BY SetupType
  <2>. QED  BY <2>1, KeptType DEF Slice
<1>3. \A p \in 1..Len(raw) :
         \/ array'[kind][p] = array[kind][p]
         \/ array'[kind][p] = Trim[Last(raw)]
         \/ Trim[Last(raw)] = Blank
  BY DEF AsBefore, Stable
<1>4. Clean(kind)'
  BY <1>1, CleanStays
<1>. HIDE DEF m
<1>5. \A p \in (m + 1)..(i - 1) : array'[kind][p] = Trim[Last(raw)]
  <2>. SUFFICES ASSUME NEW p \in (m + 1)..(i - 1) PROVE array'[kind][p] = Trim[Last(raw)]
    OBVIOUS
  <2>1. p \in 1..Len(raw) /\ i > m + 1 /\ Len(raw) > 0
    BY <1>1, <1>2
  <2>2. raw # <<>>
    BY <2>1
  <2>3. Trim[Last(raw)] # Blank
    BY <1>1, <1>2, <2>1, <2>2
  <2>. QED  BY <1>1, <1>3, <2>1, <2>3
<1>. QED  BY <1>1, <1>4, <1>5 DEF Again, m

LEMMA DoneStays ==
  ASSUME TypeOK, Fits, NEW kind \in Kinds, setup' = setup, AsBefore(kind),
         NEW slice \in Slice, NEW kept, Done(kind, slice, kept)
  PROVE  Done(kind, slice, kept)'
<1>. DEFINE raw == setup[kind]
<1>1. Copied(kind)' <=> Copied(kind)
  BY DEF Copied
<1>2. CASE Copied(kind)
  <2>1. slice.copy # <<>>
    BY <1>2 DEF Done
  <2>2. Elements(kind, slice)' = Elements(kind, slice)
    BY <2>1 DEF Elements
  <2>. QED  BY <1>1, <1>2, <2>2 DEF Done
<1>3. CASE ~Copied(kind)
  <2>1. /\ slice.copy = <<>> /\ Len(kept) <= slice.len
        /\ kept = <<>> => slice.len = 0
        /\ \A p \in 1..slice.len : array[kind][p] = kept[Clamp(p, kept)]
        /\ Clean(kind) /\ kept = Kept(raw) /\ slice.len <= Len(raw)
        /\ Len(kept) < slice.len => Trim[Last(raw)] # Blank
    BY <1>3 DEF Done, Elements
  <2>2. raw \in Seq(Strings) /\ Len(raw) \in Nat /\ Len(kept) \in Nat /\ slice.len \in Nat
    BY <2>1, SetupType, KeptType DEF Slice
  <2>3. Clean(kind)'
    BY <2>1, CleanStays
  <2>4. \A p \in 1..slice.len : array'[kind][p] = kept[Clamp(p, kept)]
    <3>. SUFFICES ASSUME NEW p \in 1..slice.len PROVE array'[kind][p] = kept[Clamp(p, kept)]
      OBVIOUS
    <3>1. p \in 1..Len(raw)
      BY <2>1, <2>2
    <3>2. CASE array'[kind][p] = array[kind][p]
      BY <2>1, <3>2
    <3>3. CASE array'[kind][p] # array[kind][p]
      <4>1. /\ p > Len(kept)
            /\ array'[kind][p] = Trim[Last(raw)] \/ Trim[Last(raw)] = Blank
        BY <2>1, <3>1, <3>3 DEF AsBefore, Stable
      <4>2. Len(kept) < slice.len /\ Len(raw) > 0
        BY <2>1, <2>2, <4>1
      <4>3. raw # <<>> /\ Trim[Last(raw)] # Blank
        BY <2>1, <4>2
      <4>4. kept[Len(kept)] = Trim[Last(raw)]
        BY <2>1, <2>2, <4>3, LastKept
      <4>. QED  BY <2>2, <4>1, <4>3, <4>4 DEF Clamp
    <3>. QED  BY <3>2, <3>3
  <2>. QED  BY <1>1, <1>3, <2>1, <2>3, <2>4 DEF Done, Elements
<1>. QED  BY <1>2, <1>3

\* Of the goroutines whose call goes on as it was, and of the Worker.
LEMMA JobStays ==
  ASSUME TypeOK, Fits, setup' = setup, worker' = None <=> worker = None,
         NEW d \in Callers \cup {Main}, job'[d] = job[d], \A kind \in Kinds : AsBefore(kind), JobInv(d)
  PROVE  JobInv(d)'
<1>. DEFINE kind  == job[d].kind
            slice == job[d].slices[kind]
            raw   == Raw(kind, job[d].lines)
            i     == job[d].i
<1>1. \A other \in Kinds : (Copied(other)' <=> Copied(other)) /\ (Alone(other)' <=> Alone(other))
                          /\ Raw(other, job[d].lines)' = Raw(other, job'[d].lines)
  BY DEF Copied, Alone, Raw
<1>2. kind \in Kinds /\ slice \in Slice /\ i \in Nat \ {0} /\ \A other \in Kinds : job[d].slices[other] \in Slice
  BY JobType
<1>3. Looping(d) => LoopInv(d)'
  <2>. SUFFICES ASSUME Looping(d) PROVE LoopInv(d)'
    OBVIOUS
  <2>1. /\ slice.copy = <<>> <=> ~Copied(kind)
        /\ slice.copy # <<>> => Len(slice.copy) = Len(raw)
        /\ IF Alone(kind) THEN Looped(Elements(kind, slice), raw, slice.len, i)
           ELSE Again(kind, slice, i)
        /\ job[d].at = "store" =>
             job[d].text =
               IF Alone(kind) THEN Trim[Elements(kind, slice)[i]]
               ELSE IF i <= Len(Kept(raw)) THEN Kept(raw)[i] ELSE Trim[Last(raw)]
    BY DEF JobInv, LoopInv
  <2>2. Alone(kind) => (IF slice.copy = <<>> THEN array'[kind] ELSE slice.copy) = Elements(kind, slice)
    BY <1>2, <2>1 DEF Alone, AsBefore, Elements
  <2>3. ~Alone(kind) => Again(kind, slice, i)'
    BY <1>2, <2>1, AgainStays
  <2>4. Raw(kind, job[d].lines)' = raw
    BY DEF Raw, Copied
  <2>. QED  BY <1>1, <1>2, <2>1, <2>2, <2>3, <2>4 DEF LoopInv, Elements, Raw, Copied, Alone
<1>4. \A other \in Kinds :
        Done(other, job[d].slices[other], Kept(Raw(other, job[d].lines)))
          => Done(other, job[d].slices[other], Kept(Raw(other, job[d].lines)))'
  <2>. SUFFICES ASSUME NEW other \in Kinds,
                       Done(other, job[d].slices[other], Kept(Raw(other, job[d].lines)))
                PROVE  Done(other, job[d].slices[other], Kept(Raw(other, job[d].lines)))'
    OBVIOUS
  <2>. QED  BY <1>1, <1>2, DoneStays
<1>. QED  BY <1>3, <1>4 DEF JobInv, Looping

-----------------------------------------------------------------------------
(* The loop of New, from its beginning to its end.                         *)

\* Until there is a Worker, there is main alone; then there are the others.
LEMMA MainFirst ==
  ASSUME WorkerInv, NEW c \in Callers \cup {Main}, job[c].at # "idle"
  PROVE  worker = None <=> c = Main
BY RulesAssumption DEF WorkerInv

\* At the flags, with no file behind them.
LEMMA LoopStarts ==
  ASSUME TypeOK, Fits, ArraysInv, WorkerInv, NEW kind \in Kinds, ~Copied(kind),
         Untouched(kind) \/ worker # None
  PROVE  /\ worker = None => Looped(array[kind], setup[kind], Len(setup[kind]), 1)
         /\ worker # None => Again(kind, Shared(Len(setup[kind])), 1)
<1>. DEFINE raw == setup[kind]
            m   == Len(Kept(raw))
<1>1. raw \in Seq(Strings) /\ Len(raw) \in Nat /\ array[kind] \in Seq(Strings)
  BY SetupType
<1>2. m \in Nat /\ m <= Len(raw)
  BY <1>1, KeptType
<1>3. ASSUME worker = None PROVE Looped(array[kind], raw, Len(raw), 1)
  <2>1. \A p \in 1..Len(raw) : array[kind][p] = raw[p]
    BY <1>3 DEF ArraysInv
  <2>. QED  BY <1>1, <2>1, LoopedStart
<1>4. ASSUME worker # None PROVE Again(kind, Shared(Len(raw)), 1)
  <2>1. Clean(kind)
    BY <1>4 DEF WorkerInv, Done
  <2>. HIDE DEF raw
  <2>2. Shared(Len(raw)).len = Len(raw)
    BY DEF Shared
  <2>3. \A p \in (m + 1)..(1 - 1) : FALSE
    BY <1>2
  <2>4. m <= Len(raw) /\ Len(raw) <= Len(raw) /\ 1 <= Len(raw) + 1 /\ 1 <= m + 1
    BY <1>1, <1>2
  <2>. QED  BY <2>1, <2>2, <2>3, <2>4 DEF Again, raw
<1>. QED  BY <1>3, <1>4

\* With all rules trimmed.
LEMMA LoopEnds ==
  ASSUME TypeOK, Fits, NEW c \in Callers \cup {Main}, LoopInv(c),
         job[c].i > job[c].slices[job[c].kind].len
  PROVE  Done(job[c].kind, job[c].slices[job[c].kind], Kept(Raw(job[c].kind, job[c].lines)))
<1>. DEFINE kind  == job[c].kind
            slice == job[c].slices[kind]
            raw   == Raw(kind, job[c].lines)
            i     == job[c].i
            kept  == Kept(raw)
            m     == Len(kept)
<1>1. kind \in Kinds /\ slice \in Slice /\ slice.len \in Nat /\ i \in Nat \ {0} /\ job[c].lines \in Seq(Strings)
  BY JobType DEF Slice
<1>2. raw \in Seq(Strings) /\ Len(raw) \in Nat /\ (~Copied(kind) => raw = setup[kind])
  BY <1>1, RawType
<1>3. m \in Nat /\ m <= Len(raw) /\ kept \in Seq(Strings)
  BY <1>2, KeptType
<1>4. /\ slice.copy = <<>> <=> ~Copied(kind)
      /\ IF Alone(kind) THEN Looped(Elements(kind, slice), raw, slice.len, i)
         ELSE Again(kind, slice, i)
  BY DEF LoopInv
<1>5. i > slice.len
  OBVIOUS
<1>6. CASE Alone(kind)
  <2>1. /\ slice.len = m
        /\ \A p \in 1..slice.len : Elements(kind, slice)[p] = kept[p]
        /\ \A p \in (slice.len + 1)..Len(raw) : Elements(kind, slice)[p] = Last(raw)
    <3>1. Looped(Elements(kind, slice), raw, slice.len, i)
      BY <1>4, <1>6
    <3>. HIDE DEF kind, slice, raw, i
    <3>. QED  BY <1>1, <1>2, <1>5, <3>1, LoopedEnd
  <2>2. \A p \in 1..slice.len : Elements(kind, slice)[p] = kept[Clamp(p, kept)]
    BY <1>1, <2>1 DEF Clamp
  <2>3. ~Copied(kind) => Clean(kind)
    <3>. SUFFICES ASSUME ~Copied(kind) PROVE Clean(kind)
      OBVIOUS
    <3>1. Elements(kind, slice) = array[kind] /\ raw = setup[kind]
      BY <1>2, <1>4 DEF Elements
    <3>. QED  BY <2>1, <3>1 DEF Clean
  <2>4. kept = <<>> => slice.len = 0
    BY <2>1
  <2>5. m <= slice.len /\ slice.len <= Len(raw) /\ ~ (m < slice.len)
    BY <1>1, <1>3, <2>1
  <2>. HIDE DEF kept, raw, slice, kind
  <2>6. Done(kind, slice, kept)
    BY <1>2, <1>4, <2>2, <2>3, <2>4, <2>5 DEF Done, kept
  <2>. QED  BY <2>6 DEF kept, raw, slice, kind
<1>7. CASE ~Alone(kind)
  <2>1. ~Copied(kind) /\ raw = setup[kind] /\ slice.copy = <<>> /\ Elements(kind, slice) = array[kind]
    BY <1>2, <1>4, <1>7 DEF Alone, Elements
  <2>2. /\ Clean(kind)
        /\ m <= slice.len /\ slice.len <= Len(raw) /\ i <= slice.len + 1
        /\ raw # <<>> /\ Trim[Last(raw)] = Blank => i <= m + 1
        /\ \A p \in (m + 1)..(i - 1) : array[kind][p] = Trim[Last(raw)]
    BY <1>4, <1>7, <2>1 DEF Again
  <2>3. \A p \in 1..m : array[kind][p] = kept[p]
    BY <2>1, <2>2 DEF Clean
  <2>. HIDE DEF raw, slice, i, kind
  <2>4. i = slice.len + 1
    BY <1>1, <1>5, <2>2
  <2>5. m < slice.len => /\ Trim[Last(raw)] # Blank /\ kept # <<>>
                         /\ kept[m] = Trim[Last(raw)]
    <3>. SUFFICES ASSUME m < slice.len
                  PROVE  Trim[Last(raw)] # Blank /\ kept # <<>> /\ kept[m] = Trim[Last(raw)]
      OBVIOUS
    <3>1. Len(raw) > 0 /\ ~ (i <= m + 1)
      BY <1>1, <1>2, <1>3, <2>2, <2>4
    <3>2. raw # <<>>
      BY <3>1
    <3>3. Trim[Last(raw)] # Blank
      BY <2>2, <3>1, <3>2
    <3>. QED  BY <1>2, <3>2, <3>3, LastKept
  <2>. HIDE DEF kept
  <2>6. ASSUME NEW p \in 1..slice.len PROVE array[kind][p] = kept[Clamp(p, kept)]
    <3>1. CASE p <= m
      BY <1>3, <2>3, <3>1 DEF Clamp
    <3>2. CASE ~ (p <= m)
      <4>1. p \in (m + 1)..(i - 1) /\ m < slice.len
        BY <1>1, <1>3, <2>4, <3>2
      <4>2. Clamp(p, kept) = m
        BY <3>2 DEF Clamp
      <4>. QED  BY <2>2, <2>5, <4>1, <4>2
    <3>. QED  BY <3>1, <3>2
  <2>7. kept = <<>> => slice.len = 0
    <3>. SUFFICES ASSUME kept = <<>>, slice.len # 0 PROVE FALSE
      OBVIOUS
    <3>1. m = 0 /\ m < slice.len
      BY <1>1
    <3>. QED  BY <2>5, <3>1
  <2>8. Done(kind, slice, kept)
    BY <2>1, <2>2, <2>5, <2>6, <2>7 DEF Done, kept
  <2>. QED  BY <2>8 DEF kept, raw, slice, kind
<1>. QED  BY <1>6, <1>7

-----------------------------------------------------------------------------
(* A round of the loop.                                                    *)

\* What a round does to the call of c, and to what the others know.
Round(c) ==
  /\ LoopInv(c)' /\ job'[c].at = "trim"
  /\ job'[c].kind = job[c].kind /\ job'[c].lines = job[c].lines
  /\ \A other \in Kinds : other # job[c].kind =>
       job'[c].slices[other] = job[c].slices[other] /\ array'[other] = array[other]
  /\ AsBefore(job[c].kind) \/ (worker = None /\ ~Copied(job[c].kind))

\* Again, but of the arrays as the step leaves them.
AgainAfter(kind, n, i) ==
  LET raw == setup[kind]
      m   == Len(Kept(raw))
  IN  /\ m <= n /\ n <= Len(raw) /\ i <= n + 1
      /\ raw # <<>> /\ Trim[Last(raw)] = Blank => i <= m + 1
      /\ \A p \in (m + 1)..(i - 1) : array'[kind][p] = Trim[Last(raw)]

LEMMA AgainAfterwards ==
  ASSUME TypeOK, Fits, setup' = setup, worker # None, NEW kind \in Kinds, NEW slice, NEW i,
         ~Copied(kind), Clean(kind), Stable(kind), AgainAfter(kind, slice.len, i)
  PROVE  Again(kind, slice, i)'
<1>1. Clean(kind)'
  BY CleanStays DEF AsBefore
<1>. QED  BY <1>1 DEF Again, AgainAfter

LEMMA StoresRound ==
  ASSUME TypeOK, Fits, NEW c \in Callers \cup {Main}, LoopInv(c),
         setup' = setup, worker' = worker,
         NEW elements \in Seq(Strings), elements # <<>>,
         Len(elements) = Len(Elements(job[c].kind, job[c].slices[job[c].kind])),
         NEW n \in Nat, NEW i \in Nat \ {0}, Stores(c, elements, n, i),
         Alone(job[c].kind) => Looped(elements, Raw(job[c].kind, job[c].lines), n, i),
         ~Alone(job[c].kind) /\ array'[job[c].kind] = elements =>
           Stable(job[c].kind) /\ AgainAfter(job[c].kind, n, i)
  PROVE  Round(c)
<1>. DEFINE kind  == job[c].kind
            slice == job[c].slices[kind]
            raw   == Raw(kind, job[c].lines)
            own   == slice.copy # <<>>
            sl    == [copy |-> IF own THEN elements ELSE <<>>, len |-> n]
            j     == [job[c] EXCEPT !.at = "trim", !.i = i,
                        !.slices = [job[c].slices EXCEPT ![kind] = sl]]
<1>1. /\ job'[c] = j
      /\ \A other \in Kinds : own \/ other # kind => array'[other] = array[other]
      /\ ~own => array'[kind] = elements
  BY DEF Stores, Becomes
<1>2. kind \in Kinds /\ job[c].slices \in [Kinds -> Slice] /\ job[c] \in Job
  BY JobType
<1>3. /\ own <=> Copied(kind)
      /\ own => Len(slice.copy) = Len(raw)
  BY DEF LoopInv
<1>4. own => Len(elements) = Len(raw)
  BY <1>3 DEF Elements
<1>. HIDE DEF sl, own, slice, kind, raw
<1>5. /\ j.at = "trim" /\ j.kind = kind /\ j.lines = job[c].lines /\ j.i = i
      /\ j.slices[kind] = sl
      /\ \A other \in Kinds : other # kind => j.slices[other] = job[c].slices[other]
  BY <1>2 DEF Job, kind
<1>. HIDE DEF j
<1>6. sl.len = n /\ sl.copy = IF own THEN elements ELSE <<>>
  BY DEF sl
<1>7. ASSUME NEW other \in Kinds
      PROVE  (Copied(other)' <=> Copied(other)) /\ (Alone(other)' <=> Alone(other))
  BY DEF Copied, Alone
<1>8. sl.copy = <<>> <=> ~Copied(kind)
  BY <1>3, <1>6
<1>9. sl.copy # <<>> => Len(sl.copy) = Len(raw)
  BY <1>4, <1>6
<1>10. (IF sl.copy = <<>> THEN array'[kind] ELSE sl.copy) = elements
  BY <1>1, <1>6
<1>11. Alone(kind) => Looped(elements, raw, n, i)
  BY DEF kind, raw
<1>12. ~Alone(kind) => ~own /\ Stable(kind) /\ AgainAfter(kind, n, i)
  BY <1>1, <1>3 DEF kind, Alone
<1>13. LoopInv(c)'
  <2>1. job'[c].kind = kind /\ job'[c].slices[kind] = sl /\ job'[c].i = i
        /\ job'[c].lines = job[c].lines /\ job'[c].at = "trim"
    BY <1>1, <1>5
  <2>2. (Raw(job[c].kind, job[c].lines))' = raw
    BY <2>1 DEF Raw, Copied, raw, kind
  <2>3. ~Alone(kind) => /\ worker # None /\ ~Copied(kind) /\ Clean(kind) /\ Stable(kind)
                        /\ AgainAfter(kind, sl.len, i)
    <3>1. ~Alone(kind) => Clean(kind)
      BY DEF LoopInv, Again, kind
    <3>. QED  BY <1>6, <1>12, <3>1 DEF Alone
  <2>5. ~Alone(kind) => (Again(job[c].kind, job[c].slices[job[c].kind], job[c].i))'
    BY <1>2, <2>1, <2>3, AgainAfterwards
  <2>4. (Elements(job[c].kind, job[c].slices[job[c].kind]))' = elements
    BY <1>10, <2>1 DEF Elements
  <2>. QED  BY <1>2, <1>6, <1>7, <1>8, <1>9, <1>11, <2>1, <2>2, <2>4, <2>5 DEF LoopInv
<1>14. AsBefore(kind) \/ (worker = None /\ ~Copied(kind))
  <2>1. CASE own
    BY <1>1, <1>2, <2>1 DEF AsBefore
  <2>2. CASE ~own
    <3>1. ~Copied(kind)
      BY <1>3, <2>2
    <3>. QED  BY <1>12, <3>1 DEF AsBefore, Alone
  <2>. QED  BY <2>1, <2>2
<1>15. job'[c].at = "trim" /\ job'[c].kind = kind /\ job'[c].lines = job[c].lines
  BY <1>1, <1>5
<1>16. \A other \in Kinds : other # kind =>
         job'[c].slices[other] = job[c].slices[other] /\ array'[other] = array[other]
  BY <1>1, <1>5
<1>. QED  BY <1>13, <1>14, <1>15, <1>16 DEF Round, kind

LEMMA KeepRuleRound ==
  ASSUME TypeOK, Fits, NEW c \in Callers \cup {Main}, LoopInv(c), KeepRule(c)
  PROVE  Round(c)
<1>. DEFINE kind     == job[c].kind
            slice    == job[c].slices[kind]
            raw      == Raw(kind, job[c].lines)
            i        == job[c].i
            elements == Elements(kind, slice)
            e        == [elements EXCEPT ![i] = job[c].text]
<1>1. e \in Seq(Strings) /\ Len(e) = Len(elements) /\ Stores(c, e, slice.len, i + 1)
  BY KeepRuleDoes
<1>2. job[c].at = "store" /\ job[c].text # Blank /\ setup' = setup /\ worker' = worker
  BY DEF KeepRule, Store, NewFrame
<1>3. /\ kind \in Kinds /\ slice \in Slice /\ elements \in Seq(Strings)
      /\ slice.len \in Nat /\ Len(elements) \in Nat /\ i \in Nat \ {0}
      /\ i <= slice.len /\ slice.len <= Len(elements)
  BY <1>2, AtRule
<1>4. job[c].lines \in Seq(Strings) /\ raw \in Seq(Strings) /\ Len(raw) \in Nat
      /\ (~Copied(kind) => raw = setup[kind] /\ Len(raw) <= Len(array[kind]))
  BY <1>3, JobType, RawType, SetupType
<1>5. /\ slice.copy = <<>> <=> ~Copied(kind)
      /\ slice.copy # <<>> => Len(slice.copy) = Len(raw)
      /\ IF Alone(kind) THEN Looped(elements, raw, slice.len, i)
         ELSE Again(kind, slice, i)
      /\ job[c].text =
           IF Alone(kind) THEN Trim[elements[i]]
           ELSE IF i <= Len(Kept(raw)) THEN Kept(raw)[i] ELSE Trim[Last(raw)]
  BY <1>2 DEF LoopInv
<1>. HIDE DEF elements, raw, slice, i, kind
<1>6. Len(raw) <= Len(elements)
  <2>1. elements = IF slice.copy = <<>> THEN array[kind] ELSE slice.copy
    BY DEF Elements, elements
  <2>. QED  BY <1>4, <1>5, <2>1
<1>7. Alone(kind) => Looped(e, raw, slice.len, i + 1)
  <2>. SUFFICES ASSUME Alone(kind) PROVE Looped(e, raw, slice.len, i + 1)
    OBVIOUS
  <2>1. job[c].text = Trim[elements[i]] /\ Looped(elements, raw, slice.len, i)
    BY <1>5
  <2>2. Looped([elements EXCEPT ![i] = Trim[elements[i]]], raw, slice.len, i + 1)
    BY <1>2, <1>3, <1>4, <1>6, <2>1, LoopedKeep
  <2>. QED  BY <2>1, <2>2
<1>8. ASSUME ~Alone(kind), array'[kind] = e
      PROVE  Stable(kind) /\ AgainAfter(kind, slice.len, i + 1)
  <2>. DEFINE m == Len(Kept(raw))
              x == Trim[Last(raw)]
  <2>1. ~Copied(kind) /\ worker # None /\ raw = setup[kind] /\ elements = array[kind]
    BY <1>4, <1>5, <1>8 DEF Alone, Elements, elements
  <2>2. /\ Clean(kind)
        /\ m <= slice.len /\ slice.len <= Len(raw) /\ i <= slice.len + 1
        /\ raw # <<>> /\ Trim[Last(raw)] = Blank => i <= m + 1
        /\ \A p \in (m + 1)..(i - 1) : array[kind][p] = Trim[Last(raw)]
    BY <1>5, <1>8, <2>1 DEF Again
  <2>3. \A p \in 1..m : array[kind][p] = Kept(raw)[p]
    BY <2>1, <2>2 DEF Clean
  <2>4. m \in Nat
    BY <1>4, KeptType
  <2>5. job[c].text = IF i <= m THEN Kept(raw)[i] ELSE x
    BY <1>5, <1>8
  <2>6. \A p \in 1..Len(raw) : array'[kind][p] = IF p = i THEN job[c].text ELSE array[kind][p]
    <3>1. 1..Len(raw) \subseteq 1..Len(elements) /\ i \in 1..Len(elements) /\ DOMAIN elements = 1..Len(elements)
      BY <1>3, <1>4, <1>6
    <3>. QED  BY <1>8, <2>1, <3>1
  <2>. HIDE DEF m, e
  <2>7. \A p \in 1..Len(raw) :
          array'[kind][p] = array[kind][p] \/ (p > m /\ array'[kind][p] = x)
    <3>. SUFFICES ASSUME NEW p \in 1..Len(raw)
                  PROVE  array'[kind][p] = array[kind][p] \/ (p > m /\ array'[kind][p] = x)
      OBVIOUS
    <3>1. CASE p = i /\ i <= m
      BY <1>3, <2>3, <2>5, <2>6, <3>1
    <3>2. CASE p = i /\ ~ (i <= m)
      BY <1>3, <2>4, <2>5, <2>6, <3>2
    <3>3. CASE p # i
      BY <2>6, <3>3
    <3>. QED  BY <3>1, <3>2, <3>3
  <2>8. Stable(kind)
    BY <2>1, <2>7 DEF Stable, m
  <2>10. i + 1 <= slice.len + 1
    BY <1>3
  <2>11. raw # <<>> /\ x = Blank => i + 1 <= m + 1
    BY <1>2, <1>3, <2>4, <2>5
  <2>12. \A p \in (m + 1)..((i + 1) - 1) : array'[kind][p] = x
    <3>. SUFFICES ASSUME NEW p \in (m + 1)..i PROVE array'[kind][p] = x
      BY <1>3
    <3>1. p \in 1..Len(raw) /\ p > m
      BY <1>3, <1>4, <2>2, <2>4
    <3>2. CASE p = i
      BY <1>3, <2>4, <2>5, <2>6, <3>1, <3>2
    <3>3. CASE p # i
      <4>1. p \in (m + 1)..(i - 1)
        BY <1>3, <2>4, <3>3
      <4>. QED  BY <2>2, <2>6, <3>1, <3>3, <4>1
    <3>. QED  BY <3>2, <3>3
  <2>13. AgainAfter(kind, slice.len, i + 1)
    BY <2>1, <2>2, <2>10, <2>11, <2>12 DEF AgainAfter, m
  <2>. QED  BY <2>8, <2>13
<1>9. e # <<>> /\ i + 1 \in Nat \ {0}
  BY <1>1, <1>3
<1>. HIDE DEF e
<1>. QED  BY ONLY TypeOK, Fits, LoopInv(c), c \in Callers \cup {Main}, <1>1, <1>2, <1>3, <1>7, <1>8, <1>9, StoresRound DEF elements, raw, slice, i, kind

LEMMA DropRuleRound ==
  ASSUME TypeOK, Fits, NEW c \in Callers \cup {Main}, LoopInv(c), DropRule(c)
  PROVE  Round(c)
<1>. DEFINE kind     == job[c].kind
            slice    == job[c].slices[kind]
            raw      == Raw(kind, job[c].lines)
            i        == job[c].i
            elements == Elements(kind, slice)
            e        == [p \in DOMAIN elements |->
                           IF i <= p /\ p < slice.len THEN elements[p + 1] ELSE elements[p]]
<1>1. e \in Seq(Strings) /\ Len(e) = Len(elements) /\ Stores(c, e, slice.len - 1, i)
  BY DropRuleDoes
<1>2. job[c].at = "store" /\ job[c].text = Blank /\ setup' = setup /\ worker' = worker
  BY DEF DropRule, Store, NewFrame
<1>3. /\ kind \in Kinds /\ slice \in Slice /\ elements \in Seq(Strings)
      /\ slice.len \in Nat /\ Len(elements) \in Nat /\ i \in Nat \ {0}
      /\ i <= slice.len /\ slice.len <= Len(elements)
  BY <1>2, AtRule
<1>4. job[c].lines \in Seq(Strings) /\ raw \in Seq(Strings) /\ Len(raw) \in Nat
      /\ (~Copied(kind) => raw = setup[kind] /\ Len(raw) <= Len(array[kind]))
  BY <1>3, JobType, RawType, SetupType
<1>5. /\ slice.copy = <<>> <=> ~Copied(kind)
      /\ slice.copy # <<>> => Len(slice.copy) = Len(raw)
      /\ IF Alone(kind) THEN Looped(elements, raw, slice.len, i)
         ELSE Again(kind, slice, i)
      /\ job[c].text =
           IF Alone(kind) THEN Trim[elements[i]]
           ELSE IF i <= Len(Kept(raw)) THEN Kept(raw)[i] ELSE Trim[Last(raw)]
  BY <1>2 DEF LoopInv
<1>. HIDE DEF elements, raw, slice, i, kind
<1>6. Len(raw) <= Len(elements)
  <2>1. elements = IF slice.copy = <<>> THEN array[kind] ELSE slice.copy
    BY DEF Elements, elements
  <2>. QED  BY <1>4, <1>5, <2>1
<1>7. Alone(kind) => Looped(e, raw, slice.len - 1, i)
  <2>. SUFFICES ASSUME Alone(kind) PROVE Looped(e, raw, slice.len - 1, i)
    OBVIOUS
  <2>1. Trim[elements[i]] = Blank /\ Looped(elements, raw, slice.len, i)
    BY <1>2, <1>5
  <2>. QED  BY <1>3, <1>4, <1>6, <2>1, LoopedDrop
<1>8. ASSUME ~Alone(kind), array'[kind] = e
      PROVE  Stable(kind) /\ AgainAfter(kind, slice.len - 1, i)
  <2>. DEFINE m == Len(Kept(raw))
              x == Trim[Last(raw)]
  <2>1. ~Copied(kind) /\ worker # None /\ raw = setup[kind] /\ elements = array[kind]
    BY <1>4, <1>5, <1>8 DEF Alone, Elements, elements
  <2>2. /\ Clean(kind)
        /\ m <= slice.len /\ slice.len <= Len(raw) /\ i <= slice.len + 1
        /\ raw # <<>> /\ Trim[Last(raw)] = Blank => i <= m + 1
        /\ \A p \in (m + 1)..(i - 1) : array[kind][p] = Trim[Last(raw)]
    BY <1>5, <1>8, <2>1 DEF Again
  <2>3. \A p \in (m + 1)..Len(raw) : array[kind][p] \in {Last(raw), x}
    BY <2>1, <2>2 DEF Clean
  <2>4. m \in Nat
    BY <1>4, KeptType
  <2>5. x = Blank /\ ~ (i <= m)
    <3>1. job[c].text = IF i <= m THEN Kept(raw)[i] ELSE x
      BY <1>5, <1>8
    <3>2. i <= m => Kept(raw)[i] # Blank
      <4>1. i <= m => i \in 1..m
        BY <1>3, <2>4
      <4>. QED  BY <1>4, <4>1, KeptType
    <3>. QED  BY <1>2, <3>1, <3>2
  <2>6. raw # <<>> /\ i = m + 1
    <3>1. Len(raw) > 0
      BY <1>3, <1>4, <2>2
    <3>2. raw # <<>>
      BY <3>1
    <3>. QED  BY <1>3, <2>2, <2>4, <2>5, <3>2
  <2>7. \A p \in 1..Len(raw) :
          array'[kind][p] = IF i <= p /\ p < slice.len THEN array[kind][p + 1] ELSE array[kind][p]
    <3>1. 1..Len(raw) \subseteq DOMAIN elements
      BY <1>3, <1>4, <1>6
    <3>. QED  BY <1>8, <2>1, <3>1
  <2>. HIDE DEF m, e, x
  <2>8. \A p \in 1..Len(raw) :
          array'[kind][p] = array[kind][p] \/ (p > m /\ array'[kind][p] \in {Last(raw), x})
    <3>. SUFFICES ASSUME NEW p \in 1..Len(raw), i <= p, p < slice.len
                  PROVE  p > m /\ array'[kind][p] \in {Last(raw), x}
      BY <2>7
    <3>1. p + 1 \in (m + 1)..Len(raw) /\ p > m
      BY <1>3, <1>4, <2>2, <2>4, <2>6
    <3>. QED  BY <2>3, <2>7, <3>1
  <2>9. Stable(kind)
    BY <2>1, <2>5, <2>8 DEF Stable, m, x
  <2>10. m <= slice.len - 1 /\ slice.len - 1 <= Len(raw) /\ i <= (slice.len - 1) + 1 /\ i <= m + 1
    BY <1>3, <1>4, <2>2, <2>4, <2>6
  <2>11. \A p \in (m + 1)..(i - 1) : FALSE
    BY <2>4, <2>6
  <2>12. AgainAfter(kind, slice.len - 1, i)
    BY <2>1, <2>10, <2>11 DEF AgainAfter, m
  <2>. QED  BY <2>9, <2>12
<1>9. e # <<>> /\ slice.len - 1 \in Nat
  <2>. HIDE DEF e
  <2>. QED  BY <1>1, <1>3
<1>. HIDE DEF e
<1>. QED  BY ONLY TypeOK, Fits, LoopInv(c), c \in Callers \cup {Main}, <1>1, <1>2, <1>3, <1>7, <1>8, <1>9, StoresRound DEF elements, raw, slice, i, kind

\* A call that goes through a round of its loop.
LEMMA RoundKeepsJob ==
  ASSUME TypeOK, Fits, NEW c \in Callers \cup {Main}, setup' = setup, worker' = worker,
         JobInv(c), Looping(c), Round(c)
  PROVE  JobInv(c)'
<1>1. /\ LoopInv(c)' /\ job'[c].at = "trim"
      /\ job'[c].kind = job[c].kind /\ job'[c].lines = job[c].lines
  BY DEF Round
<1>2. job[c].kind = "recording" =>
        /\ job'[c].slices["match"] = job[c].slices["match"] /\ job[c].slices["match"] \in Slice
        /\ AsBefore("match")
  BY JobType DEF Round, AsBefore, Kinds
<1>3. job[c].kind = "recording" =>
        Done("match", job[c].slices["match"], Kept(Raw("match", job[c].lines)))
  BY DEF JobInv, Kinds
<1>4. Raw("match", job[c].lines)' = Raw("match", job[c].lines)
  BY <1>1 DEF Raw, Copied
<1>5. job[c].kind = "recording" =>
        Done("match", job[c].slices["match"], Kept(Raw("match", job[c].lines)))'
  BY <1>2, <1>3, <1>4, DoneStays DEF Kinds
<1>. QED  BY <1>1, <1>5 DEF JobInv, Looping

-----------------------------------------------------------------------------
(* The steps of New, if no file fits behind the flags.                     *)

\* What every step of New but the last leaves to be shown.
Goes(c) ==
  /\ JobInv(c)'
  /\ \A kind \in Kinds : Untouched(kind)' => Untouched(kind) /\ array'[kind] = array[kind]
  /\ \A kind \in Kinds : AsBefore(kind) \/ worker = None

LEMMA ArraysStay == array' = array => \A kind \in Kinds : AsBefore(kind)
BY DEF AsBefore

LEMMA CallNewGoes ==
  ASSUME TypeOK, WorkerInv, NEW c \in Callers \cup {Main}, CallNew(c)
  PROVE  Goes(c)
<1>1. setup' = setup /\ worker' = worker /\ array' = array /\ job[c].at = "idle"
  BY DEF CallNew, NewFrame
<1>2. Becomes(c, [Idle EXCEPT !.at = "rules"])
  BY CallNewDoes
<1>3. /\ job'[c].at = "rules" /\ job'[c].kind = "match" /\ job'[c].i = 1 /\ job'[c].lines = <<>>
      /\ Main # c => job'[Main] = job[Main]
  BY <1>2 DEF Becomes, Idle
<1>4. JobInv(c)'
  BY <1>3 DEF JobInv, Looping
<1>5. \A kind \in Kinds : Untouched(kind)' => Untouched(kind)
  BY <1>1, <1>3 DEF Untouched, Copied, Looping
<1>. QED  BY <1>1, <1>4, <1>5, ArraysStay DEF Goes

LEMMA NewFailsGoes ==
  ASSUME TypeOK, NEW c \in Callers \cup {Main}, NewFails(c)
  PROVE  Goes(c)
<1>1. setup' = setup /\ worker' = worker /\ array' = array
  BY DEF NewFails, NewFrame
<1>2. Becomes(c, IF c = Main THEN [Idle EXCEPT !.at = "failed"] ELSE Idle)
  BY NewFailsDoes
<1>3. /\ job'[c].at = (IF c = Main THEN "failed" ELSE "idle") /\ job'[c].lines = <<>>
      /\ Main # c => job'[Main] = job[Main]
  BY <1>2 DEF Becomes, Idle
<1>4. JobInv(c)'
  BY <1>3 DEF JobInv, Looping
<1>5. \A kind \in Kinds : Untouched(kind)' => Untouched(kind)
  BY <1>1, <1>3 DEF Untouched, Copied, Looping
<1>. QED  BY <1>1, <1>4, <1>5, ArraysStay DEF Goes

\* The loop over the rules of a kind begins at the flags.
LEMMA LoopBegins ==
  ASSUME TypeOK, Fits, ArraysInv, WorkerInv, NEW c \in Callers \cup {Main},
         setup' = setup, worker' = worker, array' = array,
         NEW kind \in Kinds, ~Copied(kind), Untouched(kind) \/ worker # None,
         job'[c].at = "trim", job'[c].kind = kind, job'[c].i = 1,
         job'[c].slices[kind] = Shared(Len(setup[kind]))
  PROVE  LoopInv(c)'
<1>1. /\ worker = None => Looped(array[kind], setup[kind], Len(setup[kind]), 1)
      /\ worker # None => Again(kind, Shared(Len(setup[kind])), 1)
  BY LoopStarts
<1>. DEFINE sl == Shared(Len(setup[kind]))
<1>2. sl.copy = <<>> /\ sl.len = Len(setup[kind]) /\ sl \in Slice
  BY SetupType DEF Shared, Slice
<1>. HIDE DEF sl
<1>3. AsBefore(kind)
  BY DEF AsBefore
<1>4. \A i \in Nat \ {0} : Again(kind, sl, i) => Again(kind, sl, i)'
  BY <1>2, <1>3, AgainStays DEF sl
<1>5. Raw(kind, job'[c].lines) = setup[kind]
  BY DEF Raw
<1>6. (Raw(job[c].kind, job[c].lines))' = setup[kind]
  BY DEF Raw, Copied
<1>7. (Elements(job[c].kind, job[c].slices[job[c].kind]))' = array[kind]
  BY <1>2 DEF Elements, sl
<1>8. (Copied(job[c].kind))' <=> Copied(kind)
  BY DEF Copied
<1>9. (Alone(job[c].kind))' <=> worker = None
  BY DEF Alone, Copied
<1>10. worker # None => (Again(job[c].kind, job[c].slices[job[c].kind], job[c].i))'
  <2>1. worker # None => Again(kind, sl, 1)'
    <3>1. 1 \in Nat \ {0}
      OBVIOUS
    <3>. QED  BY <1>1, <1>4, <3>1 DEF sl
  <2>. QED  BY <2>1 DEF sl
<1>11. job'[c].slices[job'[c].kind] = sl
  BY DEF sl
<1>. QED  BY <1>1, <1>2, <1>6, <1>7, <1>8, <1>9, <1>10, <1>11 DEF LoopInv

LEMMA TakeFlagsGoes ==
  ASSUME TypeOK, Fits, ArraysInv, WorkerInv, NEW c \in Callers \cup {Main}, JobInv(c), TakeFlags(c)
  PROVE  Goes(c)
<1>1. setup' = setup /\ worker' = worker /\ array' = array /\ job[c].at = "rules" /\ ~setup.file
  BY DEF TakeFlags, NewFrame
<1>. DEFINE j == [job[c] EXCEPT !.at = "trim",
                    !.slices = [job[c].slices EXCEPT !["match"] = Shared(Len(setup.match))]]
<1>2. Becomes(c, j)
  BY TakeFlagsDoes
<1>3. job[c] \in Job /\ job[c].slices \in [Kinds -> Slice] /\ "match" \in Kinds
  BY JobType DEF Kinds
<1>4. job[c].kind = "match" /\ job[c].i = 1 /\ job[c].lines = <<>>
  BY <1>1 DEF JobInv
<1>5. /\ j.at = "trim" /\ j.kind = "match" /\ j.i = 1 /\ j.lines = <<>>
      /\ j.slices["match"] = Shared(Len(setup.match))
  BY <1>3, <1>4 DEF Job
<1>. HIDE DEF j
<1>6. job'[c] = j /\ (Main # c => job'[Main] = job[Main])
  BY <1>2 DEF Becomes
<1>7. ~Copied("match") /\ setup.match = setup["match"]
  BY <1>1 DEF Copied
<1>8. Untouched("match") \/ worker # None
  BY <1>1, MainFirst DEF Untouched
<1>9. LoopInv(c)'
  BY <1>1, <1>3, <1>5, <1>6, <1>7, <1>8, LoopBegins
<1>10. JobInv(c)'
  BY <1>5, <1>6, <1>9 DEF JobInv
<1>11. \A kind \in Kinds : Untouched(kind)' => Untouched(kind)
  BY <1>1, <1>5, <1>6 DEF Untouched, Copied, Looping
<1>. QED  BY <1>1, <1>10, <1>11, ArraysStay DEF Goes

LEMMA TakeRecordingRulesGoes ==
  ASSUME TypeOK, Fits, ArraysInv, WorkerInv, NEW c \in Callers \cup {Main}, JobInv(c),
         TakeRecordingRules(c)
  PROVE  Goes(c)
<1>1. setup' = setup /\ worker' = worker /\ array' = array /\ job[c].at = "trim"
      /\ job[c].kind = "match" /\ job[c].i > job[c].slices["match"].len
  BY DEF TakeRecordingRules, NewFrame
<1>. DEFINE j == [job[c] EXCEPT !.kind = "recording", !.i = 1,
                    !.slices = [job[c].slices EXCEPT !["recording"] = Shared(Len(setup.recording))]]
<1>2. Becomes(c, j)
  BY TakeRecordingRulesDoes
<1>3. job[c] \in Job /\ job[c].slices \in [Kinds -> Slice] /\ "recording" \in Kinds /\ "match" \in Kinds
      /\ job[c].slices["match"] \in Slice
  BY JobType DEF Kinds
<1>4. LoopInv(c) /\ (~setup.file => job[c].lines = <<>>)
  BY <1>1 DEF JobInv, Looping
<1>5. /\ j.at = "trim" /\ j.kind = "recording" /\ j.i = 1 /\ j.lines = job[c].lines
      /\ j.slices["recording"] = Shared(Len(setup.recording))
      /\ j.slices["match"] = job[c].slices["match"]
  BY <1>1, <1>3 DEF Job
<1>. HIDE DEF j
<1>6. job'[c] = j /\ (Main # c => job'[Main] = job[Main])
  BY <1>2 DEF Becomes
<1>7. ~Copied("recording") /\ setup.recording = setup["recording"]
  BY DEF Copied
<1>8. Untouched("recording") \/ worker # None
  BY <1>1, MainFirst DEF Untouched, Looping
<1>9. LoopInv(c)'
  BY <1>1, <1>3, <1>5, <1>6, <1>7, <1>8, LoopBegins
<1>10. Done("match", job[c].slices["match"], Kept(Raw("match", job[c].lines)))
  BY <1>1, <1>4, LoopEnds
<1>11. Raw("match", job[c].lines)' = Raw("match", job[c].lines)
  BY <1>1, <1>5, <1>6 DEF Raw, Copied
<1>12. Done("match", job[c].slices["match"], Kept(Raw("match", job[c].lines)))'
  BY <1>1, <1>3, <1>5, <1>6, <1>10, <1>11, DoneStays, ArraysStay
<1>13. JobInv(c)'
  BY <1>1, <1>4, <1>5, <1>6, <1>9, <1>12 DEF JobInv, Looping
<1>14. \A kind \in Kinds : Untouched(kind)' => Untouched(kind)
  BY <1>1, <1>5, <1>6 DEF Untouched, Copied, Looping
<1>. QED  BY <1>1, <1>13, <1>14, ArraysStay DEF Goes

LEMMA EndRulesGoes ==
  ASSUME TypeOK, Fits, NEW c \in Callers \cup {Main}, JobInv(c), EndRules(c)
  PROVE  Goes(c)
<1>1. setup' = setup /\ worker' = worker /\ array' = array /\ job[c].at = "trim"
      /\ job[c].kind = "recording" /\ job[c].i > job[c].slices["recording"].len
  BY DEF EndRules, NewFrame
<1>2. Becomes(c, [job[c] EXCEPT !.at = "status"])
  BY EndRulesDoes
<1>3. job[c] \in Job /\ \A kind \in Kinds : job[c].slices[kind] \in Slice
  BY JobType
<1>4. /\ job'[c].at = "status" /\ job'[c].slices = job[c].slices /\ job'[c].lines = job[c].lines
      /\ Main # c => job'[Main] = job[Main]
  BY <1>2, <1>3 DEF Becomes, Job
<1>5. LoopInv(c) /\ (~setup.file => job[c].lines = <<>>)
      /\ Done("match", job[c].slices["match"], Kept(Raw("match", job[c].lines)))
  BY <1>1 DEF JobInv, Looping, Kinds
<1>6. Done("recording", job[c].slices["recording"], Kept(Raw("recording", job[c].lines)))
  BY <1>1, <1>5, LoopEnds
<1>7. \A kind \in Kinds : Done(kind, job[c].slices[kind], Kept(Raw(kind, job[c].lines)))'
  <2>. SUFFICES ASSUME NEW kind \in Kinds
                PROVE  Done(kind, job[c].slices[kind], Kept(Raw(kind, job[c].lines)))'
    OBVIOUS
  <2>1. Raw(kind, job[c].lines)' = Raw(kind, job[c].lines)
    BY <1>1, <1>4 DEF Raw, Copied
  <2>2. Done(kind, job[c].slices[kind], Kept(Raw(kind, job[c].lines)))
    BY <1>5, <1>6 DEF Kinds
  <2>. QED  BY <1>1, <1>3, <1>4, <2>1, <2>2, DoneStays, ArraysStay
<1>8. JobInv(c)'
  BY <1>1, <1>4, <1>5, <1>7 DEF JobInv, Looping
<1>9. \A kind \in Kinds : Untouched(kind)' => Untouched(kind)
  BY <1>1, <1>4 DEF Untouched, Copied, Looping
<1>. QED  BY <1>1, <1>8, <1>9, ArraysStay DEF Goes

\* Without room behind the flags, the loop begins at an array of its own.
LEMMA AppendFileGoes ==
  ASSUME NoRoom, TypeOK, Fits, ArraysInv, WorkerInv, NEW c \in Callers \cup {Main}, JobInv(c),
         AppendFile(c)
  PROVE  Goes(c)
<1>1. setup' = setup /\ worker' = worker /\ job[c].at = "rules" /\ setup.file
  BY DEF AppendFile, NewFrame
<1>2. PICK lines \in Files :
        LET n   == Len(setup.match)
            all == SubSeq(array["match"], 1, n) \o lines
            inPlace == Len(all) <= Len(array["match"])
        IN  /\ all \in Seq(Strings) /\ all # <<>> /\ Len(all) = n + Len(lines)
            /\ inPlace \/ array' = array
            /\ Becomes(c, [job[c] EXCEPT !.at = "trim", !.lines = lines,
                 !.slices = [job[c].slices EXCEPT !["match"] =
                   [copy |-> IF inPlace THEN <<>> ELSE all, len |-> Len(all)]]])
  BY AppendFileDoes
<1>. DEFINE n   == Len(setup.match)
            A   == array["match"]
            all == SubSeq(A, 1, n) \o lines
            sl  == [copy |-> all, len |-> Len(all)]
            j   == [job[c] EXCEPT !.at = "trim", !.lines = lines,
                      !.slices = [job[c].slices EXCEPT !["match"] = sl]]
<1>3. /\ setup \in Setups /\ setup.match = setup["match"] /\ "match" \in Kinds
      /\ Len(A) = Capacity(n)
  BY DEF TypeOK, Fits, Kinds
<1>4. /\ setup.match \in Seq(Strings) /\ n \in Nat /\ n <= Len(A) /\ Len(A) \in Nat /\ A \in Seq(Strings)
      /\ lines \in Seq(Strings)
  BY <1>3, SetupType, RulesAssumption
<1>5. n + Len(lines) > Len(A)
  BY <1>1, <1>3 DEF NoRoom
<1>6. /\ all \in Seq(Strings) /\ all # <<>> /\ Len(all) = n + Len(lines)
      /\ ~ (Len(all) <= Len(A))
  BY <1>2, <1>4, <1>5
<1>7. array' = array /\ Becomes(c, j)
  BY <1>2, <1>6
<1>8. all = setup.match \o lines
  <2>1. \A p \in 1..n : A[p] = setup.match[p]
    BY <1>1, <1>3 DEF ArraysInv, Untouched, Copied
  <2>. HIDE DEF A
  <2>2. SubSeq(A, 1, n) \in Seq(Strings) /\ Len(SubSeq(A, 1, n)) = n
        /\ \A p \in 1..n : SubSeq(A, 1, n)[p] = setup.match[p]
    BY <1>4, <2>1
  <2>3. SubSeq(A, 1, n) = setup.match
    BY <1>4, <2>2, SeqEqual
  <2>. QED  BY <2>3
<1>9. job[c] \in Job /\ job[c].slices \in [Kinds -> Slice] /\ job[c].kind = "match" /\ job[c].i = 1
  BY <1>1, JobType DEF JobInv
<1>. HIDE DEF all, A, n
<1>10. /\ j.at = "trim" /\ j.kind = "match" /\ j.i = 1 /\ j.lines = lines
       /\ j.slices["match"] = sl
  BY <1>3, <1>9 DEF Job
<1>. HIDE DEF j
<1>11. sl.copy = all /\ sl.len = Len(all)
  OBVIOUS
<1>. HIDE DEF sl
<1>12. job'[c] = j /\ (Main # c => job'[Main] = job[Main])
  BY <1>7 DEF Becomes
<1>13. (Raw(job[c].kind, job[c].lines))' = all
  BY <1>1, <1>8, <1>10, <1>12 DEF Raw, Copied
<1>14. (Elements(job[c].kind, job[c].slices[job[c].kind]))' = all
  BY <1>6, <1>10, <1>11, <1>12 DEF Elements
<1>15. (Copied(job[c].kind))' /\ (Alone(job[c].kind))'
  BY <1>1, <1>10, <1>12 DEF Copied, Alone
<1>16. Looped(all, all, Len(all), 1)
  BY <1>6, LoopedStart
<1>17. LoopInv(c)'
  BY <1>6, <1>10, <1>11, <1>12, <1>13, <1>14, <1>15, <1>16 DEF LoopInv
<1>18. JobInv(c)'
  BY <1>1, <1>10, <1>12, <1>17 DEF JobInv
<1>19. \A kind \in Kinds : Untouched(kind)' => Untouched(kind)
  BY <1>1, <1>9, <1>10, <1>12 DEF Untouched, Copied, Looping
<1>. QED  BY <1>7, <1>18, <1>19, ArraysStay DEF Goes

LEMMA TrimRuleGoes ==
  ASSUME TypeOK, Fits, NEW c \in Callers \cup {Main}, JobInv(c), TrimRule(c)
  PROVE  Goes(c)
<1>. DEFINE kind     == job[c].kind
            slice    == job[c].slices[kind]
            raw      == Raw(kind, job[c].lines)
            i        == job[c].i
            elements == Elements(kind, slice)
            text     == Trim[elements[i]]
            j        == [job[c] EXCEPT !.at = "store", !.text = text]
<1>1. setup' = setup /\ worker' = worker /\ array' = array /\ job[c].at = "trim" /\ i <= slice.len
  BY DEF TrimRule, NewFrame
<1>2. Becomes(c, j)
  BY TrimRuleDoes
<1>3. job[c] \in Job /\ kind \in Kinds /\ slice \in Slice /\ i \in Nat \ {0} /\ slice.len \in Nat
      /\ job[c].lines \in Seq(Strings) /\ \A other \in Kinds : job[c].slices[other] \in Slice
  BY JobType DEF Slice
<1>4. LoopInv(c) /\ (~setup.file => job[c].lines = <<>>)
  BY <1>1 DEF JobInv, Looping
<1>5. raw \in Seq(Strings) /\ Len(raw) \in Nat /\ (~Copied(kind) => raw = setup[kind])
  BY <1>3, RawType
<1>6. /\ slice.copy = <<>> <=> ~Copied(kind)
      /\ slice.copy # <<>> => Len(slice.copy) = Len(raw)
      /\ IF Alone(kind) THEN Looped(elements, raw, slice.len, i)
         ELSE Again(kind, slice, i)
  BY <1>4 DEF LoopInv
<1>. HIDE DEF kind, slice, raw, i, elements
<1>7. ~Alone(kind) => text = IF i <= Len(Kept(raw)) THEN Kept(raw)[i] ELSE Trim[Last(raw)]
  <2>. DEFINE m == Len(Kept(raw))
  <2>. SUFFICES ASSUME ~Alone(kind) PROVE text = IF i <= m THEN Kept(raw)[i] ELSE Trim[Last(raw)]
    OBVIOUS
  <2>1. elements = array[kind] /\ raw = setup[kind] /\ Clean(kind) /\ slice.len <= Len(raw)
    BY <1>5, <1>6 DEF Alone, Again, Elements, elements
  <2>2. /\ \A p \in 1..m : elements[p] = Kept(raw)[p]
        /\ \A p \in (m + 1)..Len(raw) : elements[p] \in {Last(raw), Trim[Last(raw)]}
    BY <2>1 DEF Clean
  <2>3. m \in Nat /\ \A p \in 1..m : Trim[Kept(raw)[p]] = Kept(raw)[p]
    BY <1>5, KeptType
  <2>. HIDE DEF m
  <2>4. CASE i <= m
    <3>1. i \in 1..m
      BY <1>3, <2>3, <2>4
    <3>. QED  BY <2>2, <2>3, <2>4, <3>1
  <2>5. CASE ~ (i <= m)
    <3>1. i \in (m + 1)..Len(raw) /\ Len(raw) \in 1..Len(raw)
      BY <1>1, <1>3, <1>5, <2>1, <2>3, <2>5
    <3>2. Last(raw) \in Strings
      BY <1>5, <3>1 DEF Last
    <3>. QED  BY <2>2, <2>5, <3>1, <3>2, RulesAssumption
  <2>. QED  BY <2>4, <2>5
<1>8. /\ j.at = "store" /\ j.kind = kind /\ j.slices = job[c].slices /\ j.i = i /\ j.text = text
      /\ j.lines = job[c].lines
  BY <1>3 DEF Job, kind, i
<1>. HIDE DEF j, text
<1>9. job'[c] = j /\ (Main # c => job'[Main] = job[Main])
  BY <1>2 DEF Becomes
<1>10. /\ job'[c].at = "store" /\ job'[c].kind = kind /\ job'[c].slices[kind] = slice
       /\ job'[c].i = i /\ job'[c].text = text /\ job'[c].lines = job[c].lines
       /\ job'[c].slices = job[c].slices
  BY <1>8, <1>9 DEF slice
<1>11. (Raw(job[c].kind, job[c].lines))' = raw
  BY <1>1, <1>10 DEF Raw, Copied, raw
<1>12. (Elements(job[c].kind, job[c].slices[job[c].kind]))' = elements
  BY <1>1, <1>10 DEF Elements, elements
<1>13. ((Copied(job[c].kind))' <=> Copied(kind)) /\ ((Alone(job[c].kind))' <=> Alone(kind))
  BY <1>1, <1>10 DEF Copied, Alone
<1>14. ~Alone(kind) => (Again(job[c].kind, job[c].slices[job[c].kind], job[c].i))'
  BY <1>1, <1>3, <1>6, <1>10, AgainStays, ArraysStay
<1>15. Alone(kind) => text = Trim[elements[i]]
  BY DEF text
<1>16. LoopInv(c)'
  BY <1>6, <1>7, <1>10, <1>11, <1>12, <1>13, <1>14, <1>15 DEF LoopInv
<1>17. kind = "recording" =>
         Done("match", job[c].slices["match"], Kept(Raw("match", job[c].lines)))'
  <2>. SUFFICES ASSUME kind = "recording"
                PROVE  Done("match", job[c].slices["match"], Kept(Raw("match", job[c].lines)))'
    OBVIOUS
  <2>1. Raw("match", job[c].lines)' = Raw("match", job[c].lines)
    BY <1>1, <1>10 DEF Raw, Copied
  <2>2. Done("match", job[c].slices["match"], Kept(Raw("match", job[c].lines)))
    BY <1>1 DEF JobInv, Looping, Kinds, kind
  <2>. QED  BY <1>1, <1>3, <1>10, <2>1, <2>2, DoneStays, ArraysStay DEF Kinds
<1>18. JobInv(c)'
  BY <1>1, <1>4, <1>10, <1>16, <1>17 DEF JobInv, Looping
<1>19. \A other \in Kinds : Untouched(other)' => Untouched(other)
  BY <1>1, <1>9, <1>10 DEF Untouched, Copied, Looping, kind
<1>. QED  BY <1>1, <1>18, <1>19, ArraysStay DEF Goes

LEMMA RoundGoes ==
  ASSUME TypeOK, Fits, WorkerInv, NEW c \in Callers \cup {Main}, JobInv(c), KeepRule(c) \/ DropRule(c)
  PROVE  Goes(c)
<1>1. setup' = setup /\ worker' = worker /\ job[c].at = "store"
  BY DEF KeepRule, DropRule, Store, NewFrame
<1>2. LoopInv(c) /\ Looping(c)
  BY <1>1 DEF JobInv, Looping
<1>3. Round(c)
  BY <1>2, KeepRuleRound, DropRuleRound
<1>4. JobInv(c)'
  BY <1>1, <1>2, <1>3, RoundKeepsJob
<1>5. \A d \in Callers \cup {Main} : d # c => job'[d] = job[d]
  BY KeepRuleDoes, DropRuleDoes DEF Stores, Becomes
<1>6. worker = None <=> c = Main
  BY <1>1, MainFirst
<1>7. \A kind \in Kinds : AsBefore(kind) \/ worker = None
  BY <1>3 DEF Round, AsBefore
<1>8. ASSUME NEW kind \in Kinds, Untouched(kind)'
      PROVE  Untouched(kind) /\ array'[kind] = array[kind]
  <2>1. CASE Copied(kind)
    <3>1. Untouched(kind)
      BY <2>1 DEF Untouched
    <3>. QED  BY <1>3, <2>1, <3>1 DEF Round, AsBefore
  <2>2. CASE ~Copied(kind)
    <3>1. worker = None /\ c = Main /\ job'[Main].at = "trim" /\ job'[Main].kind = job[Main].kind
      BY <1>1, <1>3, <1>6, <1>8, <2>2 DEF Untouched, Copied, Round
    <3>2. kind = "recording" /\ job[Main].kind = "match"
      BY <1>8, <2>2, <1>1, <3>1 DEF Untouched, Copied
    <3>. QED  BY <1>2, <1>3, <3>1, <3>2 DEF Untouched, Round
  <2>. QED  BY <2>1, <2>2
<1>. QED  BY <1>4, <1>7, <1>8 DEF Goes

-----------------------------------------------------------------------------
(* The invariant for arrays without room.                                  *)

\* The rules that a slice gives are those that should be there, the last of
\* them repeated: before the step, and after it.
LEMMA ValueStays ==
  ASSUME TypeOK, TypeOK', NEW kind \in Kinds, NEW slice \in Slice, NEW kept,
         slice.len <= Len(Elements(kind, slice)), slice.len <= Len(Elements(kind, slice)'),
         Done(kind, slice, kept), Done(kind, slice, kept)'
  PROVE  Value(kind, slice)' = Value(kind, slice)
<1>. DEFINE E == Elements(kind, slice)
            F == IF slice.copy = <<>> THEN array'[kind] ELSE slice.copy
            n == slice.len
<1>1. Elements(kind, slice)' = F
  BY DEF Elements
<1>2. E \in Seq(Strings) /\ F \in Seq(Strings) /\ n \in Nat /\ n <= Len(E) /\ n <= Len(F)
  <2>1. array'[kind] \in Seq(Strings)
    BY DEF TypeOK
  <2>. QED  BY <1>1, <2>1, ElementsType
<1>3. \A p \in 1..n : E[p] = kept[Clamp(p, kept)] /\ F[p] = kept[Clamp(p, kept)]
  BY <1>1 DEF Done
<1>. HIDE DEF E, F, n
<1>4. /\ SubSeq(E, 1, n) \in Seq(Strings) /\ Len(SubSeq(E, 1, n)) = n
      /\ SubSeq(F, 1, n) \in Seq(Strings) /\ Len(SubSeq(F, 1, n)) = n
      /\ \A p \in 1..n : SubSeq(E, 1, n)[p] = E[p] /\ SubSeq(F, 1, n)[p] = F[p]
  BY <1>2
<1>5. SubSeq(F, 1, n) = SubSeq(E, 1, n)
  BY <1>3, <1>4, SeqEqual
<1>. QED  BY <1>1, <1>5 DEF Value, E, n

\* The Worker in use, if its slices and what they should be stay as they are.
LEMMA WorkerStays ==
  ASSUME TypeOK, Fits, TypeOK', Fits', WorkerInv, worker # None,
         setup' = setup, worker' = worker, wanted' = wanted,
         \A kind \in Kinds : AsBefore(kind)
  PROVE  \A kind \in Kinds : /\ Done(kind, worker[kind], wanted[kind])'
                             /\ Value(kind, worker[kind])' = Value(kind, worker[kind])
<1>. SUFFICES ASSUME NEW kind \in Kinds
              PROVE  /\ Done(kind, worker[kind], wanted[kind])'
                     /\ Value(kind, worker[kind])' = Value(kind, worker[kind])
  OBVIOUS
<1>1. worker[kind] \in Slice /\ Done(kind, worker[kind], wanted[kind])
  BY DEF TypeOK, WorkerInv
<1>2. Done(kind, worker[kind], wanted[kind])'
  BY <1>1, DoneStays
<1>3. worker[kind].len <= Len(Elements(kind, worker[kind]))
      /\ (worker[kind].len <= Len(Elements(kind, worker[kind])))'
  BY DEF Fits
<1>4. Value(kind, worker[kind])' = Value(kind, worker[kind])
  BY <1>1, <1>2, <1>3, ValueStays
<1>. QED  BY <1>2, <1>4

LEMMA NewStepGoes ==
  ASSUME NoRoom, IndInv, NEW c \in Callers \cup {Main}, NewStep(c), ~Install(c)
  PROVE  Goes(c) /\ (worker = None <=> c = Main)
<1>1. TypeOK /\ Fits /\ ArraysInv /\ WorkerInv /\ JobInv(c)
  <2>1. DOMAIN job = Callers \cup {Main}
    BY DEF IndInv, BaseInv, TypeOK
  <2>. QED  BY <2>1 DEF IndInv, BaseInv
<1>2. Goes(c)
  BY <1>1, CallNewGoes, NewFailsGoes, TakeFlagsGoes, AppendFileGoes, TrimRuleGoes, RoundGoes,
     TakeRecordingRulesGoes, EndRulesGoes DEF NewStep
<1>3. worker = None <=> c = Main
  <2>1. CASE job[c].at = "idle"
    BY <2>1 DEF NewStep, CallNew, NewFails, TakeFlags, AppendFile, TrimRule, KeepRule, DropRule,
               TakeRecordingRules, EndRules
  <2>2. CASE job[c].at # "idle"
    BY <1>1, <2>2, MainFirst
  <2>. QED  BY <2>1, <2>2
<1>. QED  BY <1>2, <1>3

LEMMA AskedStays ==
  ASSUME Asked, pc' = pc, k' = k, params' = params, url' = url, sent' = sent, recorded' = recorded,
         worker' = worker, wanted' = wanted,
         pc = "match" => Value("match", worker["match"])' = Value("match", worker["match"])
  PROVE  Asked'
<1>1. Queries' = Queries
  BY DEF Queries
<1>. QED  BY <1>1 DEF Asked

LEMMA NewStepKeepsInd ==
  ASSUME NoRoom, IndInv, NEW c \in Callers \cup {Main}, NewStep(c), ~Install(c)
  PROVE  IndInv'
<1>1. BaseInv /\ TypeOK /\ Fits /\ ArraysInv /\ WorkerInv /\ Asked
      /\ \A d \in Callers \cup {Main} : JobInv(d)
  <2>1. DOMAIN job = Callers \cup {Main}
    BY DEF IndInv, BaseInv, TypeOK
  <2>. QED  BY <2>1 DEF IndInv, BaseInv
<1>2. BaseInv' /\ TypeOK' /\ Fits'
  BY <1>1, NewStepKeepsBase DEF BaseInv
<1>3. Changes(c) /\ worker' = worker /\ wanted' = wanted
  BY <1>1, NewStepChanges
<1>4. /\ setup' = setup
      /\ \A d \in Callers \cup {Main} : d # c => job'[d] = job[d]
      /\ pc' = pc /\ k' = k /\ params' = params /\ url' = url /\ sent' = sent /\ recorded' = recorded
  BY <1>3 DEF Changes
<1>5. Goes(c) /\ (worker = None <=> c = Main)
  BY NewStepGoes
<1>6. JobInv(c)'
      /\ (\A kind \in Kinds : Untouched(kind)' => Untouched(kind) /\ array'[kind] = array[kind])
      /\ (\A kind \in Kinds : AsBefore(kind) \/ worker = None)
  BY <1>5 DEF Goes
<1>7. ArraysInv'
  BY <1>1, <1>4, <1>6 DEF ArraysInv
<1>8. ASSUME NEW d \in Callers \cup {Main}, d # c PROVE JobInv(d)'
  <2>1. CASE worker = None
    <3>1. d \in Callers /\ job'[d] = job[d] /\ job[d].at = "idle" /\ JobInv(d)
      BY <1>1, <1>4, <1>5, <1>8, <2>1 DEF WorkerInv
    <3>. QED  BY <1>4, <3>1 DEF JobInv, Looping
  <2>2. CASE worker # None
    <3>1. \A kind \in Kinds : AsBefore(kind)
      BY <1>6, <2>2
    <3>. QED  BY <1>1, <1>3, <1>4, <1>8, <3>1, JobStays
  <2>. QED  BY <2>1, <2>2
<1>9. worker # None => \A kind \in Kinds : /\ Done(kind, worker[kind], wanted[kind])'
                                          /\ Value(kind, worker[kind])' = Value(kind, worker[kind])
  BY <1>1, <1>2, <1>3, <1>4, <1>6, WorkerStays
<1>10. WorkerInv'
  <2>1. CASE worker = None
    <3>1. \A d \in Callers : job'[d].at = "idle"
      BY <1>1, <1>4, <1>5, <2>1, RulesAssumption DEF WorkerInv
    <3>. QED  BY <1>3, <2>1, <3>1 DEF WorkerInv
  <2>2. CASE worker # None
    <3>1. job'[Main].at = "idle"
      BY <1>1, <1>4, <1>5, <2>2 DEF WorkerInv
    <3>. QED  BY <1>3, <1>9, <2>2, <3>1 DEF WorkerInv
  <2>. QED  BY <2>1, <2>2
<1>11. Asked'
  <2>1. pc = "match" => worker # None
    BY <1>1 DEF Fits
  <2>. QED  BY <1>1, <1>3, <1>4, <1>9, <2>1, AskedStays DEF Kinds
<1>12. DOMAIN job' = Callers \cup {Main}
  BY <1>2 DEF TypeOK
<1>. QED  BY <1>2, <1>6, <1>7, <1>8, <1>10, <1>11, <1>12 DEF IndInv

LEMMA InstallKeepsInd ==
  ASSUME IndInv, NEW c \in Callers \cup {Main}, Install(c)
  PROVE  IndInv'
<1>1. BaseInv /\ TypeOK /\ Fits /\ ArraysInv /\ WorkerInv /\ Asked
      /\ \A d \in Callers \cup {Main} : JobInv(d)
  <2>1. DOMAIN job = Callers \cup {Main}
    BY DEF IndInv, BaseInv, TypeOK
  <2>. QED  BY <2>1 DEF IndInv, BaseInv
<1>2. BaseInv' /\ TypeOK' /\ Fits'
  <2>1. NewStep(c)
    BY DEF NewStep
  <2>. QED  BY <1>1, <2>1, NewStepKeepsBase DEF BaseInv
<1>3. /\ setup' = setup /\ array' = array /\ job[c].at = "status" /\ pc = "idle"
      /\ worker' = job[c].slices
      /\ wanted' = [match     |-> Kept(setup.match \o job[c].lines),
                    recording |-> Kept(setup.recording)]
      /\ pc' = pc /\ k' = k /\ params' = params /\ url' = url /\ sent' = sent /\ recorded' = recorded
  BY DEF Install, forwardVars
<1>4. Becomes(c, Idle)
  BY <1>1, InstallDoes
<1>5. /\ \A d \in Callers \cup {Main} : d # c => job'[d] = job[d]
      /\ job'[c].at = "idle" /\ job'[c].lines = <<>>
  BY <1>4 DEF Becomes, Idle
<1>6. worker = None <=> c = Main
  BY <1>1, <1>3, MainFirst
<1>7. worker' # None /\ \A kind \in Kinds : job[c].slices[kind] \in Slice
  <2>1. job[c].slices \in [Kinds -> Slice]
    BY <1>1, JobType
  <2>. QED  BY <1>3, <2>1, RulesAssumption DEF Slice
<1>8. \A kind \in Kinds : Done(kind, job[c].slices[kind], Kept(Raw(kind, job[c].lines)))
  BY <1>1, <1>3 DEF JobInv
<1>9. \A kind \in Kinds : wanted'[kind] = Kept(Raw(kind, job[c].lines))
  <2>1. setup.match = setup["match"] /\ setup.recording = setup["recording"]
    BY <1>1 DEF TypeOK
  <2>2. setup["match"] \in Seq(Strings)
    BY <1>1, SetupType DEF Kinds
  <2>3. Copied("match") => Raw("match", job[c].lines) = setup.match \o job[c].lines
    BY DEF Raw
  <2>4. ~Copied("match") => Raw("match", job[c].lines) = setup.match \o job[c].lines
    <3>. SUFFICES ASSUME ~Copied("match") PROVE Raw("match", job[c].lines) = setup.match \o job[c].lines
      OBVIOUS
    <3>1. job[c].lines = <<>>
      BY <1>1 DEF JobInv, Copied
    <3>2. setup.match \o <<>> = setup.match
      BY <2>1, <2>2
    <3>. QED  BY <2>1, <3>1, <3>2 DEF Raw
  <2>5. Raw("recording", job[c].lines) = setup.recording
    BY <2>1 DEF Raw, Copied
  <2>6. wanted'["match"] = Kept(setup.match \o job[c].lines) /\ wanted'["recording"] = Kept(setup.recording)
    BY <1>3
  <2>. QED  BY <2>3, <2>4, <2>5, <2>6 DEF Kinds
<1>10. job'[Main].at = "idle"
  <2>1. CASE c = Main
    BY <1>5, <2>1
  <2>2. CASE c # Main
    BY <1>1, <1>5, <1>6, <2>2 DEF WorkerInv
  <2>. QED  BY <2>1, <2>2
<1>11. WorkerInv'
  <2>1. \A kind \in Kinds : Done(kind, worker[kind], wanted[kind])'
    <3>. SUFFICES ASSUME NEW kind \in Kinds PROVE Done(kind, worker[kind], wanted[kind])'
      OBVIOUS
    <3>1. worker'[kind] = job[c].slices[kind] /\ wanted'[kind] = Kept(Raw(kind, job[c].lines))
      BY <1>3, <1>9
    <3>. QED  BY <1>1, <1>3, <1>7, <1>8, <3>1, DoneStays, ArraysStay
  <2>. QED  BY <1>7, <1>10, <2>1 DEF WorkerInv
<1>12. ArraysInv'
  <2>1. \A kind \in Kinds : Untouched(kind)' => Untouched(kind)
    BY <1>3, <1>7 DEF Untouched, Copied
  <2>. QED  BY <1>1, <1>3, <2>1 DEF ArraysInv
<1>13. ASSUME NEW d \in Callers \cup {Main} PROVE JobInv(d)'
  <2>1. CASE d = c
    BY <1>5, <2>1 DEF JobInv, Looping
  <2>2. CASE d # c /\ job[d].at = "idle"
    <3>1. job'[d] = job[d] /\ JobInv(d)
      BY <1>1, <1>5, <2>2
    <3>. QED  BY <1>3, <2>2, <3>1 DEF JobInv, Looping
  <2>3. CASE d # c /\ job[d].at # "idle"
    <3>1. worker # None /\ job'[d] = job[d]
      BY <1>1, <1>5, <1>6, <2>3, MainFirst
    <3>. QED  BY <1>1, <1>3, <1>7, <3>1, JobStays, ArraysStay
  <2>. QED  BY <2>1, <2>2, <2>3
<1>14. Asked'
  BY <1>1, <1>3 DEF Asked
<1>15. DOMAIN job' = Callers \cup {Main}
  BY <1>2 DEF TypeOK
<1>. QED  BY <1>2, <1>11, <1>12, <1>13, <1>14, <1>15 DEF IndInv

\* What a forward knows of the rules that it reads.
LEMMA InstalledValue ==
  ASSUME TypeOK, Fits, WorkerInv, worker # None, NEW kind \in Kinds
  PROVE  LET slice == worker[kind]
             V     == Value(kind, slice)
             rules == wanted[kind]
         IN  /\ slice \in Slice /\ slice.len \in Nat /\ rules \in Seq(Strings) /\ Len(rules) \in Nat
             /\ V \in Seq(Strings) /\ Len(V) = slice.len
             /\ \A p \in 1..slice.len : V[p] = Elements(kind, slice)[p]
             /\ Len(rules) <= slice.len /\ (rules = <<>> => slice.len = 0)
             /\ \A p \in 1..slice.len : Elements(kind, slice)[p] = rules[Clamp(p, rules)]
<1>. DEFINE slice == worker[kind]
            E     == Elements(kind, slice)
            rules == wanted[kind]
<1>1. slice \in Slice /\ rules \in Seq(Strings) /\ Done(kind, slice, rules) /\ slice.len <= Len(E)
  BY DEF TypeOK, WorkerInv, Fits
<1>2. E \in Seq(Strings) /\ slice.len \in Nat /\ Len(E) \in Nat /\ Len(rules) \in Nat
  <2>1. E \in Seq(Strings) /\ slice.len \in Nat
    BY <1>1, ElementsType
  <2>. QED  BY <1>1, <2>1
<1>3. Value(kind, slice) = SubSeq(E, 1, slice.len)
  BY DEF Value
<1>4. /\ Len(rules) <= slice.len /\ (rules = <<>> => slice.len = 0)
      /\ \A p \in 1..slice.len : E[p] = rules[Clamp(p, rules)]
  BY <1>1 DEF Done
<1>. HIDE DEF E, slice, rules
<1>5. SubSeq(E, 1, slice.len) \in Seq(Strings) /\ Len(SubSeq(E, 1, slice.len)) = slice.len
      /\ \A p \in 1..slice.len : SubSeq(E, 1, slice.len)[p] = E[p]
  BY <1>1, <1>2
<1>. QED  BY <1>1, <1>2, <1>3, <1>4, <1>5 DEF E, slice, rules

LEMMA AddMatchAsks ==
  ASSUME TypeOK, Fits, WorkerInv, Asked, AddMatch
  PROVE  Asked'
<1>. DEFINE slice == worker["match"]
            V     == Value("match", slice)
            x     == InstalledRule("match")
<1>1. /\ pc = "match" /\ k <= slice.len /\ k' = k + 1 /\ pc' = pc /\ url' = url
      /\ params' = Append(params, x) /\ worker' = worker /\ array' = array
  BY DEF AddMatch, ForwardFrame
<1>2. worker # None /\ "match" \in Kinds /\ k \in Nat \ {0}
  BY <1>1 DEF Fits, Kinds, TypeOK
<1>3. /\ slice.len \in Nat /\ V \in Seq(Strings) /\ Len(V) = slice.len
      /\ \A p \in 1..slice.len : V[p] = Elements("match", slice)[p]
  BY <1>2, InstalledValue
<1>4. params = SubSeq(V, 1, k - 1) /\ url.path = "federate"
  BY <1>1 DEF Asked
<1>5. k \in 1..slice.len
  BY <1>1, <1>2, <1>3
<1>6. x = V[k]
  BY <1>3, <1>5 DEF InstalledRule
<1>7. Value("match", slice)' = V
  BY <1>1 DEF Value, Elements
<1>. HIDE DEF V, x, slice
<1>8. Append(SubSeq(V, 1, k - 1), V[k]) = SubSeq(V, 1, k)
  <2>1. SubSeq(V, 1, k - 1) \in Seq(Strings) /\ Len(SubSeq(V, 1, k - 1)) = k - 1 /\ V[k] \in Strings
        /\ \A p \in 1..(k - 1) : SubSeq(V, 1, k - 1)[p] = V[p]
    BY <1>3, <1>5
  <2>. DEFINE s == SubSeq(V, 1, k - 1)
              t == Append(s, V[k])
              u == SubSeq(V, 1, k)
  <2>. HIDE DEF s
  <2>2. t \in Seq(Strings) /\ Len(t) = k /\ \A p \in 1..k : t[p] = V[p]
    BY <1>2, <2>1 DEF s
  <2>3. u \in Seq(Strings) /\ Len(u) = k /\ \A p \in 1..k : u[p] = V[p]
    BY <1>3, <1>5
  <2>. HIDE DEF t, u
  <2>4. t = u
    BY <2>2, <2>3, SeqEqual
  <2>. QED  BY <2>4 DEF s, t, u
<1>9. params' = SubSeq(V, 1, k' - 1)
  BY <1>1, <1>2, <1>4, <1>6, <1>8
<1>10. k' <= slice.len + 1
  BY <1>1, <1>2, <1>3
<1>11. Value("match", worker["match"])' = V
  BY <1>7 DEF slice
<1>12. worker'["match"].len = slice.len
  BY <1>1 DEF slice
<1>. QED  BY <1>1, <1>4, <1>9, <1>10, <1>11, <1>12 DEF Asked

LEMMA FederateSucceedsAsks ==
  ASSUME TypeOK, Fits, RecordedInv, WorkerInv, Asked, FederateSucceeds
  PROVE  Asked'
<1>. DEFINE slice == worker["match"]
            V     == Value("match", slice)
            rules == wanted["match"]
            q     == wanted["recording"]
            r     == [path |-> "federate", query |-> params]
<1>1. /\ pc = "match" /\ k > slice.len /\ k' = 1 /\ pc' = "recording" /\ url'.path = "query"
      /\ recorded'.origin = url.path /\ worker' = worker /\ wanted' = wanted
      /\ sent' = Append(sent, [path |-> url.path, query |-> params])
  BY DEF FederateSucceeds, ForwardFrame
<1>2. worker # None /\ "match" \in Kinds /\ "recording" \in Kinds /\ k \in Nat \ {0}
      /\ sent = <<>>
  BY <1>1 DEF Fits, Kinds, TypeOK, RecordedInv
<1>3. /\ slice.len \in Nat /\ V \in Seq(Strings) /\ Len(V) = slice.len
      /\ rules \in Seq(Strings) /\ Len(rules) <= slice.len /\ (rules = <<>> => slice.len = 0)
      /\ \A p \in 1..slice.len : V[p] = rules[Clamp(p, rules)]
  BY <1>2, InstalledValue
<1>4. params = SubSeq(V, 1, k - 1) /\ url.path = "federate" /\ k <= slice.len + 1
  BY <1>1 DEF Asked
<1>5. worker["recording"].len \in Nat /\ q \in Seq(Strings)
  BY <1>2, InstalledValue
<1>. HIDE DEF V, slice, rules, q
<1>6. params = V
  <2>1. k - 1 = Len(V)
    BY <1>1, <1>2, <1>3, <1>4
  <2>2. SubSeq(V, 1, Len(V)) = V
    BY <1>3
  <2>. QED  BY <1>4, <2>1, <2>2
<1>7. RepeatsOf(params, rules)
  <2>1. rules = <<>> => V = <<>>
    BY <1>3
  <2>. QED  BY <1>3, <1>6, <2>1, RepeatsClamped
<1>8. sent' = <<r>>
  BY <1>1, <1>2, <1>4
<1>. HIDE DEF r
<1>9. Len(sent') = 1 /\ sent'[1] = r
  BY <1>8
<1>10. Queries' = <<>>
  BY <1>9 DEF Queries
<1>11. UpTo(q, Malformed)[k' - 1] = <<>> /\ k' - 1 <= Len(q) /\ k' <= worker["recording"].len + 1
  <2>1. UpTo(q, Malformed)[0] = <<>>
    BY <1>5, UpToRecursion
  <2>. QED  BY <1>1, <1>5, <2>1
<1>12. \A n \in 2..Len(sent') : FALSE
  BY <1>9
<1>13. r.path = "federate" /\ r.query = params
  BY DEF r
<1>14. sent'[1].path = "federate" /\ RepeatsOf(sent'[1].query, rules)
  BY <1>7, <1>9, <1>13
<1>15. RepeatsOf(sent[1].query, wanted["match"])'
  BY <1>1, <1>14 DEF rules
<1>16. (UpTo(wanted["recording"], Malformed)[k - 1])' = <<>>
  BY <1>1, <1>11 DEF q
<1>17. (k - 1 <= Len(wanted["recording"]))' /\ (k <= worker["recording"].len + 1)'
  BY <1>1, <1>11 DEF q
<1>18. pc' = "recording" /\ url'.path = "query" /\ recorded'.origin = "federate"
  BY <1>1, <1>4
<1>. QED  BY ONLY <1>10, <1>12, <1>14, <1>15, <1>16, <1>17, <1>18 DEF Asked

\* The queries are those of the rules so far; a rule that is repeated repeats
\* the last of them.
LEMMA OneMoreRule ==
  ASSUME NEW rules, rules \in Seq(Strings), NEW n \in Nat \ {0}, NEW queries,
         rules # <<>>,
         IF n - 1 <= Len(rules) THEN queries = UpTo(rules, Malformed)[n - 1]
         ELSE RepeatsOf(queries, Without(rules, Malformed)) /\ queries \in Seq(Strings)
  PROVE  LET x    == rules[Clamp(n, rules)]
             more == IF x \in Malformed THEN queries ELSE Append(queries, x)
         IN  IF n <= Len(rules) THEN more = UpTo(rules, Malformed)[n]
             ELSE RepeatsOf(more, Without(rules, Malformed))
<1>. DEFINE x    == rules[Clamp(n, rules)]
            more == IF x \in Malformed THEN queries ELSE Append(queries, x)
            w    == Without(rules, Malformed)
<1>1. Len(rules) \in Nat /\ Len(rules) >= 1
  <2>1. Len(rules) # 0
    OBVIOUS
  <2>. QED  BY <2>1
<1>2. CASE n <= Len(rules)
  <2>1. n \in 1..Len(rules) /\ Clamp(n, rules) = n /\ n - 1 <= Len(rules)
    BY <1>1, <1>2 DEF Clamp
  <2>2. UpTo(rules, Malformed)[n] = IF rules[n] \in Malformed THEN UpTo(rules, Malformed)[n - 1]
                                    ELSE Append(UpTo(rules, Malformed)[n - 1], rules[n])
    BY <2>1, UpToRecursion
  <2>. QED  BY <1>2, <2>1, <2>2
<1>3. CASE ~ (n <= Len(rules))
  <2>1. w \in Seq(Strings)
    <3>1. w \in Seq(Strings \ Malformed)
      BY WithoutType
    <3>. HIDE DEF w
    <3>. QED  BY <3>1
  <2>2. RepeatsOf(queries, w) /\ queries \in Seq(Strings)
    <3>1. CASE n - 1 <= Len(rules)
      <4>1. n - 1 = Len(rules)
        BY <1>1, <1>3, <3>1
      <4>2. queries = w
        BY <3>1, <4>1 DEF Without
      <4>. HIDE DEF w
      <4>. QED  BY <2>1, <4>2, RepeatsItself
    <3>2. CASE ~ (n - 1 <= Len(rules))
      BY <3>2
    <3>. QED  BY <3>1, <3>2
  <2>3. x = Last(rules)
    BY <1>3 DEF Clamp, Last
  <2>. HIDE DEF x
  <2>4. CASE x \in Malformed
    BY <1>3, <2>2, <2>4 DEF x
  <2>5. CASE x \notin Malformed
    <3>1. w # <<>> /\ Last(w) = x
      BY <2>3, <2>5, LastStays
    <3>. HIDE DEF w
    <3>2. Len(w) \in 1..Len(w)
      BY <2>1, <3>1
    <3>3. x = w[Len(w)]
      BY <3>1 DEF Last
    <3>4. RepeatsOf(Append(queries, w[Len(w)]), w)
      BY <2>1, <2>2, <3>2, RepeatsMore
    <3>. QED  BY <1>3, <2>5, <3>3, <3>4 DEF w, x
  <2>. QED  BY <2>4, <2>5 DEF x
<1>. QED  BY <1>2, <1>3

\* A rule that is passed over, or asked for.
LEMMA RecordingStepAsks ==
  ASSUME TypeOK, Fits, RecordedInv, WorkerInv, Asked, SkipMalformed \/ QueryRule
  PROVE  Asked'
<1>. DEFINE slice == worker["recording"]
            rules == wanted["recording"]
            x     == InstalledRule("recording")
            U     == [path : {"federate", "query"}, query : Seq(Strings)]
            req   == [path |-> "query", query |-> <<x>>]
<1>1. /\ pc = "recording" /\ pc' = "recording" /\ k <= slice.len /\ k' = k + 1
      /\ worker' = worker /\ wanted' = wanted
  BY DEF SkipMalformed, QueryRule, ForwardFrame
<1>2. worker # None /\ "recording" \in Kinds /\ "match" \in Kinds /\ k \in Nat \ {0}
      /\ sent \in Seq(U) /\ url \in U
      /\ recorded \in [answers : Seq(Answer), error : BOOLEAN, origin : {"federate", "query"}]
  BY <1>1 DEF Fits, Kinds, TypeOK
<1>3. /\ slice.len \in Nat /\ rules \in Seq(Strings) /\ Len(rules) \in Nat /\ Len(rules) <= slice.len
      /\ rules = <<>> => slice.len = 0
      /\ \A p \in 1..slice.len : Elements("recording", slice)[p] = rules[Clamp(p, rules)]
  BY <1>2, InstalledValue
<1>4. /\ url.path = "query" /\ recorded.origin = "federate"
      /\ sent[1].path = "federate" /\ RepeatsOf(sent[1].query, wanted["match"])
      /\ \A n \in 2..Len(sent) : sent[n].path = "query" /\ Len(sent[n].query) = 1
      /\ IF k - 1 <= Len(rules) THEN Queries = UpTo(rules, Malformed)[k - 1]
         ELSE RepeatsOf(Queries, Without(rules, Malformed))
  BY <1>1 DEF Asked
<1>5. k \in 1..slice.len /\ rules # <<>>
  BY <1>1, <1>2, <1>3
<1>6. x = rules[Clamp(k, rules)] /\ x \in Strings
  <2>1. x = rules[Clamp(k, rules)]
    BY <1>3, <1>5 DEF InstalledRule
  <2>. QED  BY <1>1, <1>2, <2>1, InstalledRuleType
<1>7. sent # <<>> /\ Queries \in Seq(Strings)
  <2>1. sent # <<>> /\ Len(sent) \in Nat
    BY <1>1, <1>2 DEF RecordedInv
  <2>2. ASSUME NEW n \in 1..(Len(sent) - 1) PROVE sent[n + 1].query[1] \in Strings
    <3>1. n + 1 \in 2..Len(sent) /\ n + 1 \in 1..Len(sent)
      BY <2>1
    <3>2. sent[n + 1] \in U
      <4>. HIDE DEF U
      <4>. QED  BY <1>2, <3>1
    <3>3. sent[n + 1].query \in Seq(Strings)
      BY <3>2
    <3>4. Len(sent[n + 1].query) = 1
      BY <1>4, <3>1
    <3>. QED  BY <3>3, <3>4
  <2>3. Len(sent) - 1 \in Nat
    BY <1>2, <2>1
  <2>4. Queries \in [1..(Len(sent) - 1) -> Strings]
    BY <2>2 DEF Queries
  <2>. QED  BY <2>1, <2>3, <2>4
<1>. HIDE DEF slice, rules, U
<1>8. LET more == IF x \in Malformed THEN Queries ELSE Append(Queries, x)
      IN  IF k <= Len(rules) THEN more = UpTo(rules, Malformed)[k]
          ELSE RepeatsOf(more, Without(rules, Malformed))
  BY <1>2, <1>3, <1>4, <1>5, <1>6, <1>7, OneMoreRule
<1>. HIDE DEF x
<1>9. /\ Queries' = IF x \in Malformed THEN Queries ELSE Append(Queries, x)
      /\ url'.path = "query" /\ recorded'.origin = "federate"
      /\ sent'[1] = sent[1]
      /\ \A n \in 2..Len(sent') : sent'[n].path = "query" /\ Len(sent'[n].query) = 1
  <2>1. CASE SkipMalformed
    <3>1. x \in Malformed /\ url' = url /\ sent' = sent /\ recorded' = [recorded EXCEPT !.error = TRUE]
      BY <2>1 DEF SkipMalformed, x
    <3>2. recorded'.origin = "federate"
      BY <1>2, <1>4, <3>1
    <3>. QED  BY <1>4, <3>1, <3>2 DEF Queries
  <2>2. CASE QueryRule
    <3>1. /\ x \notin Malformed /\ url' = [url EXCEPT !.query = <<x>>] /\ sent' = Append(sent, Request)
          /\ \/ \E decoded \in BOOLEAN :
                  recorded' = [recorded EXCEPT !.answers = Append(recorded.answers, AnswerTo(x, decoded))]
             \/ recorded' = [recorded EXCEPT !.error = TRUE]
      BY <2>2 DEF QueryRule, x
    <3>2. recorded'.origin = "federate"
      BY <1>2, <1>4, <3>1
    <3>3. url'.path = "query" /\ url'.query = <<x>>
      BY <1>2, <1>4, <3>1 DEF U
    <3>4. sent' = Append(sent, req)
      BY <3>1, <3>3 DEF Request
    <3>5. <<x>> \in Seq(Strings) /\ Len(<<x>>) = 1 /\ <<x>>[1] = x
      BY <1>6
    <3>6. req \in U /\ req.path = "query" /\ req.query[1] = x /\ Len(req.query) = 1
      BY <3>5 DEF U
    <3>. HIDE DEF req
    <3>7. Queries' = Append(Queries, x)
      BY <1>2, <1>7, <3>4, <3>6, QueriesGrow
    <3>8. /\ sent'[1] = sent[1] /\ Len(sent') = Len(sent) + 1 /\ sent'[Len(sent) + 1] = req
          /\ \A n \in 1..Len(sent) : sent'[n] = sent[n]
      BY <1>2, <1>7, <3>4, <3>6
    <3>9. \A n \in 2..Len(sent') : sent'[n].path = "query" /\ Len(sent'[n].query) = 1
      <4>. SUFFICES ASSUME NEW n \in 2..Len(sent')
                    PROVE  sent'[n].path = "query" /\ Len(sent'[n].query) = 1
        OBVIOUS
      <4>1. n = Len(sent) + 1 \/ n \in 2..Len(sent)
        BY <1>2, <3>8
      <4>2. n \in 2..Len(sent) => n \in 1..Len(sent)
        OBVIOUS
      <4>. QED  BY <1>4, <3>6, <3>8, <4>1, <4>2
    <3>. QED  BY <3>1, <3>2, <3>3, <3>7, <3>8, <3>9
  <2>. QED  BY <2>1, <2>2
<1>10. IF k' - 1 <= Len(rules) THEN Queries' = UpTo(rules, Malformed)[k' - 1]
       ELSE RepeatsOf(Queries', Without(rules, Malformed))
  <2>1. k' - 1 = k
    BY <1>1, <1>2
  <2>. QED  BY <1>8, <1>9, <2>1
<1>11. k' <= worker["recording"].len + 1
  BY <1>1, <1>2, <1>3 DEF slice
<1>12. sent'[1].path = "federate" /\ RepeatsOf(sent[1].query, wanted["match"])'
  BY <1>1, <1>4, <1>9
<1>13. IF (k - 1 <= Len(wanted["recording"]))'
       THEN Queries' = (UpTo(wanted["recording"], Malformed)[k - 1])'
       ELSE RepeatsOf(Queries, Without(wanted["recording"], Malformed))'
  BY <1>1, <1>10 DEF rules
<1>14. (k <= worker["recording"].len + 1)'
  BY <1>1, <1>11
<1>. QED  BY ONLY <1>1, <1>9, <1>12, <1>13, <1>14 DEF Asked

LEMMA ForwardStepAsks ==
  ASSUME TypeOK, Fits, RecordedInv, WorkerInv, Asked, ForwardStep
  PROVE  Asked'
<1>1. CASE BeginForward
  <2>1. /\ worker # None /\ url'.path = "federate" /\ pc' = "match" /\ k' = 1 /\ params' = <<>>
        /\ worker' = worker /\ array' = array
    BY <1>1 DEF BeginForward, ForwardFrame, Asked, TypeOK
  <2>. DEFINE slice == worker["match"]
              V     == Value("match", slice)
  <2>2. V \in Seq(Strings) /\ slice.len \in Nat
    BY <2>1, InstalledValue DEF Kinds
  <2>3. Value("match", slice)' = V
    BY <2>1 DEF Value, Elements
  <2>. HIDE DEF V
  <2>4. SubSeq(V, 1, k' - 1) = <<>>
    BY <2>1, <2>2
  <2>5. Value("match", worker["match"])' = V
    BY <2>3
  <2>6. k' <= slice.len + 1
    BY <2>1, <2>2
  <2>. HIDE DEF slice
  <2>7. worker'["match"].len = slice.len
    BY <2>1 DEF slice
  <2>. QED  BY <2>1, <2>4, <2>5, <2>6, <2>7 DEF Asked
<1>2. CASE AddMatch
  BY <1>2, AddMatchAsks
<1>3. CASE FederateFails
  BY <1>3 DEF FederateFails, Asked, TypeOK
<1>4. CASE FederateSucceeds
  BY <1>4, FederateSucceedsAsks
<1>5. CASE SkipMalformed \/ QueryRule
  BY <1>5, RecordingStepAsks
<1>6. CASE EndRecording
  <2>1. pc' = "idle" /\ url' = [url EXCEPT !.path = recorded.origin] /\ recorded.origin = "federate"
    BY <1>6 DEF EndRecording, Asked
  <2>2. url'.path = "federate"
    BY <2>1 DEF TypeOK
  <2>. QED  BY <2>1, <2>2 DEF Asked
<1>. QED  BY <1>1, <1>2, <1>3, <1>4, <1>5, <1>6 DEF ForwardStep

\* A step that leaves the rules, the calls and the Worker alone.
LEMMA RulesStay ==
  ASSUME IndInv,
         setup' = setup, array' = array, job' = job, worker' = worker, wanted' = wanted
  PROVE  ArraysInv' /\ (\A d \in DOMAIN job : JobInv(d))' /\ WorkerInv'
<1>1. TypeOK /\ Fits /\ ArraysInv /\ WorkerInv /\ \A d \in DOMAIN job : JobInv(d)
  BY DEF IndInv, BaseInv
<1>2. DOMAIN job = Callers \cup {Main}
  BY <1>1 DEF TypeOK
<1>3. \A d \in DOMAIN job : JobInv(d)'
  BY <1>1, <1>2, JobStays, ArraysStay
<1>4. ArraysInv'
  BY <1>1 DEF ArraysInv, Untouched, Copied, Looping
<1>5. WorkerInv'
  <2>1. \A kind \in Kinds : worker # None => Done(kind, worker[kind], wanted[kind])'
    <3>. SUFFICES ASSUME NEW kind \in Kinds, worker # None
                  PROVE  Done(kind, worker[kind], wanted[kind])'
      OBVIOUS
    <3>1. worker[kind] \in Slice /\ Done(kind, worker[kind], wanted[kind])
      BY <1>1 DEF TypeOK, WorkerInv
    <3>. QED  BY <1>1, <3>1, DoneStays, ArraysStay
  <2>. QED  BY <1>1, <2>1 DEF WorkerInv
<1>. QED  BY <1>3, <1>4, <1>5

LEMMA ForwardStepKeepsInd ==
  ASSUME IndInv, ForwardStep
  PROVE  IndInv'
<1>1. BaseInv /\ TypeOK /\ Fits /\ RecordedInv /\ WorkerInv /\ Asked
  BY DEF IndInv, BaseInv
<1>2. BaseInv' /\ Asked'
  BY <1>1, ForwardStepKeepsBase, ForwardStepAsks
<1>3. setup' = setup /\ array' = array /\ job' = job /\ worker' = worker /\ wanted' = wanted
  BY DEF ForwardStep, ForwardFrame, BeginForward, AddMatch, FederateFails, FederateSucceeds,
         SkipMalformed, QueryRule, EndRecording
<1>. QED  BY <1>2, <1>3, RulesStay DEF IndInv

LEMMA InitInd == Init => IndInv
<1>. SUFFICES ASSUME Init PROVE IndInv
  OBVIOUS
<1>1. BaseInv /\ TypeOK
  BY InitBase DEF BaseInv
<1>2. worker = None /\ pc = "idle" /\ url = [path |-> "federate", query |-> <<>>]
      /\ job = [c \in Callers \cup {Main} |-> Idle]
      /\ array = [kind \in Kinds |->
           [n \in 1..Capacity(Len(setup[kind])) |->
              IF n <= Len(setup[kind]) THEN setup[kind][n] ELSE Blank]]
  BY DEF Init
<1>3. ArraysInv
  <2>1. ASSUME NEW kind \in Kinds, NEW p \in 1..Len(setup[kind])
        PROVE  array[kind][p] = setup[kind][p]
    <3>1. Len(setup[kind]) \in Nat /\ Capacity(Len(setup[kind])) \in Nat
          /\ Len(setup[kind]) <= Capacity(Len(setup[kind]))
      BY <1>1, CapacityFits DEF TypeOK
    <3>2. p \in 1..Capacity(Len(setup[kind])) /\ p <= Len(setup[kind])
      BY <3>1
    <3>. QED  BY <1>2, <3>2
  <2>. QED  BY <2>1 DEF ArraysInv
<1>4. Idle.at = "idle" /\ Idle.lines = <<>>
  BY DEF Idle
<1>5. \A c \in DOMAIN job : JobInv(c)
  BY <1>2, <1>4 DEF JobInv, Looping
<1>6. WorkerInv
  BY <1>2, <1>4 DEF WorkerInv
<1>7. Asked
  BY <1>2 DEF Asked
<1>. QED  BY <1>1, <1>3, <1>5, <1>6, <1>7 DEF IndInv

LEMMA NextInd ==
  ASSUME NoRoom
  PROVE  IndInv /\ [Next]_vars => IndInv'
<1>. SUFFICES ASSUME IndInv, [Next]_vars PROVE IndInv'
  OBVIOUS
<1>1. ASSUME NEW c \in Callers \cup {Main}, NewStep(c) PROVE IndInv'
  BY <1>1, NewStepKeepsInd, InstallKeepsInd
<1>2. CASE ForwardStep
  BY <1>2, ForwardStepKeepsInd
<1>3. CASE UNCHANGED vars
  <2>1. /\ setup' = setup /\ array' = array /\ job' = job /\ worker' = worker /\ wanted' = wanted
        /\ pc' = pc /\ k' = k /\ params' = params /\ url' = url /\ sent' = sent
        /\ recorded' = recorded
    BY <1>3 DEF vars, forwardVars
  <2>2. BaseInv'
    BY <1>3, NextBase DEF IndInv
  <2>3. Asked'
    <3>1. Value("match", worker["match"])' = Value("match", worker["match"])
      BY <2>1 DEF Value, Elements
    <3>. QED  BY <2>1, <3>1, AskedStays DEF IndInv
  <2>. QED  BY <2>1, <2>2, <2>3, RulesStay DEF IndInv
<1>. QED  BY <1>1, <1>2, <1>3 DEF Next

LEMMA IndInvariance ==
  ASSUME NoRoom
  PROVE  Spec => []IndInv
<1>1. Init => IndInv
  BY InitInd
<1>2. IndInv /\ [Next]_vars => IndInv'
  BY NextInd
<1>. QED  BY <1>1, <1>2, PTL DEF Spec

\* If no match file fits behind the flags, a forward asks for the rules that
\* the flags and the file gave to the Worker in use: for all of them, and for
\* nothing else, however often the rules are read again meanwhile.
THEOREM AsksForTheRules ==
  ASSUME NoRoom
  PROVE  Spec => []AsksForInstalledRules
<1>1. IndInv => AsksForInstalledRules
  <2>. SUFFICES ASSUME IndInv, pc = "recording"
                PROVE  /\ sent[1].path = "federate" /\ RepeatsOf(sent[1].query, wanted["match"])
                       /\ \A n \in 2..Len(sent) : sent[n].path = "query" /\ Len(sent[n].query) = 1
                       /\ k > worker["recording"].len =>
                            RepeatsOf(Queries, Without(wanted["recording"], Malformed))
    BY DEF AsksForInstalledRules
  <2>. DEFINE rules == wanted["recording"]
              W     == Without(rules, Malformed)
  <2>1. TypeOK /\ Fits /\ WorkerInv /\ Asked
    BY DEF IndInv, BaseInv
  <2>2. worker # None /\ "recording" \in Kinds /\ k \in Nat \ {0}
    BY <2>1 DEF Fits, Kinds, TypeOK
  <2>3. rules \in Seq(Strings) /\ Len(rules) \in Nat /\ Len(rules) <= worker["recording"].len
        /\ worker["recording"].len \in Nat
    BY <2>1, <2>2, InstalledValue
  <2>4. /\ sent[1].path = "federate" /\ RepeatsOf(sent[1].query, wanted["match"])
        /\ \A n \in 2..Len(sent) : sent[n].path = "query" /\ Len(sent[n].query) = 1
        /\ IF k - 1 <= Len(rules) THEN Queries = UpTo(rules, Malformed)[k - 1]
           ELSE RepeatsOf(Queries, W)
    BY <2>1 DEF Asked
  <2>5. ASSUME k > worker["recording"].len PROVE RepeatsOf(Queries, W)
    <3>1. CASE k - 1 <= Len(rules)
      <4>1. k - 1 = Len(rules)
        BY <2>2, <2>3, <2>5, <3>1
      <4>2. Queries = W
        BY <2>4, <3>1, <4>1 DEF Without
      <4>3. W \in Seq(Strings \ Malformed)
        BY <2>3, WithoutType
      <4>. HIDE DEF W
      <4>. QED  BY <4>2, <4>3, RepeatsItself
    <3>2. CASE ~ (k - 1 <= Len(rules))
      BY <2>4, <3>2
    <3>. QED  BY <3>1, <3>2
  <2>. QED  BY <2>4, <2>5
<1>. QED  BY <1>1, IndInvariance, PTL

\* Under the same condition the rules of the Worker in use, which lie in the
\* arrays that every call of New writes to without the lock, change only when
\* another Worker takes its place.
THEOREM TheRulesStay ==
  ASSUME NoRoom
  PROVE  Spec => InstalledRulesStay
<1>1. ASSUME IndInv, IndInv', [Next]_vars
      PROVE  [worker # None /\ worker' = worker => InstalledRules' = InstalledRules]_vars
  <2>. SUFFICES ASSUME Next, worker # None, worker' = worker
                PROVE  InstalledRules' = InstalledRules
    BY <1>1
  <2>1. TypeOK /\ Fits /\ WorkerInv /\ TypeOK' /\ Fits'
    BY <1>1 DEF IndInv, BaseInv
  <2>2. \A kind \in Kinds : Value(kind, worker[kind])' = Value(kind, worker[kind])
    <3>1. CASE array' = array
      BY <3>1 DEF Value, Elements
    <3>2. CASE array' # array
      <4>1. PICK c \in Callers \cup {Main} : NewStep(c) /\ ~Install(c)
        BY <3>2 DEF Next, ForwardStep, ForwardFrame, BeginForward, AddMatch, FederateFails,
                    FederateSucceeds, SkipMalformed, QueryRule, EndRecording, Install
      <4>2. setup' = setup /\ wanted' = wanted
        BY <2>1, <4>1, NewStepChanges DEF Changes
      <4>3. \A kind \in Kinds : AsBefore(kind)
        BY <1>1, <4>1, NewStepGoes DEF Goes
      <4>. QED  BY <2>1, <4>2, <4>3, WorkerStays
    <3>. QED  BY <3>1, <3>2
  <2>. QED  BY <2>2 DEF InstalledRules
<1>. QED  BY <1>1, IndInvariance, PTL DEF Spec, InstalledRulesStay

=============================================================================
