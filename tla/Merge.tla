------------------------------- MODULE Merge -------------------------------
(***************************************************************************)
(* MergeSortedWithTimestamps (pkg/metricfamily/sort.go): families of one   *)
(* name that follow each other become one, in place.                       *)
(*                                                                         *)
(* As its comment demands, families are dense and not empty, and their     *)
(* samples are sorted and have timestamps.                                 *)
(* A sample is the family and the place it comes from, and its time.  Pack, *)
(* which is called at the end, runs here as module Pack has it.            *)
(***************************************************************************)
EXTENDS Integers, Sequences, SequencesExt

CONSTANTS
  Inputs,  \* bound: the slices of families, each with a name and its times
  NilFamily  \* a nil pointer to a family

Names == UNION {{s[f].name : f \in DOMAIN s} : s \in Inputs}

Sample == [from : (Nat \ {0}) \X (Nat \ {0}), time : Int]

Family == [name : Names, metric : Seq(Sample) \ {<<>>}]

\* What the comment of the function demands of its argument.
ASSUME MergeAssumption ==
  /\ Inputs \subseteq Seq([name : Names, times : Seq(Int) \ {<<>>}])
  /\ \A s \in Inputs : \A f \in DOMAIN s : \A k, l \in DOMAIN s[f].times :
       k <= l => s[f].times[k] <= s[f].times[l]
  /\ NilFamily \notin Family

VARIABLES
  input,     \* the families when the call began
  families,  \* the slice
  pos,       \* the loop variable
  dst,       \* the position of the family *dst, or 0 for nil
  pc,        \* "loop", "zip", "pack" or "returned"
  zip,       \* the locals of the zip: where it is in *dst and src, and its result
  (* the call of Pack *)
  j, live, slice, i, next, length,  \* see module Pack
  packing                           \* "uncalled", or where Pack is

mergeVars == <<input, families, pos, dst, pc, zip>>
packVars  == <<j, live, slice, i, next, length, packing>>
vars == <<mergeVars, packVars>>

NoZip == [dst |-> 1, src |-> 1, result |-> <<>>]

P == INSTANCE Pack WITH pc <- packing, MaxLength <- 0

Init ==
  /\ input \in Inputs
  /\ families = [f \in DOMAIN input |->
       [name |-> input[f].name,
        metric |-> [k \in DOMAIN input[f].times |-> [from |-> <<f, k>>, time |-> input[f].times[k]]]]]
  /\ pos = 1
  /\ dst = 0
  /\ pc = "loop"
  /\ zip = NoZip
  /\ j = 0 /\ live = {} /\ slice = <<>> /\ i = 0 /\ next = 0 /\ length = 0
  /\ packing = "uncalled"

-----------------------------------------------------------------------------
(* One round of the loop.                                                  *)

Src == families[pos]
Dst == families[dst]

\* dst is nil: this family becomes the one to merge into.
Begin ==
  /\ pc = "loop" /\ pos <= Len(families)
  /\ dst = 0
  /\ dst' = pos
  /\ pos' = pos + 1
  /\ UNCHANGED <<input, families, pc, zip, packVars>>

\* Another name: the next family that comes becomes the one to merge into.
Differ ==
  /\ pc = "loop" /\ pos <= Len(families)
  /\ dst # 0 /\ Dst.name # Src.name
  /\ dst' = 0
  /\ pos' = pos + 1
  /\ UNCHANGED <<input, families, pc, zip, packVars>>

SameName == pc = "loop" /\ pos <= Len(families) /\ dst # 0 /\ Dst.name = Src.name

\* The round ends: all samples of src are in *dst, which gets the metrics m.
Merged(m) ==
  /\ families' = [families EXCEPT ![dst].metric = m, ![pos] = NilFamily]
  /\ pos' = pos + 1
  /\ UNCHANGED <<input, dst, packVars>>

\* The ranges do not overlap: a block is appended, or put first.
MergeBlock ==
  /\ SameName
  /\ \/ Last(Dst.metric).time < Head(Src.metric).time /\ Merged(Dst.metric \o Src.metric)
     \/ Last(Src.metric).time < Head(Dst.metric).time /\ Merged(Src.metric \o Dst.metric)
  /\ UNCHANGED <<pc, zip>>

\* They do.
BeginZip ==
  /\ SameName
  /\ Last(Dst.metric).time >= Head(Src.metric).time
  /\ Last(Src.metric).time >= Head(Dst.metric).time
  /\ pc' = "zip"
  /\ zip' = NoZip
  /\ UNCHANGED <<input, families, pos, dst, packVars>>

DstLeft == zip.dst <= Len(Dst.metric)
SrcLeft == zip.src <= Len(Src.metric)

\* A variant that takes the later sample first where times are equal.
DstFirstStrictly == DstLeft /\ (SrcLeft => Dst.metric[zip.dst].time < Src.metric[zip.src].time)

\* The next sample is one of *dst.
DstFirst == DstLeft /\ (SrcLeft => Dst.metric[zip.dst].time <= Src.metric[zip.src].time)

TakeFromDst ==
  /\ pc = "zip" /\ DstFirst
  /\ zip' = [zip EXCEPT !.dst = @ + 1, !.result = Append(@, Dst.metric[zip.dst])]
  /\ UNCHANGED <<input, families, pos, dst, pc, packVars>>

TakeFromSrc ==
  /\ pc = "zip" /\ SrcLeft /\ ~DstFirst
  /\ zip' = [zip EXCEPT !.src = @ + 1, !.result = Append(@, Src.metric[zip.src])]
  /\ UNCHANGED <<input, families, pos, dst, pc, packVars>>

\* A variant that stops when one side is used up.
EndZipEarly ==
  /\ pc = "zip" /\ ~(DstLeft /\ SrcLeft)
  /\ Merged(zip.result)
  /\ pc' = "loop"
  /\ UNCHANGED zip

\* Both are used up.
EndZip ==
  /\ pc = "zip" /\ ~DstLeft /\ ~SrcLeft
  /\ Merged(zip.result)
  /\ pc' = "loop"
  /\ UNCHANGED zip

\* The loop ends: Pack is called with the slice.
CallPack ==
  /\ pc = "loop" /\ pos > Len(families)
  /\ pc' = "pack"
  /\ j' = Len(families)
  /\ live' = {p \in 0..(j' - 1) : families[p + 1] # NilFamily}
  /\ slice' = [p \in 0..(j' - 1) |-> IF p \in live' THEN p ELSE P!Nil]
  /\ i' = 0 /\ next' = 0
  /\ length' = j'
  /\ packing' = "scan"
  /\ UNCHANGED <<input, families, pos, dst, zip>>

PackStep == pc = "pack" /\ P!Next /\ UNCHANGED mergeVars

\* `return Pack(families)`
Return ==
  /\ pc = "pack" /\ packing = "returned"
  /\ families' = [f \in 1..length |->
                    IF slice[f - 1] = P!Nil THEN NilFamily ELSE families[slice[f - 1] + 1]]
  /\ pc' = "returned"
  /\ UNCHANGED <<input, pos, dst, zip, packVars>>

Next ==
  \/ Begin \/ Differ \/ MergeBlock \/ BeginZip \/ TakeFromDst \/ TakeFromSrc \/ EndZip
  \/ CallPack \/ PackStep \/ Return

Spec == Init /\ [][Next]_vars

-----------------------------------------------------------------------------
(* Properties.                                                             *)

Live == {f \in DOMAIN families : families[f] # NilFamily}

\* At every step each sample is in exactly one family, once, under the name it
\* came with.
NoSampleLost ==
  LET places == UNION {{f} \X DOMAIN families[f].metric : f \in Live}
      sample(p) == families[p[1]].metric[p[2]].from
  IN  \A s \in UNION {{f} \X DOMAIN input[f].times : f \in DOMAIN input} :
        \E p \in places :
          /\ families[p[1]].name = input[s[1]].name
          /\ {q \in places : sample(q) = s} = {p}

\* a may stand before b: by time, then by the place each came from.
InOrder(a, b) ==
  \/ a.time < b.time
  \/ a.time = b.time /\ a.from[1] < b.from[1]
  \/ a.time = b.time /\ a.from[1] = b.from[1] /\ a.from[2] < b.from[2]

\* "preserving the order of the metrics" (sort.go:42): samples stay sorted, and
\* those of equal times stay in the order of their families.
StaysSorted ==
  \A f \in Live : \A k \in 2..Len(families[f].metric) :
    InOrder(families[f].metric[k - 1], families[f].metric[k])

\* "preserving the order of the original slice. Nil entries are removed"
\* (pack.go:32): what a Pack returns is exactly the entries to keep, in order.
ReturnsLiveInOrder == P!ReturnsLiveInOrder

-----------------------------------------------------------------------------
(* The inductive invariant.                                                *)

TypeOK ==
  /\ input \in Inputs
  /\ families \in Seq(Family \cup {NilFamily})
  /\ pos \in Nat \ {0}
  /\ dst \in 0..(pos - 1)
  /\ pc \in {"loop", "zip", "pack", "returned"}
  /\ zip \in [dst : Nat \ {0}, src : Nat \ {0}, result : Seq(Sample)]

Samples(f) == ToSet(families[f].metric)

\* Every sample is one that came in, with its time, in a family of its name.
Authentic ==
  \A f \in Live : \A x \in Samples(f) :
    /\ x.from[1] \in DOMAIN input
    /\ x.from[2] \in DOMAIN input[x.from[1]].times
    /\ x.time = input[x.from[1]].times[x.from[2]]
    /\ families[f].name = input[x.from[1]].name

\* The samples that came in one family are still in one.
Together ==
  \A f, g \in Live : \A x \in Samples(f), y \in Samples(g) : x.from[1] = y.from[1] => f = g

Complete ==
  \A g \in DOMAIN input : \A k \in DOMAIN input[g].times :
    \E f \in Live : \E x \in Samples(f) : x.from = <<g, k>>

Ordered(m) == \A k, l \in DOMAIN m : k < l => InOrder(m[k], m[l])

AllOrdered == \A f \in Live : Ordered(families[f].metric)

\* The families from pos on are as they were, and those before have come before.
Ahead ==
  pc \in {"loop", "zip"} =>
    /\ Len(families) = Len(input) /\ pos <= Len(families) + 1
    /\ dst # 0 => dst \in Live
    /\ \A f \in DOMAIN families : f >= pos => f \in Live /\ \A x \in Samples(f) : x.from[1] = f
    /\ \A f \in Live : f < pos => \A x \in Samples(f) : x.from[1] < pos

\* The result of the zip has what is before its two positions, in order, and all
\* that may stand before the rest.
ZipInv ==
  pc = "zip" =>
    LET a == Dst.metric
        b == Src.metric
        r == zip.result
    IN  /\ dst # 0 /\ pos <= Len(families) /\ Dst.name = Src.name
        /\ zip.dst <= Len(a) + 1 /\ zip.src <= Len(b) + 1
        /\ ToSet(r) = {a[k] : k \in 1..(zip.dst - 1)} \cup {b[k] : k \in 1..(zip.src - 1)}
        /\ Ordered(r)
        /\ \A x \in ToSet(r) : \A k \in zip.dst..Len(a) : InOrder(x, a[k])
        /\ \A x \in ToSet(r) : \A k \in zip.src..Len(b) : InOrder(x, b[k])

\* Pack works on the positions of the families that are left.
PackInv ==
  IF pc \in {"loop", "zip"} THEN packing = "uncalled"
  ELSE /\ P!IndInv
       /\ pc = "pack" => j = Len(families) /\ live = {p \in 0..(j - 1) : p + 1 \in Live}

IndInv ==
  TypeOK /\ Authentic /\ Together /\ Complete /\ AllOrdered /\ Ahead /\ ZipInv /\ PackInv
=============================================================================
