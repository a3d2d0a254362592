------------------------------ MODULE MCMerge ------------------------------
(* The instance of Merge for TLC.                                           *)
EXTENDS Merge

TimeSeqs == {s \in BoundedSeq(1..3, 3) : s # <<>> /\ \A k \in 2..Len(s) : s[k - 1] <= s[k]}

Fams == [name : 1..2, times : TimeSeqs]

\* Up to three families, in any order; or four of one sample.
MCInputs == BoundedSeq(Fams, 3) \cup [1..4 -> [name : 1..2, times : {<<1>>, <<2>>}]]
=============================================================================
