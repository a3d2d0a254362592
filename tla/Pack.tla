-------------------------------- MODULE Pack --------------------------------
(***************************************************************************)
(* The compaction of a slice in place that pkg/metricfamily has three      *)
(* times: PackMetrics and Pack (pack.go) and PackLabels (invalid.go).      *)
(*                                                                         *)
(* An entry is the position it had when the call began; Nil stands for an  *)
(* entry to be left out: a nil pointer or, in Pack, a family without       *)
(* metrics.  Positions start at 0, as in the code.                         *)
(***************************************************************************)
EXTENDS Integers

CONSTANT MaxLength  \* bound: the length of the longest slice

\* Not a position.
Nil == -1

VARIABLES
  j,       \* the length of the slice
  live,    \* the positions of the entries to keep, when the call began
  slice,   \* the array behind the slice
  i,       \* the loop variable
  next,    \* where the scan for an entry to move goes on
  pc,      \* "scan", or "returned"
  length   \* the length of the slice that is returned

vars == <<j, live, slice, i, next, pc, length>>

TypeOK ==
  /\ j \in Nat
  /\ live \subseteq 0..(j - 1)
  /\ slice \in [0..(j - 1) -> live \cup {Nil}]
  /\ i \in 0..j
  /\ next \in 0..j
  /\ pc \in {"scan", "returned"}
  /\ length \in 0..j

Init ==
  /\ j \in 0..MaxLength
  /\ live \in SUBSET (0..(j - 1))
  /\ slice = [p \in 0..(j - 1) |-> IF p \in live THEN p ELSE Nil]
  /\ i = 0
  /\ next = 0
  /\ pc = "scan"
  /\ length = j

\* Where the scan for the next entry to move begins.
Start == IF next <= i THEN i + 1 ELSE next

\* The loop passes an entry that stays where it is.
Keep ==
  /\ pc = "scan" /\ i < j
  /\ slice[i] # Nil
  /\ i' = i + 1
  /\ UNCHANGED <<j, live, slice, next, pc, length>>

\* A variant that takes any entry that is left, not the first one.
FillFromAnywhere ==
  /\ pc = "scan" /\ i < j
  /\ slice[i] = Nil
  /\ \E k \in Start..(j - 1) :
       /\ slice[k] # Nil
       /\ slice' = [slice EXCEPT ![i] = slice[k], ![k] = Nil]
       /\ next' = k + 1
  /\ i' = i + 1
  /\ UNCHANGED <<j, live, pc, length>>

\* The first entry from Start on is swapped into the hole at i.
Fill ==
  /\ pc = "scan" /\ i < j
  /\ slice[i] = Nil
  /\ \E k \in Start..(j - 1) :
       /\ slice[k] # Nil
       /\ \A m \in Start..(k - 1) : slice[m] = Nil
       /\ slice' = [slice EXCEPT ![i] = slice[k], ![k] = Nil]
       /\ next' = k + 1
  /\ i' = i + 1
  /\ UNCHANGED <<j, live, pc, length>>

\* There is none: the rest of the slice is cut off.
Cut ==
  /\ pc = "scan" /\ i < j
  /\ slice[i] = Nil
  /\ \A m \in Start..(j - 1) : slice[m] = Nil
  /\ length' = i
  /\ pc' = "returned"
  /\ UNCHANGED <<j, live, slice, i, next>>

\* The loop ends: the whole slice is returned.
End ==
  /\ pc = "scan" /\ i = j
  /\ pc' = "returned"
  /\ UNCHANGED <<j, live, slice, i, next, length>>

Next == Keep \/ Fill \/ Cut \/ End

Spec == Init /\ [][Next]_vars

-----------------------------------------------------------------------------
(* Properties.                                                             *)

\* While entries are moved about, each one to keep is in the array exactly
\* once, and they stay in their order.
NothingLost ==
  /\ \A e \in live : \E p \in DOMAIN slice : slice[p] = e
  /\ \A p, q \in DOMAIN slice :
       p < q /\ slice[p] # Nil /\ slice[q] # Nil => slice[p] < slice[q]

\* "preserving the order of the original slice. Nil entries are removed"
\* (pack.go:32): what is returned is exactly the entries to keep, in order.
ReturnsLiveInOrder ==
  pc = "returned" =>
    /\ \A p \in DOMAIN slice : p < length => slice[p] # Nil
    /\ \A e \in live : \E p \in DOMAIN slice : p < length /\ slice[p] = e
    /\ \A p, q \in DOMAIN slice : p < q /\ q < length => slice[p] < slice[q]

-----------------------------------------------------------------------------
(* The inductive invariant.                                                *)

\* Before i there are only entries; from i up to next there are only holes.
Scanned ==
  /\ \A p \in DOMAIN slice : p < i => slice[p] # Nil
  /\ \A p \in DOMAIN slice : i <= p /\ p < next => slice[p] = Nil

\* What a call has returned is the part before i, and nothing is left after.
Returned ==
  /\ pc = "scan" => length = j
  /\ pc = "returned" => length = i /\ \A p \in DOMAIN slice : i <= p => slice[p] = Nil

IndInv == TypeOK /\ NothingLost /\ Scanned /\ Returned
=============================================================================
