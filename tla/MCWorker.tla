------------------------------ MODULE MCWorker ------------------------------
(* Instances of Worker for TLC. *)
EXTENDS Worker, TLC

CONSTANTS run, c1, c2, r1, b1, b2, b3

\* One slice for lastMetrics, one for the forward in progress, one per reader.
MCBatches0 == {b1, b2}
MCBatches1 == {b1, b2, b3}

\* Callers and slices are interchangeable.
MCSymmetry == Permutations({c1, c2}) \cup Permutations(MCBatches1)
=============================================================================
