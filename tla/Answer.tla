------------------------------- MODULE Answer -------------------------------
(***************************************************************************)
(* What Retrieve and RetrievRecordingMetrics (pkg/metricsclient) promise   *)
(* to forward(): one outcome, and families that nobody touches any more.   *)
(***************************************************************************)
EXTENDS Naturals

VARIABLES
  families,  \* how many families were received
  outcome    \* "none", then "ok" or "error"

vars == <<families, outcome>>

Init == families = 0 /\ outcome = "none"

\* A part of the answer arrives.
Receive ==
  /\ outcome = "none"
  /\ families' > families
  /\ UNCHANGED outcome

\* The call returns.
Decide ==
  /\ outcome = "none"
  /\ outcome' \in {"ok", "error"}
  /\ UNCHANGED families

Next == Receive \/ Decide

Spec == Init /\ [][Next]_vars
=============================================================================
