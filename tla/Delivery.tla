------------------------------ MODULE Delivery ------------------------------
(***************************************************************************)
(* What Client.RemoteWrite (pkg/metricsclient/metricsclient.go) promises   *)
(* forward(): time series are delivered one after the other or together,   *)
(* some perhaps after the call has returned; the call returns once, and    *)
(* reports success only when all of them are delivered.                    *)
(***************************************************************************)
EXTENDS Naturals

VARIABLES
  n,          \* how many time series there are to push
  delivered,  \* those that have reached the endpoint
  result      \* "none" until the call returns "ok" or "error"

vars == <<n, delivered, result>>

Init ==
  /\ n \in Nat
  /\ delivered = {}
  /\ result = "none"

\* More time series reach the endpoint, which never loses one.
Deliver ==
  /\ delivered \subseteq delivered'
  /\ delivered' \subseteq 1..n
  /\ UNCHANGED <<n, result>>

Succeed ==
  /\ result = "none" /\ delivered = 1..n
  /\ result' = "ok"
  /\ UNCHANGED <<n, delivered>>

Fail ==
  /\ result = "none"
  /\ result' = "error"
  /\ delivered \subseteq delivered'
  /\ delivered' \subseteq 1..n
  /\ UNCHANGED n

Next == Deliver \/ Succeed \/ Fail

Spec == Init /\ [][Next]_vars

\* Every call returns.
CallReturns == result = "none" ~> result # "none"
=============================================================================
