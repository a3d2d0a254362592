---------------------------- MODULE AddonStatus ----------------------------
(***************************************************************************)
(* What UpdateStatus (pkg/status/status.go) is to its only caller, the     *)
(* forward() of a Worker: a call with one message, which is in force when  *)
(* the call returns without an error.  After an error it may or may not be *)
(* in force.  The call need not return: it waits for the API server        *)
(* without a deadline.                                                     *)
(***************************************************************************)

CONSTANT Messages

VARIABLES
  call,    \* the message of the call in progress, or "none"
  status,  \* the message of the condition that is True, "unset" at first
  stale    \* the last call returned an error

vars == <<call, status, stale>>

Init == call = "none" /\ status = "unset" /\ stale = FALSE

Call(message) ==
  /\ call = "none"
  /\ call' = message
  /\ UNCHANGED <<status, stale>>

\* The call returns, and it is its own message that is in force or may be.
Return ==
  /\ call # "none"
  /\ call' = "none"
  /\ \/ status' = call /\ stale' = FALSE
     \/ status' \in {status, call} /\ stale' = TRUE

Next == Return \/ \E message \in Messages : Call(message)

Spec == Init /\ [][Next]_vars
=============================================================================
