--------------------------- MODULE MCStatusReport ---------------------------
(* An instance of StatusReport for TLC. *)
EXTENDS StatusReport

\* What the endpoint operator sets: pkg/status/status_test.go.
MCForeign == {"Ready", "Disabled"}

=============================================================================
