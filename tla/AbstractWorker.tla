--------------------------- MODULE AbstractWorker ---------------------------
(***************************************************************************)
(* What a Worker (pkg/forwarder/forwarder.go) promises its owner: the doc  *)
(* comments of Worker, Reconfigure and Run, without locks, channels or     *)
(* steps.  Configurations are numbered in the order they are installed.    *)
(***************************************************************************)
EXTENDS Naturals

VARIABLES
  installed,  \* the configuration in force
  used,       \* the configurations the current or last forward has used
  cancelled,  \* the owner has cancelled the context
  stopped     \* Run has returned

vars == <<installed, used, cancelled, stopped>>

Init ==
  /\ installed = 1
  /\ used = {}
  /\ cancelled = FALSE
  /\ stopped = FALSE

\* Reconfigure replaces the whole configuration at once.
Reconfigure ==
  /\ installed' = installed + 1
  /\ UNCHANGED <<used, cancelled, stopped>>

\* A forward begins ...
Begin ==
  /\ ~stopped
  /\ used' = {}
  /\ UNCHANGED <<installed, cancelled, stopped>>

\* ... and uses the configuration in force, and no other one.
Use ==
  /\ ~stopped
  /\ used \subseteq {installed}
  /\ used' = {installed}
  /\ UNCHANGED <<installed, cancelled, stopped>>

Cancel ==
  /\ cancelled' = TRUE
  /\ UNCHANGED <<installed, used, stopped>>

Stop ==
  /\ cancelled
  /\ stopped' = TRUE
  /\ UNCHANGED <<installed, used, cancelled>>

Next == Reconfigure \/ Begin \/ Use \/ Cancel \/ Stop

Spec == Init /\ [][Next]_vars

\* A configuration in force is used, unless the owner cancels first.
NewConfigUsed == installed \notin used ~> (installed \in used \/ cancelled)

\* Once cancelled, Run returns.
CancelStops == cancelled ~> stopped
=============================================================================
