\* Reloads by SIGHUP and by a handler of /-/reload, and the end of the process.
SPECIFICATION FairSpec
CONSTANTS
  Handlers = {h1}
  Listen = TRUE
  MaxEdits = 2
  MaxReloads = 1
\* The process ends.
CHECK_DEADLOCK FALSE
INVARIANTS
  SignalInForce
  EndsForCause
PROPERTIES
  SignalIsServed
  EndsTogether
