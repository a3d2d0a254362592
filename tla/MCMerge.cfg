\* Up to three sorted families of up to three samples, of two names; or four.
SPECIFICATION Spec
CONSTANTS
  Inputs <- MCInputs
  NilFamily = NilFamily
\* The call returns: the system stops.
CHECK_DEADLOCK FALSE
INVARIANTS
  NoSampleLost
  StaysSorted
  ReturnsLiveInOrder
