\* An answer longer than --limit-bytes against the text of the flag.
SPECIFICATION Spec
CONSTANTS
  Limit = 3
  MaxFamilies = 4
\* The call returns: the system stops.
CHECK_DEADLOCK FALSE
INVARIANTS
  OversizeIsRejected
